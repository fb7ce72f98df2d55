# A TLA+ verification of analogcoder

analogcoder takes an analog circuit (a SPICE netlist, its testbenches and a specification), asks
language-model agents for changes to it, simulates every change over process, voltage and
temperature corners, and returns a netlist that meets the specification, or a report that says
why it found none. A run takes hours; it is resumable, and its result is only worth something if
the report, the log and the files agree about which deck was measured, kept and shipped. That
agreement is what this directory specifies, model-checks and proves.

Source paths below are relative to `src/src/analogcoder/` unless they say otherwise.
`PROJECT.json` lists, for every definition that models code, the lines it stands for.

## 1. Inventory

The program is 53 Python files, about 19,000 lines. It is one process, one event loop and one
call stack (`cli._run`) that awaits its agents; threads exist only inside a sweep
(`simulators/parallel.py`), where workers share one simulation cache. Durable state is one
directory per run.

### Components with state

| Component | State | Operations | What makes it correct |
|---|---|---|---|
| Run state, `state.py` | `netlist_versions`, a stack of file paths per testbench; version files on disk | push (write every testbench's file, then grow the stacks), rollback, read current texts, `log_event` | a version on a stack is whole on disk; the stacks of all testbenches are in step |
| Event log, `history.py` | `history.jsonl`, append only | read all, read kept, count | events of an abandoned iteration are read by nobody, all others by everybody |
| Checkpoints, `checkpoint.py` | `checkpoint.json`, replaced atomically | build, write, read, accept or reject, resume event | a resumed run holds what was saved at one boundary, and nothing that was written later |
| Orchestration loop, `orchestrator.py` | `LoopProgress`: iteration number, current verdict, consecutive rollbacks, tried topologies, swap records | simulate and judge, tune, escalate to a topology swap, review, keep or roll back | verdicts are used for the deck they measured; a PASS describes the returned deck; swaps are recorded as they ended; the loop ends |
| Netlist text, `netlist.py` | the text of each testbench's deck, parsed again by every reader | gates, changes, swaps | a change reaches the component it names, in every deck, and no other |
| Run control, `cli.py` | attempt counter, corner box, entry sweep, topology swaps so far | entry sweep, re-entry loop, optimization phases, final sweep, corner growth, promotion re-entry, report | PASS means the full corner sweep of the returned deck passed; a re-entry has a reason and the budget bounds them |
| Optimizer, `optimizer.py` | baseline objectives, moves per target, `safe_index`, versions pushed in the phase | entry sweep, one push per step, accept or roll back, confirmation sweep, bisection over the phase's versions | never worse than the deck it was given; lands on a version whose own sweep passed |
| Corner selection and simulation, `corner_selection.py`, `corner_sim.py` | selected corners, probe candidates and index, last judged set, promotions | seed, grow, rotate the probe, promote, freeze | the rotation visits every corner; what was judged is known when a re-entry is decided |
| Simulation cache, `simulators/cache.py` | entries keyed by rendered deck and simulator, statistics | lookup and store under a lock, the simulation outside it | an answer is the simulation of its own deck; counters add up |
| Pareto front, `pareto.py` | points by deck version | add, front, shipped point | a point describes one deck |
| Topology library, `topologies.py`, `topology_match.py` | the library on disk, tried pairs | compatible swaps, apply | a pair is offered once |
| Curation, `curation.py`, `cli_curate.py` | the candidate, its stages, three files | author, verify, write | nothing unverified is written as an entry |
| Simulator agent and gate, `agents/simulator_agent.py`, `control_block_gate.py` | the turns of a call, the record of the gate | propose, gate, repair, report | what reaches the simulator takes the specification's measurements |

### Components without state of their own

The tuner, verifier and optimizer agents and their two backends (network calls and schema
validation), the area gate (`area_limits.py`) and the judge (`judge_tools.py`), PVT points and
worst-case folding (`pvt.py`, `compose.py`), the parameters of a deck (`params.py`), the
specification (`spec.py`), structure and signal path analyses, area derivation and ranking,
reports and JSON output, the MADS search (a strategy the optimizer has and `cli.py` does not
choose), and the measurement scripts under `src/scripts`. Many of these are not functions of one
input: a value is given by two resolvers, a specification accepted in six places and used in
four others, a change judged on one deck and written into several. Their modules state what the
two sides owe each other.

### How they interact

`cli._run` owns everything. It sweeps the entry deck over all corners, seeds the corner set from
the sweep, and calls `run_orchestration`, which pushes and rolls back versions in the run state,
logs events, and calls back into `cli` at the head of each iteration so that a checkpoint is
written. A PASS is followed by two optimization phases (area, then objectives), which push and
roll back versions of the same stack, and by a sweep of the final deck. If that sweep fails at a
corner the loop had not selected, the corner set grows and the loop is entered again, at most
`retry_budget` times. With `--resume` the process restores the stacks, the loop's progress, the
corner box and the attempt from `checkpoint.json` and declares the lines of `history.jsonl`
written after it discarded, by one more line in that file.

### What is hard

- **Crash and restart**: between any two file operations, twice in a row, inside a push of
  several files, inside one line of the log; in the loop, between attempts, and in an
  optimization phase.
- **Stale state**: verdicts, swap records, corner sets and sweeps outlive the deck they
  describe, because decks are rolled back under them.
- **Long sequences of legal steps**: counters raised and reset at six places, version numbers
  reused after rollbacks, a flag that decides between a hard failure and another iteration.
- **Partial failure**: an exception after half of a push, after a swap was recorded and before
  it was reviewed, in a phase with unverified versions on the stack.
- **Interleaving**: only in the cache and in log lines written by its workers.
- **Numbers at a boundary**: the two ends of a bisection, a mesh finer than the digits of a
  deck, growth spread over several changes of one device, a missing measurement next to a worst
  one, tolerances that two functions apply differently.

`PROJECT.json` lists each hazard at its line, with the properties that cover it, or why none
does yet.

## 2. Modules

| Module | What it is |
|---|---|
| `RunDirectory` | files, log, checkpoint, version stacks, and the control flow of a run as far as it touches them |
| `DurableRun` | the abstract promise: decks, log and place (versions and lines under their numbers) are saved at once, a crash loses the unsaved part, a resume continues from what was saved |
| `RunDirectoryDurable` | the refinement mapping from `RunDirectory` to `DurableRun` |
| `RunDirectoryProofs` | theorems about `RunDirectory` |
| `Orchestration` | one call of `run_orchestration`, with its agents' answers nondeterministic |
| `OrchestrationProofs` | theorems about `Orchestration` |
| `CornerSelection` | the corner set as pure operators: seed, rotate, promote, grow |
| `AttemptLoop` | the re-entry loop of `cli._run` over `CornerSelection`, with the corner box the loop and the optimizer share |
| `AttemptLoopProofs` | theorems about `CornerSelection` and `AttemptLoop` |
| `Missing` | the value of what was not measured |
| `Judge` | criteria, worst cases, severity and the coverage seed, as pure operators |
| `CornerSweep` | one sweep by a pool of threads over the simulation cache and the log |
| `CornerSweepProofs` | theorems about `CornerSweep` |
| `KnobMoves` | the moves a search may make on a deck, and the mesh of MADS, as pure operators |
| `ParetoFront` | points, dominance and the front, as pure operators |
| `Optimizer` | both optimization phases, over `KnobMoves` and `ParetoFront` |
| `OptimizerProofs` | theorems about `Optimizer` |
| `AreaGate` | the area gate on a proposal |
| `SimulationAgent` | one call of the simulation agent, its gate, and the use of the answer |
| `SimulationAgentProofs` | theorems about `SimulationAgent` |
| `Curation` | the admission of a topology, over `Judge` |
| `CurationProofs` | theorems about `Curation` |
| `NetlistEdit` | the gates that read a netlist and the edits of its text |
| `ParamScope` | what parameters are worth, and which devices an instance parameter sizes |
| `SpecLoading` | what a specification may declare, against what the run does with it |
| `DesignProofs` | theorems about `AreaGate`, `SpecLoading` and `NetlistEdit` |
| `MCRunDirectory`, `MCOrchestration`, `MCAttemptLoop`, `MCOptimizer` | the instances TLC checks |
| `MCDesign` | small netlists, parameter hierarchies and specifications |
| `MCParts` | eight of the machines side by side, as one specification |

`Orchestration` says what a call of the loop does with verdicts and decks, `AttemptLoop` what
calls, sweeps and corners do to each other, `RunDirectory` what all of it leaves on disk: each
is the environment of the next, reduced to what that one can see. `Optimizer` is the inside of
`AttemptLoop`'s `Optimize` ("a deck whose own sweep passed, or the deck it was given", which is
what `LandsWhereASweepPassed` and `ReturnsTheLanding` establish), and of the pushes and
rollbacks of `RunDirectory`; `CornerSweep` is the inside of every sweep; `AreaGate` and
`NetlistEdit` are the inside of the gates of `Orchestration`; `SimulationAgent` is the inside of
a simulation.

### RunDirectory

State: `files` is the set of version files with their contents, `history` the physical lines of
the log, `checkpoint` the checkpoint file, `netlist_versions` the version stacks, `pending` a
push in progress, `pc` the place in `_run`, `progress` what a checkpoint records of the control
flow, `anchor` the optimizer's `safe_index`, `epoch` the number of the process.

- `Push`, `Truncate`, `Fill`, `Commit` are `push_netlist_version` one file operation at a time:
  `open(path, "w")` empties a file before it is filled, and the stacks grow after the last file.
  A crash or an `OSError` may come between any two of them.
- `LogEvent` is any event at any point; `EntrySweep`, `LogAttempt`, `Reenter`, `Finish` and
  `Resume` log the ones that matter to control.
- `Save` is `build_checkpoint` and `write_checkpoint`, atomic because it writes a temporary file
  and calls `os.replace`. The three boundaries are `LoopHead` (outer iteration), `SaveAttempt`
  (attempt) and `SaveResult` (optimization).
- `Resume` is `--resume`: it is refused unless the files the checkpoint names exist (`Accepted`)
  and every line of the log parses (`Readable`); it restores, appends the line that declares a
  range discarded, and goes on from the boundary.
- `StartFresh` is a used directory started again without `--resume`.

The range a resume declares is `history_lines` to the present length, and `Discarded`/`Kept` are
`history.read_events`. A process that dies inside the write of an event leaves a fragment without
a newline, and the next event written lands on the same physical line (`AppendLine`, `glued`);
`read_events` raises on either, so that nothing of such a log is shown to anybody.

### Orchestration

`versions` is the stack of decks, each deck a serial number, so that "the verdict on this deck"
can be told from "a verdict"; `progress` is `LoopProgress`; `iteration` holds the locals of one
iteration and what it logs; `result` is what the call returned. The actions follow the function
from top to bottom, one per branch that ends differently: `LoopHead`,
`SimulationPasses`/`Fails`, `TopologyUnavailable`/`Candidates`, `ProposalUnresolved`, `Swap` and
its three reviews, `Tune` (normalisation and gates), `VerifyPre` (one alternative each),
`NothingApproved`, `Apply`, `RetriesExhausted` and the three reviews of a tuned deck. `Raises`
and `SwapRaises` are the exceptions the function's `try` turns into a FAIL. `Resume` continues
from the last checkpoint; that this is all or nothing is what `RunDirectory` establishes.

`outcomes` is a history variable: it remembers how each iteration ended, so that the escalation
rule can be stated over the iterations instead of over the counter that implements it.

### CornerSelection and AttemptLoop

A corner is a number, its place in the probe order; 0 is the nominal point. A deck is reduced to
what the run can see of it: the points where a simulation of the loop fails (`loop`), the
corners where a sweep fails (`sweep`), whether its failures were measured anywhere (`silent`),
and the attempts whose topology swaps it contains. The two failure sets differ when the
simulator agent's control block does, which is what a path disagreement is about.

- `Simulate` and `SimulateRaises` are `corner_sim.simulate_fn`, whole: the probe is drawn and
  the rotation advanced, the deck is judged at the selected corners, the judged set is recorded
  before a promotion and only when the box is not frozen, a probe that fails is promoted, and
  the box is committed however the call ends.
- `Enter` to `Raises` are `run_orchestration`, as far as it simulates, passes, fails, swaps and
  saves; `Orchestration` has the rest of it.
- `EndAttempt` joins the attempt's swaps to the run's, saves the optimization boundary and
  freezes the box. `SearchStep` and `Optimize` are the two phases: any number of simulations,
  then a deck whose own sweep passed, or the deck they were given.
- `FinalSweep` reuses the optimizer's sweep or runs one; `SweepPasses`, `BudgetSpent`,
  `ReentrySkipped`, `Grow`, `PromotionReentry`, `PathDisagreement` and `UnattributedFailure` are
  the ways on from it, with the guards of the code in the code's order.
- `Resume` restores the box, the attempt's records and the place from the checkpoint.

`turns` and `passed` are history variables: probes since the rotation started over, and the
points of the last PASS.

### Judge and CornerSweep

A point is a testbench at a corner; its key is what `cache.py` hashes: rendered text, control
block, the fingerprint of included files (their version, which may change during a sweep) and
the simulator. `truth` remembers what the simulator showed of a key, so that "this result is of
this deck" can be stated. `TakePoint`, `Lookup`, `Simulate`, `Store`, `OpenLine`, `WriteLine`
and `Return` are the critical sections of a worker: lookup and store hold the lock for one step,
the simulation runs outside it, and a log line is written under it in two steps. A simulation
may time out (not cached), lack its binary, or raise. The verdict, the worst rows and the seed
are computed from the answers by `Judge`, whose operators follow `judge_tools.py`, `pvt.py` and
`corner_selection.py`.

### Optimizer, KnobMoves and ParetoFront

A deck is a level per knob. `stack` is the version stack, `anchor` the `safe_index`, `records`
what was measured of the anchor and each accepted version. A phase goes through `EntrySweep`,
`Rank` (the area ranking, or any proposal of the agent), the search, `Confirm`, and
`BisectProbe` until `BisectLands`. The search is one of three strategies: coordinate descent,
its compound fallback with partners, and MADS with its poll set, refused points and mesh. MADS
compares values before they are written: a geometric knob that moves by less than the deck's
digits spends a step on a deck that is the same text (`Moves`, `Attained`).
`PhaseFails` is an exception at any await. `MakeFront` is `build_front` over the points of both
phases.

### AreaGate

A part is a component of the baseline under one or two spellings, with its size tier and
multiplier, or an instance whose parameters are traced to parts inside it. `Evaluate` follows
`check_area_growth`: each change's targets, the last write of each, groups, the product of
ratios against the tightest limit, and what is reported as seen, neutral or blind. A write is
its position in the proposal, a ratio a fraction that is multiplied and never reduced.

### SimulationAgent

`Post`, `Served`, the three `Call...` actions, `Answers`, `Mismatches` and `Repaired` are the
turns of either backend; `GateVerdict` is `check_control_block`; `ran` is what reached the
simulator from the tool, `used` what ran at the corners. What the model writes is any block.

### Curation

The stages of `cli_curate` in their order, each with its ways to pass, fail or raise, the
authoring loop with its retries, and the three files one after another with a death between any
two. A stage records the rows it decided on: the corners stage both worst rows, the candidate's
and the incumbent's.

### NetlistEdit, ParamScope, SpecLoading

These have little control and much text, so the state is the text: `NetlistEdit` keeps the lines
of every testbench's deck, which each gate and each edit parses again; `ParamScope` a hierarchy
of definitions to which declarations are added; `SpecLoading` the declarations of a file. A line
is its tokens, and a token of a component keeps its place (how many lines below the first, and
which there), so that "the last one wins" and "the last physical line that has one" are about
the same thing; a scope is a sequence of names, an expression a product of names. Each property
compares the program's function with an independent reading: the parse of the edited text with
the meaning of the edit, the two resolvers with the expansion of the circuit, the acceptance of
a file with every use the run makes of it.

## 3. Runs

| Run | Bounds | What it shows |
|---|---|---|
| `directory_safety` | 2 testbenches, 2 decks, 2 iterations, 1 optimizer step, 2 crashes (1.2 million states) | what the process or the checkpoint names is whole on disk; nothing written after a save disturbs it; a crash costs one iteration, or, once the attempt's result is saved, both phases and the verdict |
| `directory_recovery` | 1 iteration, 1 re-entry, 2 crashes (59 thousand) | `RunDirectory` implements `DurableRun`; every run that reached a checkpoint ends |
| `directory_used` | torn log lines and fresh starts in a used directory, 2 logged lines (319 thousand) | what still holds in the two conditions the other runs exclude |
| `directory_torn` | one crash inside a log line | finding 1 |
| `directory_fresh` | a fresh start in a used directory | finding 2 |
| `orchestration_loop` | 4 iterations, 2 retries, threshold 2, 2 alternatives, 2 swap targets, 1 gate, 1 resume (about half a million) | verdicts, swaps, escalation, hard failures, termination |
| `orchestration_result` | 1 iteration | finding 3 |
| `orchestration_retries` | 1 iteration | finding 4 |
| `attempts_safety` | 3 corners, 6 deck behaviours, 2 iterations, 3 attempts, 1 search step, 1 resume (3.5 million) | corner sets, rotation, re-entry decisions, verdicts, swap lists |
| `attempts_drift` | the same, no resume | finding 5 |
| `parts` | eight machines, below (404 thousand) | sweeps, searches, gates, agent calls, curation and text: what each hands over is what it measured or was given, and those that run end |
| `optimizer_front` | the optimizer alone, 2 knobs, 3 steps | finding 6 |

**The run `parts`** holds eight machines that share no variable and have one initial state each
except the one that moves: the state space is the sum of theirs, not the product, and every
invariant is evaluated on each. Their bounds are: two knobs, one of them a count, three steps
and five runs (three strategies, with and without corners); two threads, two testbenches that
render alike at one corner, two corners, one change of an included file; every proposal of two
changes over six names and five values; two turns of two tool calls and two repairs, two
corners, seven blocks; two authored attempts, three sources, five rows; two proposals of two
changes or swaps on two decks of two testbenches; two declarations in three hierarchies; two
testbenches of ten declarations, fourteen forms of corners and four reductions.

**Why the bounds are enough.** Two testbenches are the least for which a push can stop between
two files; two decks the least for which contents differ; two crashes the least for which
discarded ranges meet, with a resume in between that had no time to save; a version number is
reused after one rollback, so one optimizer step or two iterations reach it. In the loop, a
threshold of 2 with 4 iterations lets the counter reach the threshold, be reset by a swap or an
unresolved proposal, and reach it again; two swap targets let one be used up and another be
refused; two alternatives let one be gated and the other reviewed. In the attempt loop, three
corners leave two to wait after a promotion, so that a rotation can be uneven; the six
behaviours (good, failing on both paths, failing the sweep only, failing at two corners, failing
everywhere, passing the loop but measured nowhere by the sweep) reach every decision after a
sweep; three attempts allow a growth after a promotion re-entry and the reverse. The program's
own constants are 10 iterations, 3 retries, threshold 3, 3 alternatives and 20 optimizer steps;
the theorems do not depend on them. In `parts`, three steps make an interval that the bisection
halves twice; two threads are the least that both miss one key, and two corners the least for
which one of them is the worst; a device with two spellings and an instance that reaches two
parts are what growth can be spread over; two turns let a refused block be followed by an
accepted one, in one turn and across turns; two authored attempts let a stage of the first be
taken for the second's; a definition used directly and through another, and one that hides
another's name, are the cases the two resolvers treat differently.

**Symmetry** is not used: decks and pairs appear in temporal properties.

**Deadlock** is not checked: a run ends (`done`), a call returns, and a process that died before
its first checkpoint stays down.

**Fairness.** `WF_vars(Run)`: a process that is alive keeps going, because every await in the
program either returns or raises; it is a single weak fairness over all steps, not one per
branch, so no particular agent's answer is ever assumed. `WF_vars(Resume)`: somebody eventually
runs a crashed run again with `--resume`. `WF_vars(Loop)`: the same as the first, for the loop.
`WF_partsVars(Progress)`: the optimizer, the workers of the sweep, the agent's call and the
curation go on, again as one weak fairness and for the same reason; it says nothing of which
thread moves, and none is needed, because every thread's step is a step towards the end. The
area gate and the three machines about text are functions: nothing makes anybody call them, and
they are outside it. That included files change is outside it too.

## 4. Properties

`RunDirectory`: `Lockstep`, `NamedFilesWhole` (`StackedFilesWhole` and
`CheckpointedFilesWhole`), `CheckpointedDecksUntouched`, `LogReadsBack` (of a log that can be read
at all: `DiscardedRangesNest` and `EntrySweepStaysReadable`), `CrashCostsOneStage` (what a resume
repeats is at most one outer iteration of the attempt it is in, or, from the saved result of an
attempt on, both optimization phases, the verdict and the event that asks for a re-entry; without
that save it would repeat the orchestration too), `RunEnds`, and the refinement
`ResumesFromWhatWasSaved`. `AcceptedMeansWhole` is what finding 2 refutes. The reason reuse of version numbers is safe is not in any single
function: a version is overwritten only after it was rolled back; the loop rolls back only what
the current iteration pushed, after the save at its head; the optimizer never goes below its
anchor, which is the depth saved by `SaveResult`.

`Orchestration`: `VerdictsCompareNeighbours` (a rolled back deck leaves its verdict behind, and
yet no agent ever compares with it, because the next iteration judges first),
`PassDescribesItsDeck`, `SwapsExplainTheDeck`, `PairsSwappedOnce`, `EscalatesAfterFailures`,
`HardFailNeedsAReview`, `Terminates`.

`AttemptLoop`: `CornersPartition`, `RotationMissesNobody`, `DisagreementsAreReal` (a snapshot
taken after a promotion, or lost in a resume, would blame the two paths for a corner the judge
never saw), `ReentryBringsNews`, `VerdictDescribesTheDeck`, `ResultAccountsForAttempts`
(`GrownExplainsAttempts` and `SwapsListedOnce`), `SearchSeesOneCornerSet`.

`Optimizer`: `LandsWhereASweepPassed`, `ReturnsTheLanding` (the figures a result carries are
those of the deck on top, strictly better by the accepted steps, or nothing was touched),
`ExhaustionIsReal` (MADS says that all knobs are exhausted only next to points it refused; see
section 5 for what this does not say).

`CornerSweep` and `Judge`: `AnswersAreTheirOwn`, `SweepPassesEveryCorner` (the sweep's verdict
over corners, and the loop's over one merged row, say the same of the same measurements),
`SeedShowsTheWorst`, `LogAccountsForCalls`.

`AreaGate`: `ApprovedGrowthIsBoundedByKey`, on the devices that are reached under one key: the
growth counts every target of every change that stays in the deck. Section 5 says what happens
to the devices that are reached in two ways. `SimulationAgent`: `SimulatesTheSpecification`.
`Curation`: `AdmittedBodyPassedEveryStage` (an authored body and its incumbent were measured at
every corner, and on each criterion the entry says it addresses, the body's worst corner beats the
incumbent's by more than the tolerance; a body from a deck or a file is not taken to the corners,
and its entry says `nominal`) and `AdmittedBodyIsNotMatched` (the incumbent and the points of its
single-knob sweep: each that was measured in full is beaten somewhere; and what an entry addresses
is exactly what the incumbent measured and the body beats). Other entries of the library are
compared with nothing, by the code or by the model.

`NetlistEdit`: `EditsLandWhereTheySay`. `ParamScope`: `NumbersAreTheCircuits`. `SpecLoading`:
`LoadedIsRunnable` (`EveryDeckIsItsCorners`, `CornersComeBack`, `LabelsTellCornersApart`,
`NothingIsHidden`; a deck belongs to one set of conditions, so that no corner is simulated as
another). These three carry conditions (definitions are closed and have a path of their own, a
definition speaks for all its instances, no axis lists a value twice) that are what the code relies on without checking; section 5 lists
what follows when they fail.

`PartsTerminate`: every machine that runs ends, and no thread keeps the lock.

Every property has a mutant in `PROJECT.json`: a plausible bug in a modelled definition, under
which TLC finds that property violated.

## 5. Findings

1. **A fragment of a log line makes a run impossible to resume.** `log_event` appends with a
   plain write; `history._numbered` parses every line, discarded or not, and `--resume` counts
   events first. The design says a run can be killed at any point.
2. **A used directory started without `--resume`** keeps the old checkpoint while the entry deck's
   file `v0` is emptied and written again. Its text is the same, but a death in between leaves it
   torn, and `--resume` accepts the old checkpoint over it: of the version files a checkpoint
   names only the existence is tested (`checkpoint.py:591-599`). Nothing else of the earlier run
   is written before the new checkpoint replaces the old one.
3. **The result of a run that ran out of iterations** carries the criteria of a deck that was
   rolled back in its last iteration, next to the paths of the deck below it.
4. **`_retry_reason_counts`** is documented as exactly the number of failed retries; since a
   retry carries alternatives it is not.

5. **The argmax drift of a run whose last verdict sweep could not run** is computed from the
   sweep of the previous attempt's deck: `final_sweep` is reset once, before the re-entry loop.
   A comment and a test say that the record is empty then; the test reaches attempt 0 only.


6. **The front's shipped row is marked corner verified** although it is the smallest point of
   all that were measured, the ones that the final sweep rejected included.

Each has a run that ends in a violation; `PROJECT.json` quotes the line that disagrees.

Met while modelling, the condition under which a property holds being what they violate:

- `cli.py:244-252` drops a point of the second phase whose version index the first one used and
  rolled back, or labels it with the other's deck.
- `mads.py:520-543`: a knob is counted as exhausted by the mesh alone, so the search can stop
  with `all_knobs_exhausted` while a count could still step at the present point.
- `area_limits.py:555-566`: a group is keyed by the spelling of its target. Of one device,
  `[M1.W 10u->25u, AMP.M1.m 2->4]` is approved (five times the area) where `[M1.W, M1.m]` is
  refused; a device reached directly and through an instance parameter has two keys too.
- `netlist.py:612-649` is asked about the canonical deck only. A bare `M2` that is unique there
  and not in another testbench's deck makes `apply_changes` raise there, which
  `orchestrator.py:1045-1048` calls unreachable; a name without a match in another deck is
  skipped in silence. The message for an ambiguous name suggests `<top-level>.M2`, which the
  same gate refuses.
- `params.py:208-211`: when one instance overrides a parameter and another leaves it at its
  default, the definition's environment takes the override for both. An override is evaluated in
  the scope of the definition that is called there, in that of the caller when traced
  (`params.py:474-479`).
- `spec.py`: a repeated value on an axis is accepted, and the corner set refuses it after the
  entry sweep was paid for, at a place `cli.py:745` calls out of reach; two testbenches of one
  name are accepted; a corner may be named `(deck)`, the label of the nominal point.
- `spec.py:301` admits four operators, `curation.py:69-75` expects five.
- `curation.py`: "better" and "at least as good" use tolerances relative to different values, so
  that the two are not complements.
- `cache.py`: when the simulator raises, a miss is counted and no line is logged.
- The simulator's identity that `checkpoint.py:583-589` compares is never supplied by
  `cli.py:475`.

## 6. Proofs

TLAPS checks, for every value of the constants:

- `RunDirectoryProofs`, assuming only that a used directory is not started afresh
  (`FreshRunsInSameDir = FALSE`; finding 2 shows what fails otherwise): `TypeCorrect`,
  `StacksInLockstep`, `NothingTornIsNamed`, `CheckpointOutlivesWrites`, `LittleIsLost`, and the
  refinement `RunsAreDurable`. `LogStaysReadable` needs no assumption: in a used directory too, a
  log without torn or glued lines reads back as it should. `OnlyTornLinesStopAResume` is finding 1 turned around: if a
  line reaches the log whole (`AtomicAppend`), a run killed anywhere can be resumed.
- `OrchestrationProofs`, from the bound assumption alone: `TypeCorrect`, `VerdictsMatchDecks`,
  `PassesDescribeDecks`, `NoPairTwice`, `GatesNeverEndARun`, `EscalationFollowsFailures`,
  `SwapRecordsExplainTheDeck`.
- `AttemptLoopProofs`, from the assumptions on the constants (a number of corners, behaviours
  over them, and bounds that are naturals): `TypeCorrect`, `NoCornerLost`,
  `ResultsDescribeDecks`, `SearchIsFrozen`, `EveryCornerIsProbed`, `DisagreementsHappened`,
  `NoIdenticalRetry`, `ResultsListEverything`.
- `OptimizerProofs`, for any knobs, weights, runs, proposals and budgets:
  `EveryLandingWasSwept`, `TheLandingIsReturned`, `GivingUpIsReal`.
- `CornerSweepProofs`: `NoAnswerIsAnothers`, `OneWriter`, `EveryCallHasItsLine`,
  `PassingIsEveryCorner` and `SeedIsFaithful`, for any number of threads, any testbenches,
  criteria, corners, renderings and any number of changes of the included files. Of the
  specification they assume what `spec.py` makes sure of: there is a corner (with none, the
  sweep fails every criterion that all corners vacuously meet), and epsilon is at most one
  (above it, a value near the worst one may be far from another that is close to zero).
- `SimulationAgentProofs`: `TheSpecificationIsSimulated`, for any blocks and bounds.
- `CurationProofs`: `NothingUntestedIsAdmitted` and `NothingMatchesTheAdmitted`, for any
  criteria, rows and tolerance; that a measured value is an integer is an assumption of
  `Curation`, since the comparison calculates with them.
- `DesignProofs`: `NoDeviceOutgrows`, for any parts, spellings, traces, tiers and proposals;
  `LoadedRuns`, for any declarations; and `EditsLand`, for decks of any length, any lists of
  changes and any bodies. The second assumes of declarations (`SpecLoadingAssumption`) what
  YAML and the refusals of scalars make sure of: lists are sequences, an axis holds names or
  numbers, a label is not empty. The third assumes of decks (`NetlistEditAssumption`) what the
  code takes for granted: a definition has a name, is closed, and no two have one path (the
  docstring of `_locate_subckt_span` calls a deck with two malformed, netlist.py:909-926); a
  component has a refdes, which is no `name=value`, and is connected to something; the decks of
  the testbenches have the same definitions; and a library body closes nothing it did not open.

**RunDirectory's inductive invariant.** That a checkpointed file is whole says nothing about the
step after it, which may truncate a file. The strengthening is that all stacks are ramps `0, 1,
... n-1` (so a push writes to version `n`, which no stack holds), that a pending push is for
exactly the present depth, that the checkpoint's stacks are ramps too, of a depth no larger than
that of the live stack wherever the process may still write or roll back, and that the
optimizer's anchor lies at or above it. What a checkpoint names is then below every version a
push can write. `CheckpointOutlivesWrites` is an action property from the same invariant.

**The log** has an invariant of its own (`LogInv`), which does not need the one of the files:
each resume's line discards up to its own place, and the ranges declared since the last save all
start at the length that save recorded; so a later range covers an earlier one, or lies above
it. The entry sweep is kept because it was logged before the first save.
`CrashCostsOneStage` follows from `CostInv`, which says for each place in the control flow
how far the process may have come from its checkpoint there.

**The refinement** maps a run's state to what its files, its log and its checkpoint say of it.
`RInv` adds to the invariants that every file of a stack holds the text of one deck, that the
entry version stays below the anchor, and that all of that is so in the checkpoint. Then each
action maps to a step of `DurableRun`: the four steps of a push but the last write only where no
stack and no checkpoint reads (stutter); a commit makes the stack longer, a rollback shorter;
the line of a resume removes from the log exactly the lines after the save and adds itself. For
this the promise numbers versions and lines: that a resumed log is the saved one and one line
more is a fact about two functions, while "the subsequence of the lines kept" is a recursive
definition the prover cannot look into. A line of the log is read under the number it has in the
file.

**Orchestration's inductive invariant** is `TypeOK` with `StackInv` (the stack is never empty,
and has at least two decks while a push is under review), `SwapInv` (recorded pairs are tried,
each once, in the live progress and in the saved one, and the offered candidates are untried),
`ReviewInv` (the flag `verify_pre_rejected_any` is set only by a refusal of this iteration, and
an approval leaves the retry loop), and the properties themselves. `EscalationFollowsFailures`
adds `CountInv` on top of it: `consecutive_rollbacks` is the length of the longest run of failed
iterations that ends the outcomes and in which only the first one escalated (or zero, after an
escalation in the present iteration), in the live progress and in the saved one.
`SwapsExplainTheDeck` speaks of the end; `DeckInv` says it of every moment: no deck on a stack
or in a record has a serial number yet to be given, so a deck that was rolled back never returns;
a record is kept exactly when its deck is on the stack; and the only one without an outcome is
that of the swap on top, under review.

**AttemptLoop's inductive invariant** says that the corner set in the box and the one in the
checkpoint are good (a partition of the points, with an index within the waiting corners); that
in a search the box is frozen and the checkpoint holds the very box it started with, without
which a resume inside a search could change the set; and that a sweep at hand, the optimizer's
or the final one, is of the deck on top. The lemmas on `CornerSelection` show that seeding,
rotating, promoting and growing return good sets. Four more stand on it. `RotationInv`: the
corners before the probe index were probed once more than those from it on, in the box and in
the checkpoint. `JudgeInv`: from a PASS to the decision after the sweep the judge's snapshot is
the set that passed on this deck, or the deck was changed by a search and passed its sweep,
whichever of a promotion or a resume came between. `GrownInv`: the entries of added corners are as many as the attempts, disjoint, within
the selected corners, and empty where a promotion is listed. `SwapsInv`: the swaps of the deck
are those listed and those of the present attempt, each in one of the two and once.

**Optimizer's inductive invariant.** The properties speak of the end of the second phase, while
what makes them true happens in either. The strengthening ties the version stack to the search:
there are exactly as many versions above the anchor as steps were accepted (one more while a
move is judged); the sweep at hand is a passing one of the anchor, until the bisection, where it
is that of the lower end, which lies between the anchor and the top; and while the second phase
runs, the first one's result speaks of the deck at the second one's anchor, which no rollback of
that phase removes.

`TheLandingIsReturned` adds `MeasureInv` (the records are of the versions from the anchor up,
with the area and the objective of each deck, all above the anchor better than it, none better
than the last)
and `SaysInv` (a phase that ended says so of the deck it left, and the second phase's first
record is what the first one ended with). `GivingUpIsReal` adds `AxesInv`: an open poll has the axis of every live
knob, and the points of an empty poll that is remembered hold the axis points of the mesh one
coarser. Exhaustion is declared when two polls in a row had the same points and all of them were
refused, the second on half the mesh. The rest is about numbers: if a geometric knob's axis led
anywhere on the coarser mesh, it led farther than any direction of the finer mesh does, whose
reach is half as long, and the two polls would not have had the same points; so the reach is
zero. And the axis of a count is a step of one device on every mesh up to the first.

**CornerSweep's inductive invariant.** A worker's key carries the version of the files at the
moment the point was taken; a result in hand, in the cache or returned was shown by the
simulator of the deck of its own key, at that version or a later one; a worker that writes holds
the lock. `CallsInv` counts on top of it: each point is waiting, with one worker, or done; the
lines written are the calls that are done or past their line, by kind, and the counters are
ahead of the lines by the workers that have counted and not written.

What the sweep makes of the answers is a function of them, fixed once it is judged (`ReportInv`,
and no thread has a point any more), over rows of integers (`RowsInv`). The rest is about
`Judge`'s operators. `WorstDecides`: a criterion passes at its worst value exactly if every
corner measured it and passes. `SlotDecides`: the one value per measurement that the loop judges
fails a criterion exactly if some criterion fails at its worst, since a violated one takes the
slot, and a value that some corner measured passes where the worst one does. `NearTheWorst`:
within epsilon of the worst value is within epsilon of every value. `ChosenIsGreedy`, by
induction over the rounds: after m of them, m corners are chosen or they are enough, so as many
rounds as there are corners are enough; and every criterion is covered by some corner, so that
the target is reached.

**SimulationAgent's**: whatever was run or will be run has the verdict None of the gate (and a
block with that verdict keeps the reference's lines, `PassedMeasures`), and the record counts
each call once, as run or as refused. **Curation's**: at each stage the recorded stages are
passes, in order, all of the present candidate, and no file is written before the outcome is
fixed, and an authored body that got past the corners beats the incumbent's worst row on
whatever its row beats the incumbent's; `MatchInv` adds that the comparison compared the row of the
reproduction, and what an admission found of each point.

**The area gate and the specification** decide in one step, so that their inductive invariants
are short: the verdict is that of the proposal (`AreaInv`), the result that of the file
(`SpecInv`); what is hard is what the functions compute. `NoDeviceOutgrows` takes three steps.
`WrittenIsKept`: the last write of a parameter, found by position over all changes, is what the
gate keeps, although the gate compares spellings and the deck parts. `BoundedIsSeen`: if the
gate reports a change as bounded, it has a ratio, each target of it counts and has a limit, and
its values are whole where they must be. `GroupIsTheDevice`: on a device reached in one way, the
product over the targets of the group's key is factor for factor the product over everything
written that grows the device, and the group's limit is at most the tightest of the device; so
if the device outgrew, the group would have. `LoadedRuns` has a lemma for each of its five
parts. `GridTells`: a place in the grid of axes is three places in the lists and back (division
with remainder, by two nonlinear lemmas), so that two places have one label exactly if a list
repeats a value. `CornerForm` and `ReadBack`: a corner has coordinates or a label with its file,
and either survives being written. `DecksAreTheirCorners`: an accepted file has no unslotted
composition over corners and no file testbench over a labelled corner, which is what leaves
each deck with the conditions of one corner. `NoMeasurementHides` is the refusal of equal names
read backwards.

**The text of a netlist** has the inductive invariant `NetInv`: as long as applying did not
raise, every deck parses (`WellFormed`) and all have the same subcircuits (`OneDesign`). Without
it a second edit could meet a text in which the first one had split a component or unbalanced a
definition. The proof follows the lines. For a change: `WriteIs` finds the token that is
written, on the last physical line that has one; `PutMeans` shows that replacing the last token
of a key, or adding one where no line has it, changes that parameter of the parse and no other;
`TouchStacks` and `TouchWords` that no other line changes its scope or its component; so one
change gives one component its value or raises (`ApplyChangeDoes`). `ApplyChangesDoes` is the
induction over the list: after n changes each component has what the first n mean for it
(`MeansOneMore`), or one of them was ambiguous. `GatesAllow` is about what the gates let pass. For
a swap: the span of a path is the lines within it (`SpanTells`: from the definition's opening to
the first line that closes it), the stack of open definitions runs through the body as it did
through the body alone, with the path below it (`Follows`), and runs on after the span as before
(`FollowsAtTop`); so the components outside are those there were, and those inside are the
body's (`SwapOutside`, `SwapInside`), and the new text has a span that gives the body back
(`SwapGivesBack`).

**Induction.** The library's induction theorems take a predicate as a parameter, which the
installed provers cannot instantiate. Three definitions are recursive functions on numbers, the
powers of two, the sum of the areas and the rounds of the coverage seed (of the product of
ratios only that equal factors give equal products is needed), and two on the places of a
sequence, the open definitions at a line and the text after a change. For these
`OptimizerProofs`, `CornerSweepProofs` and `DesignProofs` derive induction over a *set* of
numbers (`Induction` and `Counting`, from the well-foundedness of the naturals), which is first
order; `StacksExist` and `AppliedExist` show with it that the recursive functions exist. The
second and the third also derive from it that a bounded set of numbers has a greatest and a
least one.
What a function recursive over data computes (`ParamScope`'s scopes and expressions) stays out
of reach.

Only model-checked:

- liveness (`RunEnds`, `Terminates`, `PartsTerminate`), which is beyond the prover;
- `NumbersAreTheCircuits`, whose two sides are recursive operators, and `PartsTypeOK`, whose
  module reaches them.

## 7. Not modelled, and why

- What a language model answers: any answer the schemas admit, or an exception. Requests,
  prompts and token accounting are I/O.
- Structure, patterns and signal path: analyses of a parsed netlist without state, shown to
  agents.
- Which approved alternative `alternatives.select` picks, and which topologies match a block:
  both are any choice in `Orchestration`.
- Floating point: sums of areas, guard bands, slack and violation scores. Values in the models
  are integers; a guard band or slack only refuses a step, which the models may refuse too.
- The rewriting of lines for a corner and the joining of fragments (`compose.py`): they succeed
  or raise. `SpecLoading` has which text a testbench gets at a corner, not the text.
- Scale factors, includes and the splitting of a line into tokens (`netlist.py`); operators
  other than the product (`params.py`).
- Reports, JSON output, and the scripts under `src/scripts`, which measure and print.
- The digests of specification and netlists, the schema version and the testbench names that a
  checkpoint also carries and `--resume` compares first (`checkpoint.py:546-590`): they guard
  against a user who edits the specification or its netlists between two runs, and both are
  constants here. No version file is digested.
- Two coordinates of MADS for one parameter, which a ranking that repeats a parameter would give
  it. Descents do take such rankings.
- The Halton points and the Householder basis of MADS: the composite directions of a poll are any
  vectors with components none, half or full, at most `Composites` of them (`parts` has up to one,
  the theorems any number). Overflow of a value, which makes a knob stay, is left out.
- In `RunDirectory`, the content of checkpoints beyond decks, log position and progress: the
  corner box is in `AttemptLoop`, whose saves are atomic because `RunDirectory` shows that they
  are.
- Runs without corners, with corner reduction off or with probes off, which use a part of what
  `AttemptLoop` models; a resume under another simulator.
- A deck's behaviour is fixed in `AttemptLoop`: the same deck simulated twice fails at the same
  points. Likewise in `Optimizer`'s sweeps, where it is the cache that makes it so.
- Events' payloads, except where a finding is about them.

## 8. Plan

Done: every module of section 2, a run for each question, the theorems of section 6. Left:

1. `alternatives.select` and the structural match as operators against a reference.
2. `AttemptLoop` with corner reduction off.
