--------------------------- MODULE SimulationAgent ---------------------------
(***************************************************************************)
(* One call of the simulation agent for a testbench (simulator_agent.py),  *)
(* over either backend (openai_compatible.py, claude_sdk.py), and the use  *)
(* of the control block it reports at every selected corner                *)
(* (corner_sim.py).                                                        *)
(*                                                                         *)
(* A control block is the sequence of its statements, as the gate          *)
(* normalises them: [command, key, marked], where `key` stands for the     *)
(* whole line and `marked` says that it carries a substitution marker.     *)
(* What the model asks for and answers is nondeterministic.                *)
(***************************************************************************)
EXTENDS Missing, SequencesExt

CONSTANTS
  Reference,       \* the control block of the specification
  Block,           \* the blocks the agent may write
  Corners,         \* how many points the selected corner set has
  MaxToolTurns,    \* MAX_TOOL_LOOP_TURNS
  MaxCalls,        \* tool calls in one turn
  MaxRepairs       \* MAX_STRUCTURED_OUTPUT_REPAIRS

Commands == {"option", "measurement", "structure", "analysis", "output", "setting", "unknown"}
Statements == [command : Commands, key : STRING, marked : BOOLEAN]
Reasons ==
  {"command_not_allowed", "substitution_in_option", "measurements_altered", "control_block_altered"}

ASSUME SimulationAgentAssumption ==
  /\ Reference \in Block
  /\ \A b \in Block : \A i \in DOMAIN b : b[i] \in Statements
  /\ {Corners, MaxToolTurns, MaxCalls, MaxRepairs} \subseteq Nat
  /\ MaxToolTurns > 0
  /\ None \notin Reasons

VARIABLES
  backend,    \* "openai_compatible" or "claude_sdk"
  at,         \* where the call is
  turns,      \* turns of the tool loop that were begun
  pending,    \* tool calls of this turn still to serve
  repairs,    \* answers that did not match the schema
  record,     \* what the gate did: control_block_check
  ran,        \* the blocks the tool handed to the simulator, in order
  reported,   \* the control_block field of the answer, None when it has none
  used        \* the blocks of the corner simulations, in order

agentVars == <<backend, at, turns, pending, repairs, record, ran, reported, used>>

(* check_control_block: the reason of a rejection, or None.                *)
Kept(block) == SelectSeq(block, LAMBDA s : s.command # "option")
Differ(a, b) ==
  {i \in DOMAIN a \cup DOMAIN b :
     i \notin DOMAIN a \/ i \notin DOMAIN b \/ a[i].key # b[i].key}
CountsOnly(candidate) ==   \* mutant: the kept lines are counted, not compared
  IF Len(Kept(candidate)) = Len(Kept(Reference)) THEN None ELSE "control_block_altered"
GateVerdict(candidate) ==
  LET mine == Kept(candidate)
      theirs == Kept(Reference)
      first == Min(Differ(mine, theirs))
      measures(block) == first \in DOMAIN block /\ block[first].command = "measurement"
  IN  IF \E i \in DOMAIN candidate : candidate[i].command = "unknown" THEN "command_not_allowed"
      ELSE IF \E i \in DOMAIN candidate : candidate[i].command = "option" /\ candidate[i].marked
           THEN "substitution_in_option"
      ELSE IF Differ(mine, theirs) = {} THEN None
      ELSE IF measures(mine) \/ measures(theirs) THEN "measurements_altered"
           ELSE "control_block_altered"

(* _new_gate_record.                                                       *)
NewGateRecord ==
  [tool_calls |-> 0, tool_rejections |-> <<>>, returned |-> "nothing", returned_dropped |-> FALSE]

AgentInit ==
  /\ backend \in {"openai_compatible", "claude_sdk"}
  /\ at = "post"
  /\ turns = 0 /\ pending = 0 /\ repairs = 0
  /\ record = NewGateRecord
  /\ ran = <<>> /\ reported = None /\ used = <<>>

-----------------------------------------------------------------------------
(* A turn of the loop: the request is answered with tool calls, or with    *)
(* content.  The stream of claude_sdk has no turns of its own.             *)
PostOnceMore ==   \* mutant: one turn more than the limit
  /\ at = "post"
  /\ turns <= MaxToolTurns
  /\ turns' = turns + 1
  /\ \/ \E n \in 1 .. MaxCalls : pending' = n /\ at' = "calls"
     \/ pending' = 0 /\ at' = "content"
  /\ UNCHANGED <<backend, repairs, record, ran, reported, used>>
Post ==
  /\ at = "post"
  /\ turns < MaxToolTurns
  /\ turns' = turns + 1
  /\ \/ \E n \in 1 .. MaxCalls : pending' = n /\ at' = "calls"
     \/ pending' = 0 /\ at' = "content"
  /\ UNCHANGED <<backend, repairs, record, ran, reported, used>>

(* A transport failure, an answer without a message, a tool nobody         *)
(* offered, or an error result.                                            *)
Fails ==
  /\ at \in {"post", "calls", "content", "repair"}
  /\ at' = "failed"
  /\ UNCHANGED <<backend, turns, pending, repairs, record, ran, reported, used>>

(* The for-else: the calls of the last turn were served all the same.      *)
LoopExceeded ==
  /\ at = "post"
  /\ turns = MaxToolTurns
  /\ at' = "failed"
  /\ UNCHANGED <<backend, turns, pending, repairs, record, ran, reported, used>>

Served ==
  /\ pending' = pending - 1
  /\ at' = IF pending = 1 THEN "post" ELSE "calls"
  /\ UNCHANGED <<backend, turns, repairs, reported, used>>

(* Arguments that do not parse or lack the block are answered and not      *)
(* counted.                                                                *)
CallUnusable ==
  /\ at = "calls"
  /\ Served
  /\ UNCHANGED <<record, ran>>

CallRejected ==
  /\ at = "calls"
  /\ \E block \in Block :
       /\ GateVerdict(block) # None
       /\ record' = [record EXCEPT !.tool_calls = @ + 1,
                                   !.tool_rejections = Append(@, GateVerdict(block))]
  /\ Served
  /\ UNCHANGED ran

(* The simulator runs, and may raise: the loop turns that into an answer.  *)
CallSimulates ==
  /\ at = "calls"
  /\ \E block \in Block :
       /\ GateVerdict(block) = None
       /\ ran' = Append(ran, block)
  /\ record' = [record EXCEPT !.tool_calls = @ + 1]
  /\ Served

-----------------------------------------------------------------------------
(* The answer, when it matches the schema; the field is optional.          *)
Answers ==
  /\ at = "content"
  /\ reported' \in Block \cup {None}
  /\ at' = "gate"
  /\ UNCHANGED <<backend, turns, pending, repairs, record, ran, used>>

(* One that does not is asked for again, without tools, twice; claude_sdk  *)
(* gives one answer.                                                       *)
Mismatches ==
  /\ at = "content"
  /\ backend = "openai_compatible" /\ repairs < MaxRepairs
  /\ repairs' = repairs + 1
  /\ at' = "repair"
  /\ UNCHANGED <<backend, turns, pending, record, ran, reported, used>>

Repaired ==
  /\ at = "repair"
  /\ at' = "content"
  /\ UNCHANGED <<backend, turns, pending, repairs, record, ran, reported, used>>

(* simulate: what is reported passes the gate again, or is dropped.        *)
KeepReported ==   \* mutant: the rejection is recorded, the field stays
  /\ at = "gate"
  /\ record' = IF reported = None THEN record
               ELSE [record EXCEPT !.returned = GateVerdict(reported),
                                   !.returned_dropped = GateVerdict(reported) # None]
  /\ UNCHANGED reported
  /\ at' = "corners"
  /\ UNCHANGED <<backend, turns, pending, repairs, ran, used>>
CheckReported ==
  /\ at = "gate"
  /\ IF reported = None THEN UNCHANGED <<record, reported>>
     ELSE /\ record' = [record EXCEPT !.returned = GateVerdict(reported),
                                      !.returned_dropped = GateVerdict(reported) # None]
          /\ reported' = IF GateVerdict(reported) = None THEN reported ELSE None
  /\ at' = "corners"
  /\ UNCHANGED <<backend, turns, pending, repairs, ran, used>>

(* simulate_fn: the points of this testbench with the reported block, and  *)
(* with the reference when there is none or it is empty.                   *)
SimulateCorners ==
  /\ at = "corners"
  /\ used' = [i \in 1 .. Corners |->
                IF reported \in {None, <<>>} THEN Reference ELSE reported]
  /\ at' = "done"
  /\ UNCHANGED <<backend, turns, pending, repairs, record, ran, reported>>

AgentNext ==
  \/ Post \/ Fails \/ LoopExceeded \/ CallUnusable \/ CallRejected \/ CallSimulates
  \/ Answers \/ Mismatches \/ Repaired \/ CheckReported \/ SimulateCorners
AgentSpec == AgentInit /\ [][AgentNext]_agentVars

-----------------------------------------------------------------------------
AgentTypeOK ==
  /\ backend \in {"openai_compatible", "claude_sdk"}
  /\ at \in {"post", "calls", "content", "repair", "gate", "corners", "done", "failed"}
  /\ turns \in 0 .. MaxToolTurns /\ pending \in 0 .. MaxCalls /\ repairs \in 0 .. MaxRepairs
  /\ Range(ran) \subseteq Block /\ Range(used) \subseteq Block
  /\ reported \in Block \cup {None}

(* Whatever reaches the simulator, from the tool or at a corner, after any *)
(* number of retries, takes the measurements of the specification in its   *)
(* order and nothing else, and what the record of the gate says explains   *)
(* which block the corners were given (simulator_agent.py:63-102,          *)
(* 124-146).                                                               *)
Measures(block) == [i \in DOMAIN Kept(block) |-> Kept(block)[i].key]
SimulatesTheSpecification ==
  /\ \A block \in Range(ran) \cup Range(used) :
       /\ Measures(block) = Measures(Reference)
       /\ block # Reference => \A i \in DOMAIN block :
            block[i].command # "unknown" /\ (block[i].command = "option" => ~block[i].marked)
  /\ record.tool_calls = Len(ran) + Len(record.tool_rejections)
  /\ at = "done" =>
       /\ Len(used) = Corners
       /\ record.returned # None => Range(used) \subseteq {Reference}
=============================================================================
