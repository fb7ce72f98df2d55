------------------------ MODULE SimulationAgentProofs ------------------------
(***************************************************************************)
(* Whatever the simulation agent writes, for every specification, every    *)
(* set of blocks, every limit on turns, calls and repairs: what reaches    *)
(* the simulator measures what the specification measures.                 *)
(*                                                                         *)
(* Inductive invariant: every block that ran, and the one reported once it *)
(* is past the gate, has the verdict None; the record counts the calls.    *)
(***************************************************************************)
EXTENDS SimulationAgent, SequenceTheorems, TLAPS

Passed(block) == block \in Block /\ GateVerdict(block) = None

RecordInv ==
  /\ DOMAIN record = {"tool_calls", "tool_rejections", "returned", "returned_dropped"}
  /\ record.tool_calls \in Nat
  /\ record.tool_rejections \in Seq(Reasons)

RanInv ==
  /\ ran \in Seq(Block)
  /\ \A i \in DOMAIN ran : GateVerdict(ran[i]) = None
  /\ RecordInv
  /\ record.tool_calls = Len(ran) + Len(record.tool_rejections)

ReportedInv ==
  /\ at # "gate" /\ at # "corners" => reported = None \/ at = "done"
  /\ reported # None => reported \in Block
  /\ at = "corners" /\ reported # None => GateVerdict(reported) = None /\ record.returned = None

Given(block) == block = Reference \/ (GateVerdict(block) = None /\ record.returned = None)
UsedInv ==
  /\ at # "done" => used = <<>>
  /\ at = "done" => \E block \in Block : used = [i \in 1 .. Corners |-> block] /\ Given(block)

IInv == RanInv /\ ReportedInv /\ UsedInv

-----------------------------------------------------------------------------
(* A block without a reason against it measures what the reference does.   *)
LEMMA PassedMeasures ==
  ASSUME NEW block, GateVerdict(block) = None
  PROVE  /\ Measures(block) = Measures(Reference)
         /\ \A i \in DOMAIN block :
              block[i].command # "unknown" /\ (block[i].command = "option" => ~block[i].marked)
<1>1. None \notin Reasons
  BY SimulationAgentAssumption
<1>2. \A i \in DOMAIN block : block[i].command # "unknown"
  BY <1>1 DEF GateVerdict, Reasons
<1>3. \A i \in DOMAIN block : block[i].command = "option" => ~block[i].marked
  BY <1>1, <1>2 DEF GateVerdict, Reasons
<1>4. Differ(Kept(block), Kept(Reference)) = {}
  BY <1>1, <1>2, <1>3 DEF GateVerdict, Reasons
<1>5. /\ DOMAIN Kept(block) = DOMAIN Kept(Reference)
      /\ \A i \in DOMAIN Kept(block) : Kept(block)[i].key = Kept(Reference)[i].key
  BY <1>4 DEF Differ
<1>6. Measures(block) = Measures(Reference)
  BY <1>5 DEF Measures
<1> QED
  BY <1>2, <1>3, <1>6

LEMMA VerdictIsAReason == \A block : GateVerdict(block) \in Reasons \cup {None}
  BY DEF GateVerdict, Reasons

LEMMA InitInv == AgentInit => IInv
<1> SUFFICES ASSUME AgentInit PROVE IInv
  OBVIOUS
<1>1. <<>> \in Seq(Block) /\ <<>> \in Seq(Reasons)
  OBVIOUS
<1>2. RanInv
  BY <1>1 DEF AgentInit, RanInv, NewGateRecord, RecordInv
<1>3. ReportedInv /\ UsedInv
  BY DEF AgentInit, ReportedInv, UsedInv
<1> QED
  BY <1>2, <1>3 DEF IInv

(* The steps that neither run a block nor touch the record.                *)
LEMMA TalkingStep ==
  ASSUME IInv,
         Post \/ Fails \/ LoopExceeded \/ CallUnusable \/ Mismatches \/ Repaired
           \/ UNCHANGED agentVars
  PROVE  IInv'
<1>1. /\ UNCHANGED <<ran, record, reported, used>>
      /\ at' # at => at \notin {"gate", "corners", "done"} /\ at' \notin {"gate", "corners", "done"}
  BY DEF Post, Fails, LoopExceeded, CallUnusable, Served, Mismatches, Repaired, agentVars
<1> QED
  BY <1>1 DEF IInv, RanInv, RecordInv, ReportedInv, UsedInv, Given

LEMMA RejectedStep ==
  ASSUME IInv, CallRejected
  PROVE  IInv'
<1>1. PICK block \in Block :
        /\ GateVerdict(block) # None
        /\ record' = [record EXCEPT !.tool_calls = @ + 1,
                                    !.tool_rejections = Append(@, GateVerdict(block))]
  BY DEF CallRejected
<1>2. /\ UNCHANGED <<ran, reported, used>> /\ at = "calls" /\ at' \in {"post", "calls"}
  BY DEF CallRejected, Served
<1>3. GateVerdict(block) \in Reasons
  BY <1>1, VerdictIsAReason
<1>4. /\ RecordInv'
      /\ record'.tool_calls = record.tool_calls + 1
      /\ record'.tool_rejections = Append(record.tool_rejections, GateVerdict(block))
      /\ record'.returned = record.returned
  <2>1. Append(record.tool_rejections, GateVerdict(block)) \in Seq(Reasons)
    BY <1>3, AppendProperties DEF IInv, RanInv, RecordInv
  <2> QED
    BY <1>1, <2>1 DEF IInv, RanInv, RecordInv
<1>5. Len(record'.tool_rejections) = Len(record.tool_rejections) + 1
  BY <1>3, <1>4, AppendProperties DEF IInv, RanInv, RecordInv
<1>6. RanInv'
  <2>1. Len(ran) \in Nat /\ Len(record.tool_rejections) \in Nat
    BY LenProperties DEF IInv, RanInv, RecordInv
  <2> QED
    BY <1>2, <1>4, <1>5, <2>1 DEF IInv, RanInv
<1> QED
  BY <1>2, <1>4, <1>6 DEF IInv, ReportedInv, UsedInv, Given

LEMMA SimulatesStep ==
  ASSUME IInv, CallSimulates
  PROVE  IInv'
<1>1. PICK block \in Block : GateVerdict(block) = None /\ ran' = Append(ran, block)
  BY DEF CallSimulates
<1>2. /\ UNCHANGED <<reported, used>> /\ at = "calls" /\ at' \in {"post", "calls"}
      /\ record' = [record EXCEPT !.tool_calls = @ + 1]
  BY DEF CallSimulates, Served
<1>3. /\ RecordInv'
      /\ record'.tool_calls = record.tool_calls + 1
      /\ record'.tool_rejections = record.tool_rejections
      /\ record'.returned = record.returned
  BY <1>2 DEF IInv, RanInv, RecordInv
<1>4. /\ ran' \in Seq(Block) /\ Len(ran') = Len(ran) + 1
      /\ \A i \in DOMAIN ran' : GateVerdict(ran'[i]) = None
  BY <1>1, AppendProperties DEF IInv, RanInv
<1>5. Len(ran) \in Nat /\ Len(record.tool_rejections) \in Nat
  BY LenProperties DEF IInv, RanInv, RecordInv
<1>6. RanInv'
  <2>1. Len(record'.tool_rejections) = Len(record.tool_rejections)
    BY <1>3
  <2> QED
    <3>1. record.tool_calls = Len(ran) + Len(record.tool_rejections)
      BY DEF IInv, RanInv
    <3> DEFINE m == Len(ran)
               n == Len(record.tool_rejections)
    <3> HIDE DEF m, n
    <3>2. record'.tool_calls = (m + 1) + n
      <4>1. m \in Nat /\ n \in Nat /\ record.tool_calls = m + n
        BY <1>5, <3>1 DEF m, n
      <4>2. record'.tool_calls = record.tool_calls + 1
        BY <1>3
      <4> QED
        BY <4>1, <4>2
    <3>3. record'.tool_calls = Len(ran') + Len(record'.tool_rejections)
      BY <1>4, <2>1, <3>2 DEF m, n
    <3> QED
      BY <1>3, <1>4, <3>3 DEF RanInv
<1> QED
  BY <1>2, <1>3, <1>6 DEF IInv, ReportedInv, UsedInv, Given

LEMMA AnswerStep ==
  ASSUME IInv, Answers
  PROVE  IInv'
  BY DEF IInv, RanInv, RecordInv, ReportedInv, UsedInv, Given, Answers

LEMMA CheckStep ==
  ASSUME IInv, CheckReported
  PROVE  IInv'
<1>1. /\ UNCHANGED <<ran, used>> /\ at = "gate" /\ at' = "corners"
      /\ reported \in Block \cup {None}
  BY DEF CheckReported, IInv, ReportedInv
<1>2. CASE reported = None
  BY <1>1, <1>2 DEF CheckReported, IInv, RanInv, RecordInv, ReportedInv, UsedInv
<1>3. CASE reported # None
  <2>1. /\ record' = [record EXCEPT !.returned = GateVerdict(reported),
                                    !.returned_dropped = GateVerdict(reported) # None]
        /\ reported' = IF GateVerdict(reported) = None THEN reported ELSE None
    BY <1>3 DEF CheckReported
  <2>2. /\ RecordInv'
        /\ record'.tool_calls = record.tool_calls
        /\ record'.tool_rejections = record.tool_rejections
        /\ record'.returned = GateVerdict(reported)
    BY <2>1, VerdictIsAReason DEF IInv, RanInv, RecordInv
  <2>3. RanInv'
    BY <1>1, <2>2 DEF IInv, RanInv
  <2> QED
    BY <1>1, <1>3, <2>1, <2>2, <2>3 DEF IInv, ReportedInv, UsedInv, Given
<1> QED
  BY <1>2, <1>3

LEMMA CornersStep ==
  ASSUME IInv, SimulateCorners
  PROVE  IInv'
<1> DEFINE block == IF reported \in {None, <<>>} THEN Reference ELSE reported
<1>1. UNCHANGED <<ran, record, reported>> /\ at = "corners" /\ at' = "done"
  BY DEF SimulateCorners
<1>2. used' = [i \in 1 .. Corners |-> block]
  BY DEF SimulateCorners
<1>3. block \in Block /\ Given(block)
  BY <1>1, SimulationAgentAssumption DEF IInv, ReportedInv, Given
<1> HIDE DEF block
<1>4. UsedInv'
  BY <1>1, <1>2, <1>3 DEF UsedInv, Given
<1> QED
  BY <1>1, <1>4 DEF IInv, RanInv, RecordInv, ReportedInv

-----------------------------------------------------------------------------
LEMMA Implied == IInv => SimulatesTheSpecification
<1> SUFFICES ASSUME IInv PROVE SimulatesTheSpecification
  OBVIOUS
<1>1. \A block \in Range(ran) \cup Range(used) : block = Reference \/ GateVerdict(block) = None
  <2>1. \A block \in Range(ran) : GateVerdict(block) = None
    BY DEF IInv, RanInv, Range
  <2>2. \A block \in Range(used) : block = Reference \/ GateVerdict(block) = None
    <3>1. CASE at = "done"
      BY <3>1 DEF IInv, UsedInv, Given, Range
    <3>2. CASE at # "done"
      BY <3>2 DEF IInv, UsedInv, Range
    <3> QED
      BY <3>1, <3>2
  <2> QED
    BY <2>1, <2>2
<1>2. \A block \in Range(ran) \cup Range(used) :
        /\ Measures(block) = Measures(Reference)
        /\ block # Reference => \A i \in DOMAIN block :
             block[i].command # "unknown" /\ (block[i].command = "option" => ~block[i].marked)
  BY <1>1, PassedMeasures
<1>3. ASSUME at = "done"
      PROVE  /\ Len(used) = Corners
             /\ record.returned # None => Range(used) \subseteq {Reference}
  <2>1. PICK block \in Block :
          /\ used = [i \in 1 .. Corners |-> block]
          /\ Given(block)
    BY <1>3 DEF IInv, UsedInv
  <2>2. used \in Seq(Block) /\ Len(used) = Corners
    BY <2>1, SimulationAgentAssumption
  <2> QED
    BY <2>1, <2>2 DEF Range, Given
<1> QED
  BY <1>2, <1>3 DEF IInv, RanInv, SimulatesTheSpecification

(* Whatever reaches the simulator, from the tool or at a corner, takes the *)
(* measurements of the specification, for every agent                      *)
(* (simulator_agent.py:63-102, 124-146).                                   *)
THEOREM TheSpecificationIsSimulated == AgentSpec => []SimulatesTheSpecification
<1>1. AgentInit => IInv
  BY InitInv
<1>2. IInv /\ [AgentNext]_agentVars => IInv'
  BY TalkingStep, RejectedStep, SimulatesStep, AnswerStep, CheckStep, CornersStep
     DEF AgentNext
<1> QED
  BY <1>1, <1>2, Implied, PTL DEF AgentSpec
=============================================================================
