------------------------------- MODULE MCParts -------------------------------
(***************************************************************************)
(* Eight machines that do not share a variable, explored one at a time:    *)
(* the initial state chooses which of them runs, the others keep one       *)
(* initial state each.  They are the optimizer, one sweep, the area gate,  *)
(* one call of the simulation agent, one curation, and the three about     *)
(* text: the edits of a netlist, its parameters, and a specification.      *)
(***************************************************************************)
EXTENDS MCOptimizer, CornerSweep, AreaGate, SimulationAgent, Curation, MCDesign

VARIABLE machine

partsVars ==
  <<machine, vars, sweepVars, areaVars, agentVars, curationVars, netlistVars, paramVars, specVars>>

Idles(name, chosen) == machine = name \/ chosen

PartsInit ==
  /\ machine \in {"optimizer", "sweep", "area_gate", "simulation_agent", "curation",
                  "netlist", "params", "spec"}
  /\ Init /\ Idles("optimizer", run = CHOOSE r \in Run : TRUE)
  /\ SweepInit
  /\ Idles("sweep", /\ plan = CHOOSE p \in Plan : TRUE
                    /\ enabled
                    /\ pool = Worker)
  /\ AreaInit
  /\ AgentInit /\ Idles("simulation_agent", backend = "claude_sdk")
  /\ CurationInit /\ Idles("curation", source = "deck" /\ slot)
  /\ NetlistInit /\ Idles("netlist", decks = Blank)
  /\ ParamInit /\ Idles("params", deck = Empty)
  /\ SpecInit

OptimizerMoves ==
  /\ machine = "optimizer" /\ Next
  /\ UNCHANGED <<machine, sweepVars, areaVars, agentVars, curationVars,
                 netlistVars, paramVars, specVars>>
SweepMoves ==
  /\ machine = "sweep" /\ SweepNext
  /\ UNCHANGED <<machine, vars, areaVars, agentVars, curationVars,
                 netlistVars, paramVars, specVars>>
AreaGateMoves ==
  /\ machine = "area_gate" /\ AreaNext
  /\ UNCHANGED <<machine, vars, sweepVars, agentVars, curationVars,
                 netlistVars, paramVars, specVars>>
AgentMoves ==
  /\ machine = "simulation_agent" /\ AgentNext
  /\ UNCHANGED <<machine, vars, sweepVars, areaVars, curationVars,
                 netlistVars, paramVars, specVars>>
CurationMoves ==
  /\ machine = "curation" /\ CurationNext
  /\ UNCHANGED <<machine, vars, sweepVars, areaVars, agentVars,
                 netlistVars, paramVars, specVars>>
EditMoves ==
  /\ machine = "netlist" /\ NetlistNext
  /\ UNCHANGED <<machine, vars, sweepVars, areaVars, agentVars,
                 curationVars, paramVars, specVars>>
ParamMoves ==
  /\ machine = "params" /\ ParamNext
  /\ UNCHANGED <<machine, vars, sweepVars, areaVars, agentVars,
                 curationVars, netlistVars, specVars>>
SpecMoves ==
  /\ machine = "spec" /\ SpecNext
  /\ UNCHANGED <<machine, vars, sweepVars, areaVars, agentVars,
                 curationVars, netlistVars, paramVars>>

PartsNext ==
  \/ OptimizerMoves \/ SweepMoves \/ AreaGateMoves \/ AgentMoves \/ CurationMoves
  \/ EditMoves \/ ParamMoves \/ SpecMoves

(* A machine that can move does, the threads of the sweep included.  The   *)
(* area gate and the three about text are functions: what they are called  *)
(* with may stay unfinished.                                               *)
PoolMoves ==
  /\ machine = "sweep" /\ (Render \/ \E w \in Worker : Work(w))
  /\ UNCHANGED <<machine, vars, areaVars, agentVars, curationVars,
                 netlistVars, paramVars, specVars>>
Progress == OptimizerMoves \/ PoolMoves \/ AgentMoves \/ CurationMoves
PartsSpec == PartsInit /\ [][PartsNext]_partsVars /\ WF_partsVars(Progress)

(* Every variable of every machine stays in its type.                      *)
PartsTypeOK ==
  /\ TypeOK /\ SweepTypeOK /\ AreaTypeOK /\ AgentTypeOK /\ CurationTypeOK
  /\ NetlistTypeOK /\ ParamTypeOK /\ SpecTypeOK

(* Those that can stop do: the searches run out of steps or of knobs, the  *)
(* pool is joined and no thread keeps the lock, the tool loop and the      *)
(* authoring run out of turns (optimizer.py:974-992, parallel.py:21-80,    *)
(* cache.py:268-317, openai_compatible.py:71-135, curation.py:681-816).    *)
PartsTerminate ==
  <>CASE machine = "optimizer"        -> pc = "done"
      [] machine = "sweep"            -> sweeping = "raised" \/ Joined \/ Stopped
      [] machine = "simulation_agent" -> at \in {"done", "failed"}
      [] machine = "curation"         -> curating = "over"
      [] OTHER                        -> TRUE

-----------------------------------------------------------------------------
(* The sweep: two testbenches at two corners.  The two testbenches render  *)
(* to the same text at the first corner; a gain has a bound on both sides. *)
SweepCriteria ==
  [ac |-> <<Criterion("low", "g", ">=", 2), Criterion("high", "g", "<", 4)>>,
   dc |-> <<Criterion("off", "v", "<=", 0)>>]
Texts == [p \in {"ac", "dc"} \X (1 .. 2) |-> IF p = <<"ac", 2>> THEN "t2" ELSE "t1"]
Showings == [ac |-> {[g |-> 1], [g |-> 3]}, dc |-> {[v |-> 0]}]
Sweeps == {[order |-> <<"ac">>, touches |-> 1], [order |-> <<"ac", "dc">>, touches |-> 0]}

(* The area gate: a transistor that goes by two names, an instance whose   *)
(* parameters reach two parts inside it, one of an unknown subcircuit, and *)
(* a pnp.                                                                  *)
SizeTiers ==
  <<[below |-> 30, allowed |-> 30], [below |-> 80, allowed |-> 20], [below |-> None, allowed |-> 15]>>
Own(token, baseline) == [token |-> token, baseline |-> baseline, traced |-> <<>>]
Traces(baseline, targets) == [token |-> "other", baseline |-> baseline, traced |-> targets]
Reaches(device, token, size) ==
  [device |-> device, token |-> token, size |-> size, tiers |-> SizeTiers]
PartWith(tiers, size, m, whole, undefined, w, ms) ==
  [tiers |-> tiers, size |-> size, m |-> m, declares_m |-> m # None \/ undefined,
   whole |-> whole, undefined |-> undefined, param |-> [w |-> w, m |-> ms]]
PartsOfDeck ==
  [mos |-> PartWith(SizeTiers, 10, 1, FALSE, FALSE, Own("geometry", 10), Own("count", 1)),
   inst |-> PartWith(<<>>, None, None, FALSE, FALSE,
                     Traces(10, <<Reaches("in1", "geometry", 90), Reaches("in2", "geometry", 20)>>),
                     Traces(4, <<Reaches("in1", "count", None), Reaches("in1", "geometry", 90),
                                 Reaches("in2", "neutral", None)>>)),
   ext |-> PartWith(<<>>, None, None, FALSE, TRUE, Own("geometry", 10), Own("neutral", None)),
   in1 |-> PartWith(SizeTiers, 90, None, FALSE, FALSE, Own("geometry", 90), Own("neutral", None)),
   in2 |-> PartWith(SizeTiers, 20, None, TRUE, FALSE, Own("geometry", 20), Own("count", 20))]
Spellings ==
  [M1 |-> "mos", AMP_M1 |-> "mos", X1 |-> "inst", X2 |-> "ext", AMP_Q1 |-> "in2", M9 |-> None]

(* The agent: the reference, the same with an option, and blocks that the  *)
(* gate refuses for each of its reasons.                                   *)
Says(command, key) == [command |-> command, key |-> key, marked |-> FALSE]
ReferenceBlock == <<Says("analysis", "ac"), Says("measurement", "gain")>>
Option == Says("option", "gmin")
AgentBlocks ==
  {ReferenceBlock, <<Option>> \o ReferenceBlock, <<[Option EXCEPT !.marked = TRUE]>> \o ReferenceBlock,
   <<Says("analysis", "ac"), Says("measurement", "bw")>>,
   <<Says("analysis", "dc"), Says("measurement", "gain")>>,
   ReferenceBlock \o <<Says("unknown", "x")>>, <<>>}

(* The curation: a gain to keep and a power to save.                       *)
CriteriaOfSlot == <<Criterion("gain", "g", ">=", 60), Criterion("power", "p", "<=", 100)>>
RowsOfSlot ==
  {[g |-> 60, p |-> 100], [g |-> 64, p |-> 100], [g |-> 80, p |-> 105], [g |-> 80, p |-> 120],
   [g |-> 80]}
=============================================================================
