------------------------------ MODULE AreaGate ------------------------------
(***************************************************************************)
(* The area gate (area_limits.py): a proposal of the tuner may not grow a  *)
(* device past what its size tier allows.                                  *)
(*                                                                         *)
(* A part is a component of the baseline; it may go by several spellings   *)
(* (`M1`, `AMP.M1`).  A parameter is the part's own, or, on an instance    *)
(* line, it is traced to parts inside the instance.  Sizes are integers,   *)
(* multipliers are tenths, and a value is counted in Grains of a unit, so  *)
(* that a fraction can be written where a count belongs.                   *)
(***************************************************************************)
EXTENDS Missing, SequencesExt

CONSTANTS
  Name,       \* the spellings a proposal may use
  PartOf,     \* baseline_components: the part of each spelling, or None
  Part,       \* the parts: a function on them, see Parts
  Param,      \* the parameters a proposal may name
  NewValue,   \* the values it may give them; None does not resolve
  Grain,
  MaxChanges  \* how many changes a proposal has at the most

(* A tier is the size it ends below, None for the last, and its multiplier.*)
Tiers == Seq([below : Int \cup {None}, allowed : Nat])
Tokens == {"geometry", "count", "neutral", "positional", "other"}
Targets == [device : DOMAIN Part, token : Tokens, size : Int \cup {None}, tiers : Tiers]

(* What a part's line declares: its size and multiplicity as resolved, m   *)
(* being absent, unresolved (None) or a number; `whole` when m is itself   *)
(* the size, for a pnp; `undefined` when it instantiates an unknown        *)
(* subcircuit; and of each parameter the token, baseline and trace.        *)
Parts ==
  [tiers : Tiers, size : Int \cup {None}, m : Int \cup {None}, declares_m : BOOLEAN,
   whole : BOOLEAN, undefined : BOOLEAN,
   param : [Param -> [token : Tokens, baseline : Int \cup {None}, traced : Seq(Targets)]]]

ASSUME AreaGateAssumption ==
  /\ PartOf \in [Name -> DOMAIN Part \cup {None}]
  /\ \A p \in DOMAIN Part : Part[p] \in Parts
  /\ NewValue \subseteq Int \cup {None}
  /\ Grain \in Nat \ {0} /\ MaxChanges \in Nat

VARIABLES
  proposal,   \* proposed_changes
  verdict     \* the AreaCheckResult, or None

areaVars == <<proposal, verdict>>

COUNT_ALLOWED_MULTIPLIER == 20

Tightest(allowed) == IF allowed \subseteq {None} THEN None ELSE Min(allowed \ {None})

(* allowed_multiplier_for: the first tier that the size is below.          *)
AllowedFor(tiers, size) ==
  LET fitting == {i \in DOMAIN tiers : tiers[i].below = None \/ size < tiers[i].below}
  IN  IF tiers = <<>> \/ size = None THEN None
      ELSE IF fitting = {} THEN tiers[Len(tiers)].allowed
      ELSE tiers[Min(fitting)].allowed

(* multiplicity_from: a count that is zero or negative is one device.      *)
Multiplicity(part) ==
  IF part.m = None THEN (IF part.declares_m THEN None ELSE 1)
  ELSE IF part.m <= 0 THEN 1 ELSE part.m

(* _tier_baseline_value: the total size, over all parallel devices.        *)
TierBaseline(part) ==
  IF part.size = None \/ (~part.whole /\ Multiplicity(part) = None) THEN None
  ELSE IF part.whole THEN part.size ELSE part.size * Multiplicity(part)

(* _direct_target: its key is the spelling.                                *)
DirectTarget(name, part, token) ==
  LET tier == AllowedFor(part.tiers, TierBaseline(part))
  IN  [key |-> <<name>>, device |-> PartOf[name],
       allowed |-> CASE token = "neutral" -> None
                     [] token = "count"   -> Tightest({tier, COUNT_ALLOWED_MULTIPLIER})
                     [] OTHER             -> tier,
       counts |-> token # "neutral", neutral |-> token = "neutral"]

(* _traced_targets: by the token that was reached, not by the name.        *)
TracedTarget(name, target) ==
  LET tier == AllowedFor(target.tiers, target.size)
      sized == target.token \in {"geometry", "positional"} /\ target.size # None
  IN  [key |-> <<name, target.device>>, device |-> target.device,
       allowed |-> CASE target.token = "count" -> COUNT_ALLOWED_MULTIPLIER
                     [] sized                  -> tier
                     [] OTHER                  -> None,
       counts |-> target.token = "count" \/ sized, neutral |-> target.token = "neutral"]

TargetsOf(name, param) ==
  LET part == Part[PartOf[name]]
      traced == part.param[param].traced
  IN  IF traced = <<>> THEN <<DirectTarget(name, part, part.param[param].token)>>
      ELSE [i \in DOMAIN traced |-> TracedTarget(name, traced[i])]

(* param_tokens: of what a traced parameter reaches, else its own.         *)
TokensOf(name, param) ==
  LET own == Part[PartOf[name]].param[param]
  IN  IF own.traced = <<>> THEN {own.token} ELSE {own.traced[i].token : i \in DOMAIN own.traced}

(* The ratio of a change, new over old, where both resolve.                *)
Ratio(change) ==
  LET old == Part[PartOf[change.refdes]].param[change.param].baseline
  IN  IF old = None \/ change.new_value = None THEN None
      ELSE IF old <= 0 THEN None ELSE <<change.new_value, old * Grain>>

(* _visibility: the weakest state of what the change reaches.              *)
Visibility(change) ==
  LET targets == Range(TargetsOf(change.refdes, change.param))
      counted == {t \in targets : ~t.neutral}
  IN  IF PartOf[change.refdes] = None THEN "unjudged"
      ELSE IF Part[PartOf[change.refdes]].undefined THEN "blind"
      ELSE IF counted = {} THEN "neutral"
      ELSE IF Ratio(change) # None /\ \A t \in counted : t.counts /\ t.allowed # None
           THEN "bounded" ELSE "unjudged"

(* _integrality_violation: a count must be whole.                          *)
BreaksIntegrality(change) ==
  /\ PartOf[change.refdes] # None
  /\ TokensOf(change.refdes, change.param) \cap {"count", "neutral"} # {}
  /\ change.new_value # None
  /\ change.new_value % Grain # 0

(* _last_write_wins: by the part and the parameter, not by the spelling.   *)
Identity(change) ==
  IF PartOf[change.refdes] = None THEN [name |-> change.refdes, param |-> change.param]
  ELSE [part |-> PartOf[change.refdes], param |-> change.param]
LastWrites(changes) ==
  {i \in DOMAIN changes :
     \A j \in DOMAIN changes : i < j => Identity(changes[i]) # Identity(changes[j])}

(* Ratios are fractions; one is multiplied to the next, in order.          *)
One == <<1, 1>>
Times(a, b) == <<a[1] * b[1], a[2] * b[2]>>
ProductOf(ratios) ==
  LET upto[n \in 0 .. Len(ratios)] ==
        IF n = 0 THEN One ELSE Times(upto[n - 1], ratios[n])
  IN  upto[Len(ratios)]

(* The changes whose targets are gathered into groups, by their position.  *)
JudgedWrites(changes) ==
  {i \in LastWrites(changes) : PartOf[changes[i].refdes] # None /\ ~BreaksIntegrality(changes[i])}
Reached(change) == TargetsOf(change.refdes, change.param)
Gathered(changes) == UNION {Range(Reached(changes[i])) : i \in JudgedWrites(changes)}
Counted(change, target, key) == target.key = key /\ target.counts /\ Ratio(change) # None

(* A group is what was reached under one key: the product of the ratios,   *)
(* one for every target, against the tightest multiplier.                  *)
LastRatio(changes, key) ==   \* mutant: each change is judged alone
  LET hits == {i \in JudgedWrites(changes) :
                 \E t \in Range(Reached(changes[i])) : Counted(changes[i], t, key)}
  IN  IF hits = {} THEN One ELSE Ratio(changes[Max(hits)])
GroupRatio(changes, key) ==
  ProductOf([i \in DOMAIN changes |->
    IF i \notin JudgedWrites(changes) THEN One
    ELSE ProductOf([j \in DOMAIN Reached(changes[i]) |->
           IF Counted(changes[i], Reached(changes[i])[j], key) THEN Ratio(changes[i]) ELSE One])])
GroupAllowed(changes, key) ==
  Tightest({t.allowed : t \in {u \in Gathered(changes) : u.key = key}})
Outgrows(ratio, allowed) ==
  allowed # None /\ ratio[1] > ratio[2] /\ 10 * ratio[1] > allowed * ratio[2]

(* evaluate_area_growth.                                                   *)
Evaluate(changes) ==
  LET kept == LastWrites(changes)
  IN  [approved |->
         /\ \A i \in kept : ~BreaksIntegrality(changes[i])
         /\ \A t \in Gathered(changes) :
              ~Outgrows(GroupRatio(changes, t.key), GroupAllowed(changes, t.key)),
       states |->
         [s \in {<<changes[i].refdes, changes[i].param>> : i \in kept} |->
            Visibility(changes[CHOOSE i \in kept : <<changes[i].refdes, changes[i].param>> = s])]]

-----------------------------------------------------------------------------
AreaInit ==
  /\ proposal = <<>>
  /\ verdict = None

(* The tuner writes its proposal change by change.                         *)
Propose ==
  /\ verdict = None
  /\ Len(proposal) < MaxChanges
  /\ \E name \in Name, param \in Param, value \in NewValue :
       proposal' = Append(proposal, [refdes |-> name, param |-> param, new_value |-> value])
  /\ UNCHANGED verdict

CheckAreaGrowth ==
  /\ verdict = None
  /\ proposal # <<>>
  /\ verdict' = Evaluate(proposal)
  /\ UNCHANGED proposal

AreaNext == Propose \/ CheckAreaGrowth
AreaSpec == AreaInit /\ [][AreaNext]_areaVars

-----------------------------------------------------------------------------
AreaTypeOK ==
  /\ proposal \in Seq([refdes : Name, param : Param, new_value : NewValue])
  /\ verdict # None =>
       \A s \in DOMAIN verdict.states :
         verdict.states[s] \in {"bounded", "neutral", "blind", "unjudged"}

(* What the deck becomes: apply_changes writes the changes in order, each  *)
(* on the line of its part, so that the last write of a parameter stays.   *)
(* A write is known by its position in the proposal.                       *)
Stays(id) == Max({i \in DOMAIN proposal : Identity(proposal[i]) = id})
Written ==
  {Stays(Identity(proposal[i])) : i \in {j \in DOMAIN proposal : PartOf[proposal[j].refdes] # None}}
Grows(target, device) == target.device = device /\ ~target.neutral
TouchesOf(device) ==
  {i \in Written : \E t \in Range(Reached(proposal[i])) : Grows(t, device)}
TargetsAt(device) ==
  UNION {{t \in Range(Reached(proposal[i])) : t.device = device} : i \in TouchesOf(device)}
OneWay(device) == \A t, u \in TargetsAt(device) : t.counts /\ u.counts => t.key = u.key

(* How far a device has grown over all that was written, once for every    *)
(* size of it that is reached, the limit on it, and whether the gate says  *)
(* that it saw all of it.                                                  *)
Growth(device) ==
  ProductOf([i \in DOMAIN proposal |->
    IF i \notin Written THEN One
    ELSE ProductOf([j \in DOMAIN Reached(proposal[i]) |->
           IF Grows(Reached(proposal[i])[j], device) THEN Ratio(proposal[i]) ELSE One])])
Limit(device) == Tightest({t.allowed : t \in TargetsAt(device)})
Seen(device) ==
  \A i \in TouchesOf(device) :
    verdict.states[<<proposal[i].refdes, proposal[i].param>>] = "bounded"

(* An approved proposal leaves no device grown past the tightest of its    *)
(* limits, however the growth is spread over changes and written over one  *)
(* another: of the devices of which the gate reports that it judged every  *)
(* change, and that are reached in one way, by one spelling or by one      *)
(* instance parameter's trace (area_limits.py:555-566).                    *)
ApprovedGrowthIsBoundedByKey ==
  verdict # None /\ verdict.approved =>
    \A d \in DOMAIN Part :
      Seen(d) /\ OneWay(d) => ~Outgrows(Growth(d), Limit(d))
=============================================================================
