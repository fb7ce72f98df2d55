----------------------------- MODULE ParamScope ------------------------------
(***************************************************************************)
(* What the parameters of a deck are worth, and which devices an instance  *)
(* parameter sizes (params.py).  There are two resolvers: one gives a      *)
(* definition one value per name, the other follows one instance; the area *)
(* gate uses both.                                                         *)
(*                                                                         *)
(* An expression is a product [factor, names]; a number has no names.  An  *)
(* environment maps the names that resolve to integers.                    *)
(***************************************************************************)
EXTENDS Missing, SequencesExt

CONSTANTS
  Skeletons,      \* the decks to start from, see Decks
  Raw,            \* the expressions a declaration may give
  Declarable,     \* the names it may give them to
  ModelClass,     \* classify_ctype, by model: "M", "C", "R", "Q", or None
  MaxTraceDepth,  \* _MAX_TRACE_DEPTH
  MaxDeclared

Number(value) == [factor |-> value, names |-> <<>>]
Raws == [factor : Int, names : Seq(STRING)]
IsNaming(f) == \A n \in DOMAIN f : f[n] \in Raws

(* A device is [refdes, letter, model, at, params]; `at` is the positional *)
(* value, None when it is a model, and `model` is None when it is a value. *)
ASSUME ParamScopeAssumption ==
  /\ Raw \subseteq Raws
  /\ \A deck \in Skeletons :
       /\ IsNaming(deck.global)
       /\ \A path \in DOMAIN deck.defs :
            IsNaming(deck.defs[path].defaults) /\ IsNaming(deck.defs[path].body)
  /\ MaxTraceDepth \in Nat /\ MaxDeclared \in Nat

VARIABLES
  deck,      \* global, top, and defs: the defaults, body and devices of each path
  declared   \* how many declarations were added

paramVars == <<deck, declared>>

-----------------------------------------------------------------------------
(* resolve_value, for products; free_names.                                *)
RECURSIVE Product(_, _)
Product(names, env) ==
  IF names = <<>> THEN 1 ELSE env[Head(names)] * Product(Tail(names), env)
ResolveValue(raw, env) ==
  IF Range(raw.names) \subseteq DOMAIN env THEN raw.factor * Product(raw.names, env) ELSE None
FreeNames(raw) == Range(raw.names)

(* _resolve_environment: a name that is declared here, or is known to be   *)
(* contested, hides the seed's, resolved or not.                           *)
SeedShows(raws, seed, shadowed) ==   \* mutant: a contested name falls back to the global
  Restrict(seed, DOMAIN seed \ DOMAIN raws)
Seeded(raws, seed, shadowed) == Restrict(seed, DOMAIN seed \ (DOMAIN raws \cup shadowed))
ResolveEnvironment(raws, seed, shadowed) ==
  LET pass(env, i) ==
        env @@ [n \in {m \in DOMAIN raws : ResolveValue(raws[m], env) # None} |->
                  ResolveValue(raws[n], env)]
  IN  FoldLeft(pass, Seeded(raws, seed, shadowed), [i \in 1 .. Cardinality(DOMAIN raws) |-> i])

Without(f, names) == Restrict(f, DOMAIN f \ names)
GlobalEnv(d) == ResolveEnvironment(d.global, <<>>, {})

(* _resolve_subckt_reference: the innermost scope first.                   *)
ResolveReference(d, scope, name) ==
  LET seen == {k \in 0 .. Len(scope) : Append(SubSeq(scope, 1, k), name) \in DOMAIN d.defs}
  IN  IF seen = {} THEN None ELSE Append(SubSeq(scope, 1, Max(seen)), name)

(* The devices, each with the scope it is written in.                      *)
DevicesIn(d, scope) == Range(IF scope = <<>> THEN d.top ELSE d.defs[scope].devices)
Scopes(d) == {<<>>} \cup DOMAIN d.defs
DefinitionOf(d, scope, device) ==
  IF device.letter = "X" THEN ResolveReference(d, scope, device.model) ELSE None
InstancesOf(d, path) ==
  UNION {{device \in DevicesIn(d, scope) :
            DefinitionOf(d, scope, device) = path} : scope \in Scopes(d)}

(* build_param_envs, with _instance_overrides: the instances' overrides    *)
(* over the defaults over the body; a name that instances override         *)
(* differently, or that body and defaults both declare, is not resolved.   *)
Overriding(d, path, name) ==
  {x.params[name] : x \in {y \in InstancesOf(d, path) : name \in DOMAIN y.params}}
DefinitionEnv(d, path) ==
  LET def == d.defs[path]
      names == UNION {DOMAIN x.params : x \in InstancesOf(d, path)}
      agreed == {n \in names : Cardinality(Overriding(d, path, n)) = 1}
      contested == ((DOMAIN def.body \cap DOMAIN def.defaults) \cup names) \ agreed
      raws == [n \in agreed |-> CHOOSE r \in Overriding(d, path, n) : TRUE]
                @@ def.defaults @@ def.body
  IN  ResolveEnvironment(Without(raws, contested), GlobalEnv(d), contested)
ScopeEnv(d, scope) == IF scope = <<>> THEN GlobalEnv(d) ELSE DefinitionEnv(d, scope)

(* _instance_env: one instance; its overrides are worth what the outside   *)
(* makes of them, and hide the default when they do not resolve there.     *)
InstanceEnv(d, path, overrides, outer) ==
  LET def == d.defs[path]
      given == {n \in DOMAIN overrides : ResolveValue(overrides[n], outer) # None}
      shadowed == ((DOMAIN def.body \cap DOMAIN def.defaults) \cup DOMAIN overrides) \ given
      raws == [n \in given |-> Number(ResolveValue(overrides[n], outer))]
                @@ def.defaults @@ def.body
  IN  ResolveEnvironment(Without(raws, shadowed), GlobalEnv(d), shadowed)

-----------------------------------------------------------------------------
(* tier_geometry_token, _multiplier and _tier_baseline.                    *)
GeometryToken(device) ==
  LET class == IF device.letter = "X" THEN ModelClass[device.model] ELSE device.letter
  IN  CASE device.letter = "X" /\ class \in {"M", "C"} -> "w"
        [] device.letter = "X" /\ class = "R"          -> "l"
        [] device.letter = "X" /\ class = "Q"          -> "m"
        [] device.letter = "M"                         -> "w"
        [] OTHER                                       -> None
Worth(device, token, env) ==
  IF token \notin DOMAIN device.params THEN None ELSE ResolveValue(device.params[token], env)
Multiplier(device, env) ==
  LET m == Worth(device, "m", env)
  IN  IF m = None THEN (IF "m" \in DOMAIN device.params THEN None ELSE 1)
      ELSE IF m <= 0 THEN 1 ELSE m
Multiplied(a, b) == IF a = None \/ b = None THEN None ELSE a * b
TotalWidth(device, env) ==
  LET token == GeometryToken(device)
  IN  IF token = None THEN None
      ELSE IF token = "m" THEN Worth(device, "m", env)
      ELSE Multiplied(Worth(device, token, env), Multiplier(device, env))

(* _positional_target: only a bare identifier is followed.                 *)
IsBare(raw) == raw # None /\ raw.factor = 1 /\ Len(raw.names) = 1
ReadsAt(device, param) == IsBare(device.at) /\ device.at.names = <<param>>

(* _trace: where a parameter of a definition arrives, None when it cannot  *)
(* be told: nowhere, too deep, or not told one level down.                 *)
RECURSIVE Trace(_, _, _, _, _, _)
Arrivals(d, path, env, param, depth, chain, device) ==
  LET taking == {t \in DOMAIN device.params : param \in FreeNames(device.params[t])}
      nested == DefinitionOf(d, path, device)
      leaf(t) == {[chain |-> chain, device |-> device, token |-> t,
                   width |-> TotalWidth(device, env)]}
      inside(t) == Trace(d, nested, InstanceEnv(d, nested, device.params, env), t,
                         depth + 1, Append(chain, device.refdes))
      here == IF device.letter # "X" /\ ReadsAt(device, param)
              THEN {[chain |-> chain, device |-> device, token |-> "value",
                     width |-> Multiplied(ResolveValue(device.at, env), Multiplier(device, env))]}
              ELSE {}
  IN  {here} \cup {IF nested = None THEN leaf(t) ELSE inside(t) : t \in taking}
Trace(d, path, env, param, depth, chain) ==
  LET found == UNION {Arrivals(d, path, env, param, depth, chain, device) :
                      device \in DevicesIn(d, path)}
  IN  IF depth >= MaxTraceDepth \/ None \in found \/ UNION found = {} THEN None
      ELSE UNION found

(* annotate_traced_params, of one instance in the scope it is written in.  *)
TracedParams(d, scope, device) ==
  LET path == DefinitionOf(d, scope, device)
      env == InstanceEnv(d, path, device.params, ScopeEnv(d, scope))
  IN  IF path = None THEN <<>>
      ELSE [p \in DOMAIN device.params |-> Trace(d, path, env, p, 0, <<>>)]

-----------------------------------------------------------------------------
ParamInit == deck \in Skeletons /\ declared = 0

Declares == declared < MaxDeclared /\ declared' = declared + 1

DeclareGlobal ==
  /\ Declares
  /\ \E n \in Declarable, r \in Raw :
       n \notin DOMAIN deck.global /\ deck' = [deck EXCEPT !.global = @ @@ (n :> r)]
DeclareDefault ==
  /\ Declares
  /\ \E path \in DOMAIN deck.defs, n \in Declarable, r \in Raw :
       /\ n \notin DOMAIN deck.defs[path].defaults
       /\ deck' = [deck EXCEPT !.defs[path].defaults = @ @@ (n :> r)]
DeclareInBody ==
  /\ Declares
  /\ \E path \in DOMAIN deck.defs, n \in Declarable, r \in Raw :
       /\ n \notin DOMAIN deck.defs[path].body
       /\ deck' = [deck EXCEPT !.defs[path].body = @ @@ (n :> r)]
Overrides(devices, k, n, r) ==
  /\ devices[k].letter = "X" /\ n \notin DOMAIN devices[k].params
Override ==
  /\ Declares
  /\ \E n \in Declarable, r \in Raw :
       \/ \E k \in DOMAIN deck.top :
            /\ Overrides(deck.top, k, n, r)
            /\ deck' = [deck EXCEPT !.top[k].params = @ @@ (n :> r)]
       \/ \E path \in DOMAIN deck.defs : \E k \in DOMAIN deck.defs[path].devices :
            /\ Overrides(deck.defs[path].devices, k, n, r)
            /\ deck' = [deck EXCEPT !.defs[path].devices[k].params = @ @@ (n :> r)]

ParamNext == DeclareGlobal \/ DeclareDefault \/ DeclareInBody \/ Override

-----------------------------------------------------------------------------
ParamTypeOK ==
  /\ declared \in 0 .. MaxDeclared
  /\ \A scope \in Scopes(deck) : \A n \in DOMAIN ScopeEnv(deck, scope) :
       ScopeEnv(deck, scope)[n] \in Int

(* What the simulator builds: every instance, expanded from the top, with  *)
(* its own environment.                                                    *)
TopPlace(d) == [chain |-> <<>>, path |-> <<>>, env |-> GlobalEnv(d)]
Expanded(d) ==
  LET into(place, x) ==
        [chain |-> Append(place.chain, x.refdes), path |-> DefinitionOf(d, place.path, x),
         env |-> InstanceEnv(d, DefinitionOf(d, place.path, x), x.params, place.env)]
      below(places, i) ==
        places \cup UNION {{into(place, x) : x \in {y \in DevicesIn(d, place.path) :
                              DefinitionOf(d, place.path, y) # None}} : place \in places}
  IN  FoldLeft(below, {TopPlace(d)}, [i \in 1 .. Cardinality(DOMAIN d.defs) |-> i])

(* What each device of the expanded deck is given: a token for each of its *)
(* parameters and for a bare positional value, and the value it has.       *)
Settings(d) ==
  UNION {UNION {
    {[chain |-> place.chain, device |-> x, token |-> t,
      leaf |-> DefinitionOf(d, place.path, x) = None,
      value |-> ResolveValue(IF t = "value" THEN x.at ELSE x.params[t], place.env)] :
        t \in DOMAIN x.params \cup IF IsBare(x.at) THEN {"value"} ELSE {}} :
    x \in DevicesIn(d, place.path)} : place \in Expanded(d)}
Doubled(d, k, p) == [d EXCEPT !.top[k].params[p].factor = 2 * @]
Spot(g) == [chain |-> g.chain, refdes |-> g.device.refdes, token |-> g.token]

(* The conditions under which a definition speaks for its instances: what  *)
(* one of them overrides they all do, and overrides only read globals that *)
(* neither side declares.                                                  *)
DeclaredIn(d, path) ==
  IF path = <<>> THEN {}
  ELSE DOMAIN d.defs[path].defaults \cup DOMAIN d.defs[path].body
         \cup UNION {DOMAIN x.params : x \in InstancesOf(d, path)}
SpeaksForAll(d) ==
  \A scope \in Scopes(d) : \A x \in DevicesIn(d, scope) :
    LET path == DefinitionOf(d, scope, x)
    IN  path # None =>
          /\ \A y \in InstancesOf(d, path) : DOMAIN y.params = DOMAIN x.params
          /\ \A p \in DOMAIN x.params :
               FreeNames(x.params[p]) \cap (DeclaredIn(d, scope) \cup DeclaredIn(d, path)) = {}
(* Devices read the parameters of their definition themselves.             *)
ReadsDirectly(d) ==
  \A path \in DOMAIN d.defs :
    \A n \in DeclaredIn(d, path) :
      /\ n \in DOMAIN d.defs[path].defaults => FreeNames(d.defs[path].defaults[n]) = {}
      /\ n \in DOMAIN d.defs[path].body => FreeNames(d.defs[path].body[n]) = {}

(* The size a trace gives a device is the size it has at the end of it.    *)
SizeOf(target, env) ==
  IF target.token = "value"
  THEN Multiplied(ResolveValue(target.device.at, env), Multiplier(target.device, env))
  ELSE TotalWidth(target.device, env)
WidthsAreTrue(d, place, x) ==
  LET traced == TracedParams(d, place.path, x)
  IN  \A p \in DOMAIN traced : traced[p] # None =>
        \A target \in traced[p] : target.width # None =>
          \E inner \in Expanded(d) :
            /\ inner.chain = place.chain \o <<x.refdes>> \o target.chain
            /\ target.width = SizeOf(target, inner.env)

(* A trace, when there is one, names exactly the devices inside the        *)
(* instance that change when the parameter does, or whose value is unknown;*)
(* there is none when nothing changes, when the parameter also enters a    *)
(* definition that does not use it, or goes too deep.                      *)
TraceIsExact(d, k, p) ==
  LET x == d.top[k]
      trace == TracedParams(d, <<>>, x)[p]
      before == {g \in Settings(d) : g.chain # <<>> /\ g.chain[1] = x.refdes}
      after == {<<Spot(g), g.value>> : g \in Settings(Doubled(d, k, p))}
      changed == {g \in before : g.value # None /\ <<Spot(g), g.value>> \notin after}
      arrived == {g \in changed : g.leaf}
      lost == {g \in changed \ arrived :
                 \/ Len(g.chain) >= MaxTraceDepth
                 \/ ~\E h \in arrived : IsPrefix(Append(g.chain, g.device.refdes), h.chain)}
      spots == {[chain |-> <<x.refdes>> \o t.chain, refdes |-> t.device.refdes,
                 token |-> t.token] : t \in trace}
  IN  IF trace = None THEN arrived = {} \/ lost # {}
      ELSE /\ {Spot(g) : g \in arrived} \subseteq spots
           /\ \A g \in before : Spot(g) \in spots => g \in arrived \/ g.value = None

(* A number the resolvers give is the number the circuit has.  Where a     *)
(* definition speaks for its instances its environment is right in every   *)
(* one of them, and so is the size of a device that is traced from inside  *)
(* it; from the top the sizes are right without that condition, and where  *)
(* devices read their parameters directly the traces are exact (params.py: *)
(* 107-269, 453-632).                                                      *)
NumbersAreTheCircuits ==
  /\ SpeaksForAll(deck) =>
       \A place \in Expanded(deck) :
         /\ \A n \in DOMAIN ScopeEnv(deck, place.path) :
              n \in DOMAIN place.env /\ place.env[n] = ScopeEnv(deck, place.path)[n]
         /\ \A x \in DevicesIn(deck, place.path) : WidthsAreTrue(deck, place, x)
  /\ \A k \in DOMAIN deck.top :
       /\ WidthsAreTrue(deck, TopPlace(deck), deck.top[k])
       /\ ReadsDirectly(deck) =>
            \A p \in DOMAIN deck.top[k].params :
              \/ DefinitionOf(deck, <<>>, deck.top[k]) = None
              \/ ResolveValue(deck.top[k].params[p], GlobalEnv(deck)) = None
              \/ TraceIsExact(deck, k, p)
=============================================================================
