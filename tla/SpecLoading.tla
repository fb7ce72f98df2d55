----------------------------- MODULE SpecLoading -----------------------------
(***************************************************************************)
(* What a specification may declare (spec.py), against what the run does   *)
(* with it: a deck for every testbench at every corner (pvt.py,            *)
(* compose.py), measurements merged by name, and corners that are written  *)
(* to the log and to the checkpoint and read back (corner_selection.py,    *)
(* checkpoint.py).                                                         *)
(*                                                                         *)
(* A declaration is a record whose absent keys are None; a scalar of the   *)
(* wrong type is refused everywhere and is left out.  The identity of a    *)
(* corner is a sequence: its label, or its three coordinates, so that a    *)
(* label may be spelled like coordinates; the empty sequence is none.      *)
(***************************************************************************)
EXTENDS Missing, SequencesExt

CONSTANTS
  TestbenchDecl,  \* [name, netlist, compose, criteria]; compose: [slot, file, tunable]
  PvtDecl,        \* [corners, axes, nominal]; corners: [id, include, axes]
  ReductionDecl,  \* [retry_budget, coverage]; coverage: [epsilon, tau], in percent
  MaxTestbenches

VARIABLES
  written_spec,  \* the file: its testbenches, pvt_corners and corner_reduction
  loaded         \* None before load_spec; then the TargetSpec, or why it was refused

specVars == <<written_spec, loaded>>

Loadings == {"loaded", "testbench", "names", "corners", "unrealisable", "reduction"}

-----------------------------------------------------------------------------
(* CornerPoint, and the ways it is written down and read back:             *)
(* corner_fields, _identity_of, _as_point.  NOMINAL is None.               *)
AxisPoint(p, v, t) ==
  [corner_id |-> <<p, v, t>>, process |-> p, voltage |-> v, temperature |-> t, payload |-> None]
LabelPoint(id, payload) ==
  [corner_id |-> id, process |-> None, voltage |-> None, temperature |-> None,
   payload |-> payload]
Coordinates(point) ==
  [process |-> point.process, voltage |-> point.voltage, temperature |-> point.temperature]
LabelOnly(point) ==   \* mutant: the label is written without the file behind it
  IF point = None THEN [corner_id |-> None]
  ELSE IF point.process # None THEN Coordinates(point)
  ELSE [corner_id |-> point.corner_id]
CornerFields(point) ==
  IF point = None THEN [corner_id |-> None]
  ELSE IF point.process # None THEN Coordinates(point)
  ELSE [corner_id |-> point.corner_id, payload |-> point.payload]
NoIdentity == <<>>
Holds(raw, key) == key \in DOMAIN raw /\ raw[key] # None
IdentityOf(raw) ==
  IF Holds(raw, "corner_id") THEN raw.corner_id
  ELSE IF Holds(raw, "voltage") /\ Holds(raw, "temperature")
       THEN <<raw.process, raw.voltage, raw.temperature>>
       ELSE NoIdentity
(* None stands for the ValueError.                                         *)
AsPoint(raw) ==
  IF IdentityOf(raw) = NoIdentity THEN None
  ELSE IF Holds(raw, "corner_id")
       THEN LabelPoint(raw.corner_id, IF "payload" \in DOMAIN raw THEN raw.payload ELSE None)
       ELSE AxisPoint(raw.process, raw.voltage, raw.temperature)

(* label and raw_label; the checkpoint's _corner_payload and back.         *)
Label(point) == IF point = None THEN <<"(deck)">> ELSE point.corner_id
RawLabel(raw) == IF IdentityOf(raw) = NoIdentity THEN <<"(deck)">> ELSE IdentityOf(raw)
CornerPayload(point) == IF point = None THEN None ELSE CornerFields(point)
CornerFromPayload(raw) == IF raw = None THEN None ELSE AsPoint(raw)

-----------------------------------------------------------------------------
(* _load_testbench and _load_fragments.                                    *)
ALLOWED_OPERATORS == {">=", ">", "<=", "<"}
Having(seq, P(_)) == {i \in DOMAIN seq : P(seq[i])}
BadCriteria(tb) ==
  \E i \in DOMAIN tb.criteria : tb.criteria[i].operator \notin ALLOWED_OPERATORS
BadFragments(refs) ==
  \/ refs = <<>>
  \/ \E i \in DOMAIN refs : refs[i].slot = (refs[i].file # None)
  \/ Cardinality(Having(refs, LAMBDA ref : ~ref.slot /\ ref.tunable)) # 1
  \/ Cardinality(Having(refs, LAMBDA ref : ref.slot)) > 1
BadTestbench(tb) ==
  \/ (tb.netlist = None) = (tb.compose = None)
  \/ BadCriteria(tb)
  \/ tb.compose # None /\ BadFragments(tb.compose)
Composed(tb) == tb.compose # None
Slotted(tb) == Composed(tb) /\ \E i \in DOMAIN tb.compose : tb.compose[i].slot

(* _reject_name_collisions: what the sweep and the judge key by name.      *)
NamesCollide(tbs) ==
  LET at == UNION {{i} \X DOMAIN tbs[i].criteria : i \in DOMAIN tbs}
      criterion(p) == tbs[p[1]].criteria[p[2]]
  IN  \E p, q \in at :
        /\ p # q
        /\ \/ criterion(p).name = criterion(q).name
           \/ /\ criterion(p).measurement = criterion(q).measurement
              /\ tbs[p[1]].name # tbs[q[1]].name

(* _load_pvt_corners, _explicit_corners, _label_corner.                    *)
Given3(axes) == {k \in 1 .. 3 : axes[k] # None}
BadEntry(entry) ==
  IF entry.id # None THEN Given3(entry.axes) # {} \/ entry.include = None
  ELSE Given3(entry.axes) # 1 .. 3
EntryPoint(entry) ==
  IF entry.id # None THEN LabelPoint(entry.id, entry.include)
  ELSE AxisPoint(entry.axes[1], entry.axes[2], entry.axes[3])
Ids(points) == {points[i].corner_id : i \in DOMAIN points}
BadCorners(entries, nominal) ==
  \/ entries = <<>>
  \/ \E i \in DOMAIN entries : BadEntry(entries[i])
  \/ LET points == [i \in DOMAIN entries |-> EntryPoint(entries[i])]
     IN  \/ Cardinality(Ids(points)) # Len(points)
         \/ nominal # None /\ nominal \notin Ids(points)
BadAxis(axis) == axis \in {None, <<>>}
BadPvt(pvt) ==
  IF pvt.corners # None THEN Given3(pvt.axes) # {} \/ BadCorners(pvt.corners, pvt.nominal)
  ELSE pvt.nominal # None \/ \E k \in 1 .. 3 : BadAxis(pvt.axes[k])
(* PVTCorners.__post_init__: the axes are multiplied out, the last one     *)
(* turning fastest.                                                        *)
Grid(axes) ==
  LET inner == Len(axes[2]) * Len(axes[3])
  IN  [n \in 1 .. Len(axes[1]) * inner |->
         AxisPoint(axes[1][1 + ((n - 1) \div inner)],
                   axes[2][1 + (((n - 1) % inner) \div Len(axes[3]))],
                   axes[3][1 + (((n - 1) % inner) % Len(axes[3]))])]
CornersOf(pvt) ==
  IF pvt.corners # None THEN [i \in DOMAIN pvt.corners |-> EntryPoint(pvt.corners[i])]
  ELSE Grid(pvt.axes)

(* A declaration's lists are sequences, an axis is of names or of numbers, *)
(* a label is not empty; and None is no verdict, no corner, nor one as written.   *)
IsSequence(s) == Len(s) \in Nat /\ DOMAIN s = 1 .. Len(s)
Declared == UNION {Range(CornersOf(pvt)) : pvt \in {p \in PvtDecl : ~BadPvt(p)}}
ASSUME SpecLoadingAssumption ==
  /\ MaxTestbenches \in Nat
  /\ \A pvt \in PvtDecl :
       /\ pvt.corners # None =>
            /\ IsSequence(pvt.corners)
            /\ \A i \in DOMAIN pvt.corners : pvt.corners[i].id # <<>>
       /\ pvt.axes[1] \in Seq(STRING) \cup {None}
       /\ \A k \in {2, 3} : pvt.axes[k] \in Seq(Int) \cup {None}
  /\ None \notin STRING \cup Loadings \cup Declared \cup {CornerFields(p) : p \in Declared}

(* _reject_unrealisable_corners.                                           *)
AnyNominal(tbs, pvt) ==   \* mutant: a slot is taken without a nominal corner
  LET composed == Having(tbs, Composed)
      slotted == Having(tbs, Slotted)
  IN  \/ /\ pvt # None /\ composed # DOMAIN tbs
         /\ \E c \in Range(CornersOf(pvt)) : c.process = None
      \/ pvt # None /\ composed # slotted
      \/ /\ slotted # {}
         /\ pvt = None \/ \E c \in Range(CornersOf(pvt)) : c.payload = None
Unrealisable(tbs, pvt) ==
  LET composed == Having(tbs, Composed)
      slotted == Having(tbs, Slotted)
  IN  \/ /\ pvt # None /\ composed # DOMAIN tbs
         /\ \E c \in Range(CornersOf(pvt)) : c.process = None
      \/ pvt # None /\ composed # slotted
      \/ /\ slotted # {}
         /\ \/ pvt = None
            \/ \E c \in Range(CornersOf(pvt)) : c.payload = None
            \/ pvt.nominal = None

(* _load_corner_reduction.                                                 *)
BadReduction(r) ==
  \/ r.retry_budget < 0
  \/ r.coverage # None /\ (r.coverage.epsilon \notin 0 .. 100 \/ r.coverage.tau \notin 1 .. 100)

(* load_spec, in its order.                                                *)
LoadSpec(file) ==
  CASE \E i \in DOMAIN file.testbenches : BadTestbench(file.testbenches[i]) -> "testbench"
    [] NamesCollide(file.testbenches)                                       -> "names"
    [] file.pvt # None /\ BadPvt(file.pvt)                                  -> "corners"
    [] Unrealisable(file.testbenches, file.pvt)                             -> "unrealisable"
    [] file.reduction # None /\ BadReduction(file.reduction)                -> "reduction"
    [] OTHER                                                                -> "loaded"
(* nominal_corner.                                                         *)
NominalPoint(file) ==
  IF file.pvt = None \/ file.pvt.nominal = None THEN None
  ELSE CHOOSE c \in Range(CornersOf(file.pvt)) : c.corner_id = file.pvt.nominal

-----------------------------------------------------------------------------
(* deck_for_corner and deck_for: what a testbench is run on at a point,    *)
(* NOMINAL being None; NoDeck when it cannot be built.                     *)
NoDeck == <<>>
Composition(tb, point) ==
  IF ~Slotted(tb) THEN <<"fragments">>
  ELSE IF point = None THEN NoDeck
  ELSE IF point.payload = None THEN NoDeck ELSE <<"slot", point.payload>>
DeckFor(tb, point, nominal) ==
  IF Composed(tb) THEN Composition(tb, IF point = None THEN nominal ELSE point)
  ELSE IF point = None THEN <<"deck">>
  ELSE IF point.process = None THEN NoDeck
  ELSE <<"rewritten", point.process, point.voltage, point.temperature>>

(* refuse_composed_testbenches: the tuning loop hands out paths.           *)
RefusedByTheLoop(file) == Having(file.testbenches, Composed) # {}

-----------------------------------------------------------------------------
SpecInit ==
  /\ written_spec = [testbenches |-> <<>>, pvt |-> None, reduction |-> None]
  /\ loaded = None

DeclareTestbench ==
  /\ loaded = None /\ written_spec.pvt = None /\ written_spec.reduction = None
  /\ Len(written_spec.testbenches) < MaxTestbenches
  /\ \E tb \in TestbenchDecl :
       written_spec' = [written_spec EXCEPT !.testbenches = Append(@, tb)]
  /\ UNCHANGED loaded
DeclareCorners ==
  /\ loaded = None /\ written_spec.pvt = None /\ written_spec.reduction = None
  /\ \E pvt \in PvtDecl : written_spec' = [written_spec EXCEPT !.pvt = pvt]
  /\ UNCHANGED loaded
DeclareReduction ==
  /\ loaded = None /\ written_spec.reduction = None
  /\ \E r \in ReductionDecl : written_spec' = [written_spec EXCEPT !.reduction = r]
  /\ UNCHANGED loaded
LoadFile ==
  /\ loaded = None /\ written_spec.testbenches # <<>>
  /\ loaded' = LoadSpec(written_spec)
  /\ UNCHANGED written_spec

SpecNext == DeclareTestbench \/ DeclareCorners \/ DeclareReduction \/ LoadFile
LoadingSpec == SpecInit /\ [][SpecNext]_specVars

-----------------------------------------------------------------------------
SpecTypeOK ==
  /\ Len(written_spec.testbenches) <= MaxTestbenches
  /\ loaded \in Loadings \cup {None}

(* The testbenches and the axis values that the file spells twice; nothing *)
(* refuses either.                                                         *)
Repeats(seq) == Cardinality(Range(seq)) # Len(seq)
NamedTwice(tbs) == Repeats([i \in DOMAIN tbs |-> tbs[i].name])
AxisRepeats(pvt) == pvt.corners = None /\ \E k \in 1 .. 3 : Repeats(pvt.axes[k])

(* What of a corner its deck must show.                                    *)
Conditions(point) == [at |-> Coordinates(point), payload |-> point.payload]

LoadedPoints ==
  IF written_spec.pvt = None THEN <<>> ELSE CornersOf(written_spec.pvt)
(* Every testbench has a deck at the nominal point and at every corner,    *)
(* the same after the corner was written down and read back, and not the   *)
(* deck of a corner with other conditions.                                 *)
EveryDeckIsItsCorners ==
  LET deck(i, p) == DeckFor(written_spec.testbenches[i], p, NominalPoint(written_spec))
  IN  \A i \in DOMAIN written_spec.testbenches :
        /\ deck(i, None) # NoDeck
        /\ \A p \in Range(LoadedPoints) :
             /\ deck(i, p) # NoDeck
             /\ deck(i, p) = deck(i, AsPoint(CornerFields(p)))
             /\ \A q \in Range(LoadedPoints) :
                  deck(i, p) = deck(i, q) => Conditions(p) = Conditions(q)
(* A corner is read back as the corner, and goes by the same label.        *)
CornersComeBack ==
  \A p \in Range(LoadedPoints) \cup {None} :
    CornerFromPayload(CornerPayload(p)) = p /\ RawLabel(CornerFields(p)) = Label(p)
(* As many labels as corners, and one for the deck.                        *)
LabelsTellCornersApart ==
  LET pvt == written_spec.pvt
      labels == {Label(p) : p \in Range(LoadedPoints) \cup {None}}
  IN  pvt # None =>
        (Cardinality(labels) = Len(LoadedPoints) + 1
           <=> ~AxisRepeats(pvt) /\ <<"(deck)">> \notin Ids(LoadedPoints))
(* Measurements are merged by name, last one wins.                         *)
NothingIsHidden ==
  LET tbs == written_spec.testbenches
      rows == UNION {{<<i, tbs[i].criteria[k].measurement>> : k \in DOMAIN tbs[i].criteria} :
                       i \in DOMAIN tbs}
  IN  ~NamedTwice(tbs) => \A r, s \in rows : r[2] = s[2] => r = s

(* What is loaded can be run as it was declared.  Every testbench has a    *)
(* deck at every declared corner and at the nominal point, and it is that  *)
(* corner's, also after the corner was written to the log and read back; a *)
(* checkpoint gives back the corners it was given.  Corners go by          *)
(* different labels unless an axis lists a value twice or one is named     *)
(* like the deck itself; no testbench's measurement hides another's unless *)
(* two testbenches have one name; and a testbench the tuning loop accepts  *)
(* has a file to edit (spec.py:626-669, 760-851, pvt.py:226-304,           *)
(* compose.py:468-491, corner_selection.py:51-138, checkpoint.py:286-314). *)
LoadedIsRunnable ==
  loaded = "loaded" =>
    /\ EveryDeckIsItsCorners /\ CornersComeBack /\ LabelsTellCornersApart /\ NothingIsHidden
    /\ \/ RefusedByTheLoop(written_spec)
       \/ \A i \in DOMAIN written_spec.testbenches : written_spec.testbenches[i].netlist # None
=============================================================================
