---------------------------- MODULE DesignProofs ----------------------------
(***************************************************************************)
(* What the area gate, the loading of a specification and the edits of a   *)
(* netlist guarantee, for every deck, every proposal and every declaration.*)
(*                                                                         *)
(* The first two are functions that are called once: the invariant is that *)
(* what was decided is what the function says of what was written.  For    *)
(* the netlist it is that every deck stays a text whose definitions are    *)
(* closed and have a path of their own; the proof follows the lines.       *)
(***************************************************************************)
EXTENDS AreaGate, SpecLoading, NetlistEdit, FiniteSetTheorems, SequenceTheorems,
        WellFoundedInduction, TLAPS

(***************************************************************************)
(* Numbers.                                                                *)
(***************************************************************************)
LEMMA LeastNatural ==
  ASSUME NEW S \in SUBSET Nat, S # {}
  PROVE  \E m \in S : \A x \in S : m <= x
<1>1. PICK m \in S : \A x \in S : ~ (<<x, m>> \in OpToRel(<, Nat))
  BY WFMin, NatLessThanWellFounded
<1>2. ASSUME NEW x \in S PROVE m <= x
  <2>1. x \in Nat /\ m \in Nat
    OBVIOUS
  <2>2. ~ (x < m)
    BY <1>1, <2>1 DEF OpToRel
  <2> QED
    BY <2>1, <2>2
<1> QED
  BY <1>2

LEMMA Counting ==
  ASSUME NEW T, 0 \in T, \A n \in Nat : n \in T => n + 1 \in T
  PROVE  \A n \in Nat : n \in T
<1> SUFFICES ASSUME Nat \ T # {} PROVE FALSE
  OBVIOUS
<1>1. PICK n \in Nat \ T : \A m \in Nat \ T : n <= m
  <2>1. Nat \ T \in SUBSET Nat
    OBVIOUS
  <2> QED
    BY <2>1, LeastNatural
<1>2. n # 0 /\ n - 1 \in Nat /\ ~ (n <= n - 1)
  OBVIOUS
<1>3. n - 1 \in T
  BY <1>1, <1>2
<1> QED
  BY <1>2, <1>3

LEMMA GreatestOne ==
  ASSUME NEW n \in Nat, NEW T \in SUBSET (0 .. n), T # {}
  PROVE  \E m \in T : \A x \in T : m >= x
<1> DEFINE U == {n - x : x \in T}
<1>1. U \in SUBSET Nat /\ U # {}
  <2>1. \A x \in T : x \in Int /\ x <= n
    OBVIOUS
  <2>2. \A x \in T : n - x \in Nat
    BY <2>1
  <2> QED
    BY <2>2
<1>2. PICK u \in U : \A v \in U : u <= v
  BY <1>1, LeastNatural
<1>3. PICK m \in T : u = n - m
  OBVIOUS
<1>4. ASSUME NEW x \in T PROVE m >= x
  <2>1. n - x \in U /\ n - x \in Nat /\ u \in Nat
    BY <1>1
  <2>2. u <= n - x
    BY <1>2, <2>1
  <2> QED
    BY <1>3, <2>2
<1> QED
  BY <1>4

(***************************************************************************)
(* The area gate.                                                          *)
(***************************************************************************)
ChangesNamed == [refdes : Name, param : Param, new_value : NewValue]
AreaInv == AreaTypeOK /\ (verdict # None => verdict = Evaluate(proposal))

LEMMA VisibilityIsAState ==
  ASSUME NEW c
  PROVE  Visibility(c) \in {"bounded", "neutral", "blind", "unjudged"}
BY DEF Visibility

(* Every state of a verdict is one of the four.                            *)
LEMMA StatesAreStates ==
  ASSUME NEW changes, NEW s \in DOMAIN Evaluate(changes).states
  PROVE  Evaluate(changes).states[s] \in {"bounded", "neutral", "blind", "unjudged"}
<1> DEFINE of(i) == <<changes[i].refdes, changes[i].param>>
           c == changes[CHOOSE i \in LastWrites(changes) : of(i) = s]
<1>1. Evaluate(changes).states[s] = Visibility(c)
  BY DEF Evaluate
<1> HIDE DEF c
<1> QED
  BY <1>1, VisibilityIsAState

LEMMA AreaInductive == AreaSpec => []AreaInv
<1>1. AreaInit => AreaInv
  <2> SUFFICES ASSUME AreaInit PROVE AreaInv
    OBVIOUS
  <2>1. <<>> \in Seq(ChangesNamed)
    OBVIOUS
  <2> QED
    BY <2>1 DEF AreaInit, AreaInv, AreaTypeOK, ChangesNamed
<1>2. ASSUME AreaInv, Propose PROVE AreaInv'
  <2>1. PICK name \in Name, param \in Param, value \in NewValue :
          proposal' = Append(proposal, [refdes |-> name, param |-> param, new_value |-> value])
    BY <1>2 DEF Propose
  <2>2. proposal' \in Seq(ChangesNamed)
    <3>1. [refdes |-> name, param |-> param, new_value |-> value] \in ChangesNamed
      BY DEF ChangesNamed
    <3>2. proposal \in Seq(ChangesNamed)
      BY <1>2 DEF AreaInv, AreaTypeOK, ChangesNamed
    <3> QED
      BY <2>1, <3>1, <3>2
  <2>3. verdict' = None
    BY <1>2 DEF Propose
  <2> QED
    BY <2>2, <2>3 DEF AreaInv, AreaTypeOK, ChangesNamed
<1>3. ASSUME AreaInv, CheckAreaGrowth PROVE AreaInv'
  <2>1. verdict' = Evaluate(proposal) /\ proposal' = proposal
    BY <1>3 DEF CheckAreaGrowth
  <2>2. \A s \in DOMAIN verdict'.states :
          verdict'.states[s] \in {"bounded", "neutral", "blind", "unjudged"}
    BY <2>1, StatesAreStates
  <2> QED
    BY <1>3, <2>1, <2>2 DEF AreaInv, AreaTypeOK
<1>4. ASSUME AreaInv, UNCHANGED areaVars PROVE AreaInv'
  BY <1>4 DEF AreaInv, AreaTypeOK, areaVars
<1>5. AreaInv /\ [AreaNext]_areaVars => AreaInv'
  BY <1>2, <1>3, <1>4 DEF AreaNext
<1> QED
  BY <1>1, <1>5, PTL DEF AreaSpec

LEMMA LastOne ==
  ASSUME NEW n \in Nat, NEW T \in SUBSET (1 .. n), T # {}
  PROVE  \E m \in T : \A x \in T : m >= x
<1>1. T \in SUBSET (0 .. n)
  OBVIOUS
<1> QED
  BY <1>1, GreatestOne

(* What a proposal leaves written is what the gate keeps of it.            *)
LEMMA WrittenIsKept ==
  ASSUME proposal \in Seq(ChangesNamed)
  PROVE  Written = {i \in LastWrites(proposal) : PartOf[proposal[i].refdes] # None}
<1> DEFINE same(i) == {j \in DOMAIN proposal : Identity(proposal[j]) = Identity(proposal[i])}
<1>1. DOMAIN proposal = 1 .. Len(proposal) /\ Len(proposal) \in Nat
  OBVIOUS
<1>2. ASSUME NEW i \in DOMAIN proposal
      PROVE  /\ Stays(Identity(proposal[i])) \in same(i)
             /\ \A j \in same(i) : Stays(Identity(proposal[i])) >= j
  <2>1. same(i) \in SUBSET (1 .. Len(proposal)) /\ same(i) # {}
    BY <1>1
  <2>2. Stays(Identity(proposal[i])) = CHOOSE m \in same(i) : \A x \in same(i) : m >= x
    BY DEF Stays, Max
  <2>3. \E m \in same(i) : \A x \in same(i) : m >= x
    BY <1>1, <2>1, LastOne
  <2> QED
    BY <2>2, <2>3
<1>3. ASSUME NEW i \in DOMAIN proposal
      PROVE  i = Stays(Identity(proposal[i])) <=> i \in LastWrites(proposal)
  <2> DEFINE m == Stays(Identity(proposal[i]))
  <2>1. m \in DOMAIN proposal /\ Identity(proposal[m]) = Identity(proposal[i])
        /\ \A j \in same(i) : m >= j
    BY <1>2
  <2> HIDE DEF m
  <2>2. i \in LastWrites(proposal) <=> \A j \in same(i) : ~ (i < j)
    BY DEF LastWrites
  <2>3. m \in same(i) /\ i \in same(i) /\ m \in Int /\ i \in Int /\ same(i) \subseteq Int
    BY <1>1, <2>1
  <2> HIDE DEF same
  <2>4. i = m <=> \A j \in same(i) : ~ (i < j)
    BY <2>1, <2>3
  <2> QED
    BY <2>2, <2>4 DEF m
<1>4. ASSUME NEW k \in Written
      PROVE  k \in LastWrites(proposal) /\ PartOf[proposal[k].refdes] # None
  <2>1. PICK i \in DOMAIN proposal :
          PartOf[proposal[i].refdes] # None /\ k = Stays(Identity(proposal[i]))
    BY DEF Written
  <2>2. k \in DOMAIN proposal /\ Identity(proposal[k]) = Identity(proposal[i])
    BY <1>2, <2>1
  <2>3. k = Stays(Identity(proposal[k]))
    BY <2>1, <2>2
  <2>4. PartOf[proposal[k].refdes] # None
    <3> SUFFICES ASSUME PartOf[proposal[k].refdes] = None PROVE FALSE
      OBVIOUS
    <3>1. "name" \in DOMAIN Identity(proposal[k])
      BY DEF Identity
    <3>2. "name" \notin DOMAIN Identity(proposal[i])
      BY <2>1 DEF Identity
    <3> QED
      BY <2>2, <3>1, <3>2
  <2> QED
    BY <1>3, <2>2, <2>3, <2>4
<1>5. ASSUME NEW k \in LastWrites(proposal), PartOf[proposal[k].refdes] # None
      PROVE  k \in Written
  <2>1. k \in DOMAIN proposal
    BY DEF LastWrites
  <2>2. k = Stays(Identity(proposal[k]))
    BY <1>3, <2>1
  <2> QED
    BY <1>5, <2>1, <2>2 DEF Written
<1> QED
  BY <1>4, <1>5

(* What a target of a change looks like: its key says which device it is   *)
(* about, and only what counts has a limit.                                *)
KeyOf(c, t) ==
  \/ t.key = <<c.refdes>> /\ t.device = PartOf[c.refdes]
  \/ t.key = <<c.refdes, t.device>>
LEMMA TargetsOfAChange ==
  ASSUME NEW c, NEW t \in Range(Reached(c))
  PROVE  /\ KeyOf(c, t)
         /\ t.counts => ~t.neutral
         /\ t.allowed # None => t.counts
<1> DEFINE part == Part[PartOf[c.refdes]]
           traced == part.param[c.param].traced
           token == part.param[c.param].token
<1>1. CASE traced = <<>>
  <2>1. t = DirectTarget(c.refdes, part, token)
    <3>1. Reached(c) = <<DirectTarget(c.refdes, part, token)>>
      BY <1>1 DEF Reached, TargetsOf
    <3>2. PICK n \in DOMAIN Reached(c) : t = Reached(c)[n]
      BY DEF Range
    <3>3. n = 1
      BY <3>1, <3>2
    <3> QED
      BY <3>1, <3>2, <3>3
  <2> HIDE DEF part, token
  <2>2. t.key = <<c.refdes>> /\ t.device = PartOf[c.refdes]
    BY <2>1 DEF DirectTarget
  <2>3. t.counts = (token # "neutral") /\ t.neutral = (token = "neutral")
    BY <2>1 DEF DirectTarget
  <2>4. token = "neutral" => t.allowed = None
    BY <2>1 DEF DirectTarget
  <2> QED
    BY <2>2, <2>3, <2>4 DEF KeyOf
<1>2. CASE traced # <<>>
  <2>1. PICK n \in DOMAIN traced : t = TracedTarget(c.refdes, traced[n])
    <3>1. Reached(c) = [n \in DOMAIN traced |-> TracedTarget(c.refdes, traced[n])]
      BY <1>2 DEF Reached, TargetsOf
    <3> HIDE DEF traced
    <3>2. PICK n \in DOMAIN Reached(c) : t = Reached(c)[n]
      BY DEF Range
    <3> QED
      BY <3>1, <3>2
  <2> DEFINE g == traced[n]
             sized == g.token \in {"geometry", "positional"} /\ g.size # None
  <2> HIDE DEF traced
  <2>2. t.key = <<c.refdes, t.device>>
    BY <2>1 DEF TracedTarget
  <2>3. t.counts = (g.token = "count" \/ sized) /\ t.neutral = (g.token = "neutral")
    BY <2>1 DEF TracedTarget
  <2>4. ~ (g.token = "count" \/ sized) => t.allowed = None
    BY <2>1 DEF TracedTarget
  <2> HIDE DEF g
  <2>5. t.counts => ~t.neutral
    BY <2>3
  <2> HIDE DEF sized
  <2>6. t.allowed # None => t.counts
    BY <2>3, <2>4
  <2> QED
    BY <2>2, <2>5, <2>6 DEF KeyOf
<1> QED
  BY <1>1, <1>2

(* One key, one device.                                                    *)
LEMMA KeysTellDevices ==
  ASSUME NEW c, NEW d, NEW t, NEW u, KeyOf(c, t), KeyOf(d, u), t.key = u.key
  PROVE  t.device = u.device
<1>1. CASE t.key = <<c.refdes>> /\ t.device = PartOf[c.refdes]
  <2>1. Len(t.key) = 1
    BY <1>1
  <2>2. u.key # <<d.refdes, u.device>>
    BY <2>1
  <2>3. u.key = <<d.refdes>> /\ u.device = PartOf[d.refdes]
    BY <2>2 DEF KeyOf
  <2>4. c.refdes = d.refdes
    <3>1. <<c.refdes>> = <<d.refdes>>
      BY <1>1, <2>3
    <3> QED
      BY <3>1
  <2> QED
    BY <1>1, <2>3, <2>4
<1>2. CASE t.key = <<c.refdes, t.device>>
  <2>1. Len(t.key) = 2
    BY <1>2
  <2>2. u.key # <<d.refdes>>
    BY <2>1
  <2>3. u.key = <<d.refdes, u.device>>
    BY <2>2 DEF KeyOf
  <2>4. <<c.refdes, t.device>> = <<d.refdes, u.device>>
    BY <1>2, <2>3
  <2> QED
    BY <2>4
<1> QED
  BY <1>1, <1>2 DEF KeyOf

(* What the gate reports as bounded it saw in full.                        *)
LEMMA BoundedIsSeen ==
  ASSUME NEW c, Visibility(c) = "bounded"
  PROVE  /\ PartOf[c.refdes] # None /\ Ratio(c) # None
         /\ \A t \in Range(Reached(c)) : ~t.neutral => t.counts /\ t.allowed # None
BY DEF Visibility, Reached

(* The state of a change that is kept is the state of that change.         *)
LEMMA StateOfKept ==
  ASSUME NEW changes \in Seq(ChangesNamed), NEW i \in LastWrites(changes)
  PROVE  Evaluate(changes).states[<<changes[i].refdes, changes[i].param>>] = Visibility(changes[i])
<1> DEFINE of(k) == <<changes[k].refdes, changes[k].param>>
           n == CHOOSE k \in LastWrites(changes) : of(k) = of(i)
<1>1. Evaluate(changes).states[of(i)] = Visibility(changes[n])
  BY DEF Evaluate
<1>2. n \in LastWrites(changes) /\ of(n) = of(i)
  OBVIOUS
<1> HIDE DEF n
<1>3. Identity(changes[n]) = Identity(changes[i])
  BY <1>2 DEF Identity
<1>4. n \in DOMAIN changes /\ i \in DOMAIN changes /\ ~ (n < i) /\ ~ (i < n)
  BY <1>2, <1>3 DEF LastWrites
<1>5. n = i
  BY <1>4
<1> QED
  BY <1>1, <1>5

(* When every change kept is whole, the product under the only key of a    *)
(* device is the growth of the device, and the limits are the same.        *)
LEMMA GroupIsTheDevice ==
  ASSUME proposal \in Seq(ChangesNamed), NEW d \in DOMAIN Part,
         verdict = Evaluate(proposal), verdict.approved,
         Seen(d), OneWay(d), NEW i \in TouchesOf(d)
  PROVE  \E t \in Gathered(proposal) :
           Growth(d) = GroupRatio(proposal, t.key) /\ Limit(d) = GroupAllowed(proposal, t.key)
<1>1. JudgedWrites(proposal) = Written
  <2>1. \A k \in LastWrites(proposal) : ~BreaksIntegrality(proposal[k])
    BY DEF Evaluate
  <2> QED
    BY <2>1, WrittenIsKept DEF JudgedWrites
<1>2. \A k \in TouchesOf(d) :
        /\ Ratio(proposal[k]) # None
        /\ \A t \in Range(Reached(proposal[k])) : ~t.neutral => t.counts /\ t.allowed # None
  <2> SUFFICES ASSUME NEW k \in TouchesOf(d)
               PROVE  /\ Ratio(proposal[k]) # None
                      /\ \A t \in Range(Reached(proposal[k])) :
                           ~t.neutral => t.counts /\ t.allowed # None
    OBVIOUS
  <2>1. verdict.states[<<proposal[k].refdes, proposal[k].param>>] = "bounded"
    BY DEF Seen
  <2>2. k \in LastWrites(proposal)
    BY WrittenIsKept DEF TouchesOf
  <2> QED
    BY <2>1, <2>2, StateOfKept, BoundedIsSeen
<1>3. PICK t \in Range(Reached(proposal[i])) : Grows(t, d)
  BY DEF TouchesOf
<1>4. t.counts /\ t.device = d /\ t \in Gathered(proposal) /\ i \in Written
      /\ KeyOf(proposal[i], t)
  BY <1>1, <1>2, <1>3, TargetsOfAChange DEF Grows, Gathered, TouchesOf
<1>5. ASSUME NEW k \in Written, NEW u \in Range(Reached(proposal[k]))
      PROVE  /\ Grows(u, d) <=> Counted(proposal[k], u, t.key)
             /\ u.device = d /\ u.allowed # None /\ k \in TouchesOf(d)
                  <=> u.key = t.key /\ u.allowed # None
  <2>1. KeyOf(proposal[k], u) /\ (u.counts => ~u.neutral) /\ (u.allowed # None => u.counts)
    BY TargetsOfAChange
  <2>2. u.key = t.key => u.device = d
    BY <1>4, <2>1, KeysTellDevices
  <2>3. Grows(u, d) => k \in TouchesOf(d)
    BY DEF TouchesOf
  <2>4. k \in TouchesOf(d) /\ u.device = d /\ u.counts => u.key = t.key
    BY <1>3, <1>4 DEF OneWay, TargetsAt
  <2>5. Grows(u, d) => Counted(proposal[k], u, t.key)
    BY <1>2, <2>3, <2>4 DEF Grows, Counted
  <2>6. Counted(proposal[k], u, t.key) => Grows(u, d)
    BY <2>1, <2>2 DEF Counted, Grows
  <2>7. u.key = t.key /\ u.allowed # None => u.device = d /\ k \in TouchesOf(d)
    BY <2>1, <2>2, <2>3 DEF Grows
  <2>8. u.device = d /\ u.allowed # None /\ k \in TouchesOf(d) => u.key = t.key
    BY <2>1, <2>4
  <2> QED
    BY <2>5, <2>6, <2>7, <2>8
<1>6. Growth(d) = GroupRatio(proposal, t.key)
  <2> DEFINE per(k) == [j \in DOMAIN Reached(proposal[k]) |->
                         IF Grows(Reached(proposal[k])[j], d) THEN Ratio(proposal[k]) ELSE One]
             group(k) == [j \in DOMAIN Reached(proposal[k]) |->
                           IF Counted(proposal[k], Reached(proposal[k])[j], t.key)
                           THEN Ratio(proposal[k]) ELSE One]
             all == [k \in DOMAIN proposal |-> IF k \notin Written THEN One ELSE ProductOf(per(k))]
             kept == [k \in DOMAIN proposal |->
                       IF k \notin JudgedWrites(proposal) THEN One ELSE ProductOf(group(k))]
  <2>1. ASSUME NEW k \in Written PROVE per(k) = group(k)
    <3>1. ASSUME NEW j \in DOMAIN Reached(proposal[k])
          PROVE  Grows(Reached(proposal[k])[j], d)
                   <=> Counted(proposal[k], Reached(proposal[k])[j], t.key)
      <4>1. Reached(proposal[k])[j] \in Range(Reached(proposal[k]))
        BY DEF Range
      <4> QED
        BY <1>5, <4>1
    <3> QED
      BY <3>1
  <2>2. all = kept
    <3> HIDE DEF per, group
    <3> QED
      BY <1>1, <2>1
  <2>3. Growth(d) = ProductOf(all)
    BY DEF Growth
  <2>4. GroupRatio(proposal, t.key) = ProductOf(kept)
    BY DEF GroupRatio
  <2> HIDE DEF all, kept
  <2> QED
    BY <2>2, <2>3, <2>4
<1>7. Limit(d) = GroupAllowed(proposal, t.key)
  <2> DEFINE all == {u.allowed : u \in TargetsAt(d)}
             kept == {u.allowed : u \in {v \in Gathered(proposal) : v.key = t.key}}
  <2>1. ASSUME NEW a \in all, a # None PROVE a \in kept
    <3>1. PICK k \in TouchesOf(d) : \E u \in Range(Reached(proposal[k])) : u.device = d /\ a = u.allowed
      BY DEF TargetsAt
    <3>2. PICK u \in Range(Reached(proposal[k])) : u.device = d /\ a = u.allowed
      BY <3>1
    <3>3. k \in Written
      BY DEF TouchesOf
    <3>4. u \in Gathered(proposal)
      BY <1>1, <3>3 DEF Gathered
    <3> QED
      BY <1>5, <2>1, <3>2, <3>3, <3>4
  <2>2. ASSUME NEW a \in kept, a # None PROVE a \in all
    <3>1. PICK k \in Written : \E u \in Range(Reached(proposal[k])) : u.key = t.key /\ a = u.allowed
      BY <1>1 DEF Gathered
    <3>2. PICK u \in Range(Reached(proposal[k])) : u.key = t.key /\ a = u.allowed
      BY <3>1
    <3>3. k \in TouchesOf(d) /\ u.device = d
      BY <1>5, <2>2, <3>2
    <3> QED
      BY <3>2, <3>3 DEF TargetsAt
  <2>3. Limit(d) = Tightest(all) /\ GroupAllowed(proposal, t.key) = Tightest(kept)
    BY DEF Limit, GroupAllowed
  <2> HIDE DEF all, kept
  <2>4. all \ {None} = kept \ {None}
    BY <2>1, <2>2
  <2>5. (all \subseteq {None}) = (kept \subseteq {None})
    BY <2>4
  <2> QED
    BY <2>3, <2>4, <2>5 DEF Tightest
<1> QED
  BY <1>4, <1>6, <1>7

(* An approved proposal grows no device past the tightest of its limits,   *)
(* over all that is written and however the changes are spread, if the     *)
(* gate says that it saw every change and the device is reached in one way *)
(* (area_limits.py:555-646).                                               *)
THEOREM NoDeviceOutgrows == AreaSpec => []ApprovedGrowthIsBoundedByKey
<1>1. AreaInv => ApprovedGrowthIsBoundedByKey
  <2> SUFFICES ASSUME AreaInv, verdict # None, verdict.approved,
                      NEW d \in DOMAIN Part, Seen(d), OneWay(d)
               PROVE  ~Outgrows(Growth(d), Limit(d))
    BY DEF ApprovedGrowthIsBoundedByKey
  <2>1. verdict = Evaluate(proposal) /\ proposal \in Seq(ChangesNamed)
    BY DEF AreaInv, AreaTypeOK, ChangesNamed
  <2>2. CASE TouchesOf(d) = {}
    <3>1. Limit(d) = None
      BY <2>2 DEF Limit, TargetsAt, Tightest
    <3> QED
      BY <3>1 DEF Outgrows
  <2>3. CASE TouchesOf(d) # {}
    <3>1. PICK t \in Gathered(proposal) :
            Growth(d) = GroupRatio(proposal, t.key) /\ Limit(d) = GroupAllowed(proposal, t.key)
      BY <2>1, <2>3, GroupIsTheDevice
    <3>2. ~Outgrows(GroupRatio(proposal, t.key), GroupAllowed(proposal, t.key))
      BY <2>1, <3>1 DEF Evaluate
    <3> QED
      BY <3>1, <3>2
  <2> QED
    BY <2>2, <2>3
<1> QED
  BY <1>1, AreaInductive, PTL

(***************************************************************************)
(* The specification.                                                      *)
(***************************************************************************)
Files ==
  [testbenches : Seq(TestbenchDecl), pvt : PvtDecl \cup {None}, reduction : ReductionDecl \cup {None}]
SpecInv ==
  /\ SpecTypeOK
  /\ written_spec \in Files
  /\ loaded # None => loaded = LoadSpec(written_spec)

(* What the assumption says of one declaration.                            *)
LEMMA BoundIsNat == MaxTestbenches \in Nat
  BY ONLY SpecLoadingAssumption, Zenon
LEMMA DeclarationForm ==
  ASSUME NEW pvt \in PvtDecl
  PROVE  /\ pvt.corners # None =>
              /\ IsSequence(pvt.corners)
              /\ \A i \in DOMAIN pvt.corners : pvt.corners[i].id # <<>>
         /\ pvt.axes[1] \in Seq(STRING) \cup {None}
         /\ \A k \in {2, 3} : pvt.axes[k] \in Seq(Int) \cup {None}
  BY ONLY SpecLoadingAssumption, Zenon
LEMMA NoneIsNot ==
  None \notin STRING \cup Loadings \cup Declared \cup {CornerFields(p) : p \in Declared}
  BY ONLY SpecLoadingAssumption, Zenon

LEMMA LoadSpecLoading ==
  ASSUME NEW file
  PROVE  LoadSpec(file) \in Loadings
BY DEF LoadSpec, Loadings

LEMMA LoadingInductive == LoadingSpec => []SpecInv
<1> USE DEF SpecTypeOK
<1>1. SpecInit => SpecInv
  <2> SUFFICES ASSUME SpecInit PROVE SpecInv
    OBVIOUS
  <2>1. <<>> \in Seq(TestbenchDecl) /\ Len(<<>>) = 0
    OBVIOUS
  <2> QED
    BY <2>1, BoundIsNat DEF SpecInit, SpecInv, Files
<1>2. ASSUME SpecInv, DeclareTestbench PROVE SpecInv'
  <2>1. PICK tb \in TestbenchDecl :
          written_spec' = [written_spec EXCEPT !.testbenches = Append(written_spec.testbenches, tb)]
    BY <1>2 DEF DeclareTestbench
  <2>2. written_spec \in Files /\ Len(written_spec.testbenches) < MaxTestbenches /\ loaded' = None
    BY <1>2 DEF DeclareTestbench, SpecInv
  <2> DEFINE longer == Append(written_spec.testbenches, tb)
  <2>3. written_spec.testbenches \in Seq(TestbenchDecl)
    BY <2>2 DEF Files
  <2>4. longer \in Seq(TestbenchDecl) /\ Len(longer) <= MaxTestbenches
    BY <2>2, <2>3, BoundIsNat
  <2> HIDE DEF longer
  <2>5. written_spec' \in Files /\ written_spec'.testbenches = longer
    BY <2>1, <2>2, <2>4 DEF Files, longer
  <2> QED
    BY <2>2, <2>4, <2>5 DEF SpecInv
<1>3. ASSUME SpecInv, DeclareCorners PROVE SpecInv'
  <2>1. PICK pvt \in PvtDecl : written_spec' = [written_spec EXCEPT !.pvt = pvt]
    BY <1>3 DEF DeclareCorners
  <2>2. written_spec \in Files /\ loaded' = None
        /\ Len(written_spec.testbenches) <= MaxTestbenches
    BY <1>3 DEF DeclareCorners, SpecInv
  <2>3. written_spec' \in Files /\ written_spec'.testbenches = written_spec.testbenches
    BY <2>1, <2>2 DEF Files
  <2> QED
    BY <2>2, <2>3 DEF SpecInv
<1>4. ASSUME SpecInv, DeclareReduction PROVE SpecInv'
  <2>1. PICK r \in ReductionDecl : written_spec' = [written_spec EXCEPT !.reduction = r]
    BY <1>4 DEF DeclareReduction
  <2>2. written_spec \in Files /\ loaded' = None
        /\ Len(written_spec.testbenches) <= MaxTestbenches
    BY <1>4 DEF DeclareReduction, SpecInv
  <2>3. written_spec' \in Files /\ written_spec'.testbenches = written_spec.testbenches
    BY <2>1, <2>2 DEF Files
  <2> QED
    BY <2>2, <2>3 DEF SpecInv
<1>5. ASSUME SpecInv, LoadFile PROVE SpecInv'
  <2>1. loaded' = LoadSpec(written_spec) /\ written_spec' = written_spec
    BY <1>5 DEF LoadFile
  <2> QED
    BY <1>5, <2>1, LoadSpecLoading DEF SpecInv, Loadings
<1>6. ASSUME SpecInv, UNCHANGED specVars PROVE SpecInv'
  BY <1>6 DEF SpecInv, specVars
<1>7. SpecInv /\ [SpecNext]_specVars => SpecInv'
  BY <1>2, <1>3, <1>4, <1>5, <1>6 DEF SpecNext
<1> QED
  BY <1>1, <1>7, PTL DEF LoadingSpec

(* A file that loads passed every check.                                   *)
LEMMA WhatLoads ==
  ASSUME NEW file, LoadSpec(file) = "loaded"
  PROVE  /\ \A i \in DOMAIN file.testbenches : ~BadTestbench(file.testbenches[i])
         /\ ~NamesCollide(file.testbenches)
         /\ file.pvt # None => ~BadPvt(file.pvt)
         /\ ~Unrealisable(file.testbenches, file.pvt)
BY DEF LoadSpec

(* Division: a number below l * c is one quotient below l and one rest.    *)
LEMMA Splits ==
  ASSUME NEW c \in Nat \ {0}, NEW l \in Nat, NEW n \in 0 .. l * c - 1
  PROVE  /\ n \div c \in 0 .. l - 1 /\ n % c \in 0 .. c - 1
         /\ n = c * (n \div c) + (n % c)
<1>1. PICK q : q = n \div c
  OBVIOUS
<1>2. PICK r : r = n % c
  OBVIOUS
<1>3. q \in Nat /\ r \in 0 .. c - 1
  BY <1>1, <1>2
<1>4. n = c * q + r
  BY <1>1, <1>2, <1>3
<1>5. q < l
  <2> SUFFICES ASSUME q >= l PROVE FALSE
    BY <1>3
  <2>1. PICK k \in Nat : q = l + k
    <3>1. q - l \in Nat /\ q = l + (q - l)
      BY <1>3
    <3> QED
      BY <3>1
  <2>2. c * q = l * c + c * k
    BY <2>1
  <2>3. c * k \in Nat /\ l * c \in Nat /\ c * q \in Nat
    BY <1>3, <2>1
  <2> QED
    BY <1>3, <1>4, <2>2, <2>3
<1> QED
  BY <1>1, <1>2, <1>3, <1>4, <1>5

LEMMA OneQuotient ==
  ASSUME NEW c \in Nat \ {0}, NEW q \in Nat, NEW p \in Nat,
         NEW r \in 0 .. c - 1, NEW s \in 0 .. c - 1, c * q + r = c * p + s
  PROVE  ~ (q < p)
<1> SUFFICES ASSUME q < p PROVE FALSE
  OBVIOUS
<1>1. PICK k \in Nat : p = q + 1 + k
  <2>1. p - q - 1 \in Nat /\ p = q + 1 + (p - q - 1)
    OBVIOUS
  <2> QED
    BY <2>1
<1>2. c * p = c * q + c + c * k
  BY <1>1
<1>3. c * k \in Nat /\ c * q \in Nat /\ c * p \in Nat
  BY <1>1
<1> QED
  BY <1>2, <1>3

LEMMA Joins ==
  ASSUME NEW c \in Nat \ {0}, NEW l \in Nat, NEW q \in 0 .. l - 1, NEW r \in 0 .. c - 1
  PROVE  /\ c * q + r \in 0 .. l * c - 1
         /\ (c * q + r) \div c = q /\ (c * q + r) % c = r
<1>1. PICK m : m = c * q + r
  OBVIOUS
<1>2. q \in Nat /\ c * q \in Nat /\ m \in Nat
  BY <1>1
<1>3. m < l * c
  <2>1. PICK k \in Nat : l = q + 1 + k
    <3>1. l - q - 1 \in Nat /\ l = q + 1 + (l - q - 1)
      OBVIOUS
    <3> QED
      BY <3>1
  <2>2. l * c = c * q + c + c * k
    BY <2>1, <1>2
  <2>3. c * k \in Nat /\ l * c \in Nat
    BY <2>1
  <2> QED
    BY <1>1, <1>2, <2>2, <2>3
<1>4. m \in 0 .. l * c - 1
  <2>1. l * c \in Nat
    OBVIOUS
  <2> QED
    BY <1>2, <1>3, <2>1
<1>5. PICK p : p = m \div c
  OBVIOUS
<1>6. PICK s : s = m % c
  OBVIOUS
<1>7. p \in Nat /\ s \in 0 .. c - 1 /\ m = c * p + s
  <2>1. /\ m \div c \in 0 .. l - 1 /\ m % c \in 0 .. c - 1
        /\ m = c * (m \div c) + (m % c)
    BY <1>4, Splits
  <2> QED
    BY <1>5, <1>6, <2>1
<1>8. ~ (q < p) /\ ~ (p < q)
  BY <1>1, <1>2, <1>7, OneQuotient
<1>9. p = q
  BY <1>2, <1>7, <1>8
<1>10. s = r
  BY <1>1, <1>2, <1>7, <1>9
<1> QED
  BY <1>1, <1>4, <1>5, <1>6, <1>9, <1>10

(* The grid lists every combination of the axes' places once: a place of   *)
(* it is a place on every axis, and the other way round.                   *)
Inner(axes) == Len(axes[2]) * Len(axes[3])
Size(axes) == Len(axes[1]) * Inner(axes)
PlaceOf(axes, i, j, k) == Inner(axes) * (i - 1) + (Len(axes[3]) * (j - 1) + (k - 1)) + 1
AxisPlaces(axes, n) ==
  <<1 + ((n - 1) \div Inner(axes)),
    1 + (((n - 1) % Inner(axes)) \div Len(axes[3])),
    1 + (((n - 1) % Inner(axes)) % Len(axes[3]))>>
HasAxes(axes) == \A k \in 1 .. 3 : Len(axes[k]) \in Nat \ {0} /\ DOMAIN axes[k] = 1 .. Len(axes[k])

LEMMA GridAt ==
  ASSUME NEW axes, NEW n \in 1 .. Size(axes)
  PROVE  LET at == AxisPlaces(axes, n)
         IN  Grid(axes)[n] = AxisPoint(axes[1][at[1]], axes[2][at[2]], axes[3][at[3]])
<1>1. Grid(axes)[n] =
        AxisPoint(axes[1][1 + ((n - 1) \div Inner(axes))],
                  axes[2][1 + (((n - 1) % Inner(axes)) \div Len(axes[3]))],
                  axes[3][1 + (((n - 1) % Inner(axes)) % Len(axes[3]))])
  BY Zenon DEF Grid, Inner, Size
<1> QED
  BY <1>1 DEF AxisPlaces

LEMMA Sizes ==
  ASSUME NEW axes, HasAxes(axes)
  PROVE  Inner(axes) \in Nat \ {0} /\ Size(axes) \in Nat \ {0}
<1>1. \A a \in Nat \ {0}, b \in Nat \ {0} : a * b \in Nat \ {0}
  <2> SUFFICES ASSUME NEW a \in Nat \ {0}, NEW b \in Nat \ {0} PROVE a * b \in Nat \ {0}
    OBVIOUS
  <2>1. a >= 1 /\ b >= 1
    OBVIOUS
  <2>2. a * b >= 1 /\ a * b \in Nat
    BY <2>1
  <2> QED
    BY <2>2
<1>2. Len(axes[1]) \in Nat \ {0} /\ Len(axes[2]) \in Nat \ {0} /\ Len(axes[3]) \in Nat \ {0}
  BY DEF HasAxes
<1>3. Inner(axes) \in Nat \ {0}
  BY <1>1, <1>2, Zenon DEF Inner
<1>4. Size(axes) \in Nat \ {0}
  BY <1>1, <1>2, <1>3, Zenon DEF Size
<1> QED
  BY <1>3, <1>4

LEMMA PlacesOf ==
  ASSUME NEW axes, HasAxes(axes), NEW n \in 1 .. Size(axes)
  PROVE  LET at == AxisPlaces(axes, n)
         IN  /\ at[1] \in DOMAIN axes[1] /\ at[2] \in DOMAIN axes[2] /\ at[3] \in DOMAIN axes[3]
             /\ n = PlaceOf(axes, at[1], at[2], at[3])
<1> DEFINE l1 == Len(axes[1])  l2 == Len(axes[2])  l3 == Len(axes[3])
           c == Inner(axes)
<1>1. l1 \in Nat /\ l2 \in Nat /\ l3 \in Nat \ {0} /\ c = l2 * l3 /\ Size(axes) = l1 * c
      /\ DOMAIN axes[1] = 1 .. l1 /\ DOMAIN axes[2] = 1 .. l2 /\ DOMAIN axes[3] = 1 .. l3
  BY DEF HasAxes, Inner, Size
<1>2. c \in Nat \ {0} /\ Size(axes) \in Nat
  BY Sizes
<1> HIDE DEF l1, l2, l3, c
<1>3. PICK m : m = n - 1
  OBVIOUS
<1>4. m \in 0 .. l1 * c - 1 /\ n = m + 1
  BY <1>1, <1>2, <1>3
<1>5. PICK q : q = m \div c
  OBVIOUS
<1>6. PICK r : r = m % c
  OBVIOUS
<1>7. q \in 0 .. l1 - 1 /\ r \in 0 .. c - 1 /\ m = c * q + r
  <2>1. m \div c \in 0 .. l1 - 1 /\ m % c \in 0 .. c - 1 /\ m = c * (m \div c) + (m % c)
    BY <1>1, <1>2, <1>4, Splits
  <2> QED
    BY <1>5, <1>6, <2>1
<1>8. PICK j : j = r \div l3
  OBVIOUS
<1>9. PICK k : k = r % l3
  OBVIOUS
<1>10. j \in 0 .. l2 - 1 /\ k \in 0 .. l3 - 1 /\ r = l3 * j + k
  <2>1. r \in 0 .. l2 * l3 - 1
    BY <1>1, <1>7
  <2>2. r \div l3 \in 0 .. l2 - 1 /\ r % l3 \in 0 .. l3 - 1 /\ r = l3 * (r \div l3) + (r % l3)
    BY <1>1, <2>1, Splits
  <2> QED
    BY <1>8, <1>9, <2>2
<1>11. AxisPlaces(axes, n) = <<1 + q, 1 + j, 1 + k>>
  BY <1>3, <1>5, <1>6, <1>8, <1>9 DEF AxisPlaces, c, l3
<1>12. 1 + q \in 1 .. l1 /\ 1 + j \in 1 .. l2 /\ 1 + k \in 1 .. l3
  BY <1>1, <1>7, <1>10
<1>13. PlaceOf(axes, 1 + q, 1 + j, 1 + k) = n
  <2>1. 1 + q - 1 = q /\ 1 + j - 1 = j /\ 1 + k - 1 = k
    BY <1>7, <1>10
  <2>2. PlaceOf(axes, 1 + q, 1 + j, 1 + k) = c * q + (l3 * j + k) + 1
    BY <1>1, <1>2, <1>7, <1>10, <2>1 DEF PlaceOf, c, l3
  <2> QED
    BY <1>4, <1>7, <1>10, <2>2
<1> QED
  BY <1>1, <1>11, <1>12, <1>13

LEMMA PlaceIsOne ==
  ASSUME NEW axes, HasAxes(axes),
         NEW i \in DOMAIN axes[1], NEW j \in DOMAIN axes[2], NEW k \in DOMAIN axes[3]
  PROVE  /\ PlaceOf(axes, i, j, k) \in 1 .. Size(axes)
         /\ AxisPlaces(axes, PlaceOf(axes, i, j, k)) = <<i, j, k>>
<1> DEFINE l1 == Len(axes[1])  l2 == Len(axes[2])  l3 == Len(axes[3])
           c == Inner(axes)
<1>1. l1 \in Nat /\ l2 \in Nat /\ l3 \in Nat \ {0} /\ c = l2 * l3 /\ Size(axes) = l1 * c
      /\ i \in 1 .. l1 /\ j \in 1 .. l2 /\ k \in 1 .. l3
  BY DEF HasAxes, Inner, Size
<1>2. c \in Nat \ {0} /\ Size(axes) \in Nat
  BY Sizes
<1> HIDE DEF l1, l2, l3, c
<1>3. PICK q : q = i - 1
  OBVIOUS
<1>4. PICK p : p = j - 1
  OBVIOUS
<1>5. PICK s : s = k - 1
  OBVIOUS
<1>6. q \in 0 .. l1 - 1 /\ p \in 0 .. l2 - 1 /\ s \in 0 .. l3 - 1
      /\ i = 1 + q /\ j = 1 + p /\ k = 1 + s
  BY <1>1, <1>3, <1>4, <1>5
<1>7. PICK r : r = l3 * p + s
  OBVIOUS
<1>8. r \in 0 .. c - 1 /\ r \div l3 = p /\ r % l3 = s
  <2>1. l3 * p + s \in 0 .. l2 * l3 - 1 /\ (l3 * p + s) \div l3 = p /\ (l3 * p + s) % l3 = s
    BY <1>1, <1>6, Joins
  <2> QED
    BY <1>1, <1>7, <2>1
<1>9. PICK m : m = c * q + r
  OBVIOUS
<1>10. m \in 0 .. l1 * c - 1 /\ m \div c = q /\ m % c = r
  <2>1. c * q + r \in 0 .. l1 * c - 1 /\ (c * q + r) \div c = q /\ (c * q + r) % c = r
    <3>1. l1 \in Nat /\ c \in Nat \ {0} /\ q \in 0 .. l1 - 1 /\ r \in 0 .. c - 1
      BY <1>1, <1>2, <1>6, <1>8
    <3> QED
      BY ONLY <3>1, Joins
  <2> QED
    BY <1>9, <2>1
<1>11. PICK n : n = PlaceOf(axes, i, j, k)
  OBVIOUS
<1>12. n = m + 1
  BY <1>3, <1>4, <1>5, <1>7, <1>9, <1>11 DEF PlaceOf, c, l3
<1>13. n - 1 = m /\ n \in 1 .. Size(axes)
  BY <1>1, <1>2, <1>10, <1>12
<1>14. AxisPlaces(axes, n) = <<i, j, k>>
  BY <1>6, <1>8, <1>10, <1>13 DEF AxisPlaces, c, l3
<1> QED
  BY <1>11, <1>13, <1>14

(* A sequence has as many values as places when no value is there twice.   *)
LEMMA AsManyAsPlaces ==
  ASSUME NEW n \in Nat, NEW f, DOMAIN f = 1 .. n, NEW T, T = {f[i] : i \in 1 .. n}
  PROVE  /\ IsFiniteSet(T) /\ Cardinality(T) \in Nat /\ Cardinality(T) <= n
         /\ Cardinality(T) = n <=> \A i, j \in 1 .. n : f[i] = f[j] => i = j
<1> DEFINE g == [i \in 1 .. n |-> f[i]]
<1>1. g \in Surjection(1 .. n, T)
  BY DEF Surjection
<1>2. IsFiniteSet(1 .. n) /\ Cardinality(1 .. n) = n
  BY FS_Interval
<1>3. g \in Injection(1 .. n, T) <=> \A i, j \in 1 .. n : f[i] = f[j] => i = j
  <2>1. g \in [1 .. n -> T]
    OBVIOUS
  <2>2. \A i \in 1 .. n : g[i] = f[i]
    OBVIOUS
  <2> HIDE DEF g
  <2> QED
    BY <2>1, <2>2 DEF Injection, IsInjective
<1> HIDE DEF g
<1>4. /\ IsFiniteSet(T) /\ Cardinality(T) <= Cardinality(1 .. n)
      /\ Cardinality(T) = Cardinality(1 .. n) <=> g \in Injection(1 .. n, T)
  BY <1>1, <1>2, FS_Surjection
<1>5. Cardinality(T) \in Nat
  BY <1>4, FS_CardinalityType
<1> QED
  BY <1>2, <1>3, <1>4, <1>5

LEMMA RepeatsMeans ==
  ASSUME NEW s, Len(s) \in Nat, DOMAIN s = 1 .. Len(s)
  PROVE  ~Repeats(s) <=> \A i, j \in DOMAIN s : s[i] = s[j] => i = j
<1>1. PICK n \in Nat : n = Len(s)
  OBVIOUS
<1>2. PICK T : T = {s[i] : i \in 1 .. n}
  OBVIOUS
<1>3. Range(s) = T
  BY <1>1, <1>2 DEF Range
<1>4. DOMAIN s = 1 .. n
  BY <1>1
<1>5. Cardinality(T) = n <=> \A i, j \in 1 .. n : s[i] = s[j] => i = j
  BY <1>2, <1>4, AsManyAsPlaces
<1> QED
  BY <1>1, <1>3, <1>4, <1>5 DEF Repeats

LEMMA AxesOfGrid ==
  ASSUME NEW pvt \in PvtDecl, ~BadPvt(pvt), pvt.corners = None
  PROVE  /\ HasAxes(pvt.axes) /\ pvt.nominal = None
         /\ \A i \in DOMAIN pvt.axes[1] : pvt.axes[1][i] # None
         /\ \A k \in {2, 3} : \A i \in DOMAIN pvt.axes[k] : pvt.axes[k][i] # None
<1>1. pvt.nominal = None /\ \A k \in 1 .. 3 : pvt.axes[k] # None /\ pvt.axes[k] # <<>>
  BY DEF BadPvt, BadAxis
<1>2. pvt.axes[1] \in Seq(STRING) \cup {None} /\ \A k \in {2, 3} : pvt.axes[k] \in Seq(Int) \cup {None}
  BY DeclarationForm, Zenon
<1>3. None \notin STRING /\ None \notin Int
  BY NoneIsNot, NoneAssumption, Zenon
<1>4. ASSUME NEW S, None \notin S, NEW s \in Seq(S) \cup {None}, s # None, s # <<>>
      PROVE  /\ Len(s) \in Nat \ {0} /\ DOMAIN s = 1 .. Len(s)
             /\ \A i \in DOMAIN s : s[i] # None
  <2>1. s \in Seq(S)
    BY <1>4
  <2>2. Len(s) \in Nat /\ DOMAIN s = 1 .. Len(s) /\ \A i \in 1 .. Len(s) : s[i] \in S
    BY <2>1
  <2>3. Len(s) # 0
    BY <1>4, <2>1
  <2> QED
    BY <1>4, <2>2, <2>3
<1>5. 1 \in 1 .. 3 /\ 2 \in 1 .. 3 /\ 3 \in 1 .. 3 /\ 2 \in {2, 3} /\ 3 \in {2, 3}
  OBVIOUS
<1>6. /\ Len(pvt.axes[1]) \in Nat \ {0} /\ DOMAIN pvt.axes[1] = 1 .. Len(pvt.axes[1])
      /\ \A i \in DOMAIN pvt.axes[1] : pvt.axes[1][i] # None
  BY <1>1, <1>2, <1>3, <1>4, <1>5, Zenon
<1>7. \A k \in {2, 3} :
        /\ Len(pvt.axes[k]) \in Nat \ {0} /\ DOMAIN pvt.axes[k] = 1 .. Len(pvt.axes[k])
        /\ \A i \in DOMAIN pvt.axes[k] : pvt.axes[k][i] # None
  <2> SUFFICES ASSUME NEW k \in {2, 3}
               PROVE  /\ Len(pvt.axes[k]) \in Nat \ {0} /\ DOMAIN pvt.axes[k] = 1 .. Len(pvt.axes[k])
                      /\ \A i \in DOMAIN pvt.axes[k] : pvt.axes[k][i] # None
    OBVIOUS
  <2>1. k \in 1 .. 3
    OBVIOUS
  <2> QED
    BY <1>1, <1>2, <1>3, <1>4, <2>1, Zenon
<1>8. HasAxes(pvt.axes)
  BY <1>6, <1>7 DEF HasAxes
<1> QED
  BY <1>1, <1>6, <1>7, <1>8

(* A corner that may be declared is a point in the axes, or a label with   *)
(* its file; and it is not None, nor is what is written of it.             *)
IsAxisCorner(p) ==
  /\ p = AxisPoint(p.process, p.voltage, p.temperature)
  /\ p.process # None /\ p.voltage # None /\ p.temperature # None
IsLabelCorner(p) ==
  /\ p = LabelPoint(p.corner_id, p.payload)
  /\ p.corner_id # None /\ p.corner_id # <<>> /\ p.payload # None
LEMMA AxisPointForm ==
  ASSUME NEW p, NEW v, NEW t, p # None, v # None, t # None
  PROVE  IsAxisCorner(AxisPoint(p, v, t))
BY DEF AxisPoint, IsAxisCorner
LEMMA LabelPointForm ==
  ASSUME NEW id, NEW file, id # None, id # <<>>, file # None
  PROVE  IsLabelCorner(LabelPoint(id, file))
BY DEF LabelPoint, IsLabelCorner

LEMMA EntryForm ==
  ASSUME NEW pvt \in PvtDecl, ~BadPvt(pvt), pvt.corners # None, NEW i \in DOMAIN pvt.corners
  PROVE  IsAxisCorner(EntryPoint(pvt.corners[i])) \/ IsLabelCorner(EntryPoint(pvt.corners[i]))
<1> DEFINE e == pvt.corners[i]
<1>1. ~BadEntry(e)
  BY DEF BadPvt, BadCorners
<1>2. e.id # <<>>
  BY DeclarationForm, Zenon
<1> HIDE DEF e
<1>3. CASE e.id # None
  <2>1. e.include # None
    BY <1>1, <1>3 DEF BadEntry
  <2>2. EntryPoint(e) = LabelPoint(e.id, e.include)
    BY <1>3 DEF EntryPoint
  <2> QED
    BY <1>2, <1>3, <2>1, <2>2, LabelPointForm DEF e
<1>4. CASE e.id = None
  <2>1. Given3(e.axes) = 1 .. 3
    BY <1>1, <1>4 DEF BadEntry
  <2>2. e.axes[1] # None /\ e.axes[2] # None /\ e.axes[3] # None
    BY <2>1 DEF Given3
  <2>3. EntryPoint(e) = AxisPoint(e.axes[1], e.axes[2], e.axes[3])
    BY <1>4 DEF EntryPoint
  <2> QED
    BY <2>2, <2>3, AxisPointForm DEF e
<1> QED
  BY <1>3, <1>4

LEMMA CornerForm ==
  ASSUME NEW pvt \in PvtDecl, ~BadPvt(pvt), NEW p \in Range(CornersOf(pvt))
  PROVE  /\ IsAxisCorner(p) \/ IsLabelCorner(p)
         /\ p # None /\ CornerFields(p) # None
<1>1. p # None /\ CornerFields(p) # None
  <2>1. p \in Declared
    BY Zenon DEF Declared
  <2> QED
    BY <2>1, NoneIsNot, Zenon
<1>2. CASE pvt.corners # None
  <2>1. CornersOf(pvt) = [i \in DOMAIN pvt.corners |-> EntryPoint(pvt.corners[i])]
    BY <1>2 DEF CornersOf
  <2>2. PICK i \in DOMAIN pvt.corners : p = EntryPoint(pvt.corners[i])
    BY <2>1, Zenon DEF Range
  <2> QED
    BY <1>1, <1>2, <2>2, EntryForm, Zenon
<1>3. CASE pvt.corners = None
  <2> DEFINE axes == pvt.axes
  <2>1. CornersOf(pvt) = Grid(axes) /\ DOMAIN Grid(axes) = 1 .. Size(axes)
    BY <1>3, Zenon DEF CornersOf, Grid, Size, Inner
  <2>2. PICK n \in 1 .. Size(axes) : p = Grid(axes)[n]
    BY <2>1, Zenon DEF Range
  <2>3. /\ HasAxes(axes)
        /\ \A i \in DOMAIN axes[1] : axes[1][i] # None
        /\ \A k \in {2, 3} : \A i \in DOMAIN axes[k] : axes[k][i] # None
    BY <1>3, AxesOfGrid
  <2> HIDE DEF axes
  <2>4. PICK at : at = AxisPlaces(axes, n)
    OBVIOUS
  <2>5. at[1] \in DOMAIN axes[1] /\ at[2] \in DOMAIN axes[2] /\ at[3] \in DOMAIN axes[3]
    BY <2>3, <2>4, PlacesOf
  <2>6. p = AxisPoint(axes[1][at[1]], axes[2][at[2]], axes[3][at[3]])
    BY <2>2, <2>4, GridAt
  <2>7. axes[1][at[1]] # None /\ axes[2][at[2]] # None /\ axes[3][at[3]] # None
    BY <2>3, <2>5
  <2>8. IsAxisCorner(p)
    BY <2>6, <2>7, AxisPointForm
  <2> QED
    BY <1>1, <2>8
<1> QED
  BY <1>2, <1>3

(* A corner is what is read back of it, and goes by the same label.        *)
LEMMA ReadBack ==
  ASSUME NEW p, IsAxisCorner(p) \/ IsLabelCorner(p), p # None
  PROVE  AsPoint(CornerFields(p)) = p /\ RawLabel(CornerFields(p)) = p.corner_id
<1>1. CASE IsAxisCorner(p)
  <2> DEFINE raw == CornerFields(p)
  <2>1. raw = [process |-> p.process, voltage |-> p.voltage, temperature |-> p.temperature]
    BY <1>1 DEF CornerFields, Coordinates, IsAxisCorner
  <2>2. p.corner_id = <<p.process, p.voltage, p.temperature>>
    <3>1. p = AxisPoint(p.process, p.voltage, p.temperature)
      BY <1>1 DEF IsAxisCorner
    <3>2. AxisPoint(p.process, p.voltage, p.temperature).corner_id
            = <<p.process, p.voltage, p.temperature>>
      BY DEF AxisPoint
    <3> QED
      BY <3>1, <3>2
  <2> HIDE DEF raw
  <2>3. ~Holds(raw, "corner_id") /\ Holds(raw, "voltage") /\ Holds(raw, "temperature")
    BY <1>1, <2>1 DEF Holds, IsAxisCorner
  <2>4. IdentityOf(raw) = <<p.process, p.voltage, p.temperature>> /\ IdentityOf(raw) # NoIdentity
    <3>1. IdentityOf(raw) = <<p.process, p.voltage, p.temperature>>
      BY <2>1, <2>3 DEF IdentityOf
    <3>2. <<p.process, p.voltage, p.temperature>> # <<>>
      OBVIOUS
    <3> QED
      BY <3>1, <3>2 DEF NoIdentity
  <2>5. AsPoint(raw) = AxisPoint(p.process, p.voltage, p.temperature)
    BY <2>1, <2>3, <2>4 DEF AsPoint
  <2>6. RawLabel(raw) = p.corner_id
    BY <2>2, <2>4 DEF RawLabel
  <2> QED
    BY <1>1, <2>5, <2>6 DEF raw, IsAxisCorner
<1>2. CASE IsLabelCorner(p)
  <2> DEFINE raw == CornerFields(p)
  <2>1. p.process = None
    <3>1. LabelPoint(p.corner_id, p.payload).process = None
      BY DEF LabelPoint
    <3> QED
      BY <1>2, <3>1 DEF IsLabelCorner
  <2>2. raw = [corner_id |-> p.corner_id, payload |-> p.payload]
    BY <2>1 DEF CornerFields
  <2> HIDE DEF raw
  <2>3. Holds(raw, "corner_id") /\ "payload" \in DOMAIN raw
    BY <1>2, <2>2 DEF Holds, IsLabelCorner
  <2>4. IdentityOf(raw) = p.corner_id /\ IdentityOf(raw) # NoIdentity
    BY <1>2, <2>2, <2>3 DEF IdentityOf, NoIdentity, IsLabelCorner
  <2>5. AsPoint(raw) = LabelPoint(p.corner_id, p.payload)
    BY <2>2, <2>3, <2>4 DEF AsPoint
  <2>6. RawLabel(raw) = p.corner_id
    BY <2>4 DEF RawLabel
  <2> QED
    BY <1>2, <2>5, <2>6 DEF raw, IsLabelCorner
<1> QED
  BY <1>1, <1>2

(* What the file that was loaded declares.                                 *)
LoadedFile ==
  /\ written_spec \in Files
  /\ \A i \in DOMAIN written_spec.testbenches : ~BadTestbench(written_spec.testbenches[i])
  /\ ~NamesCollide(written_spec.testbenches)
  /\ written_spec.pvt # None => ~BadPvt(written_spec.pvt)
  /\ ~Unrealisable(written_spec.testbenches, written_spec.pvt)

LEMMA LoadedCorners ==
  ASSUME LoadedFile, NEW p \in Range(LoadedPoints)
  PROVE  /\ written_spec.pvt # None /\ p \in Range(CornersOf(written_spec.pvt))
         /\ IsAxisCorner(p) \/ IsLabelCorner(p)
         /\ p # None /\ CornerFields(p) # None
<1>1. written_spec.pvt # None
  <2> SUFFICES ASSUME written_spec.pvt = None PROVE FALSE
    OBVIOUS
  <2>1. LoadedPoints = <<>>
    BY DEF LoadedPoints
  <2> QED
    BY <2>1 DEF Range
<1>2. LoadedPoints = CornersOf(written_spec.pvt)
  BY <1>1 DEF LoadedPoints
<1>3. written_spec.pvt \in PvtDecl /\ ~BadPvt(written_spec.pvt)
  BY <1>1 DEF LoadedFile, Files
<1> QED
  BY <1>1, <1>2, <1>3, CornerForm

LEMMA CornersDoComeBack == LoadedFile => CornersComeBack
<1> SUFFICES ASSUME LoadedFile, NEW p \in Range(LoadedPoints) \cup {None}
             PROVE  CornerFromPayload(CornerPayload(p)) = p /\ RawLabel(CornerFields(p)) = Label(p)
  BY DEF CornersComeBack
<1>1. CASE p = None
  <2>1. CornerFromPayload(CornerPayload(p)) = p
    BY <1>1 DEF CornerFromPayload, CornerPayload
  <2>2. CornerFields(p) = [corner_id |-> None]
    BY <1>1 DEF CornerFields
  <2>3. IdentityOf(CornerFields(p)) = NoIdentity
    BY <2>2 DEF IdentityOf, Holds
  <2> QED
    BY <1>1, <2>1, <2>3 DEF RawLabel, Label
<1>2. CASE p # None
  <2>1. p \in Range(LoadedPoints)
    BY <1>2
  <2>2. (IsAxisCorner(p) \/ IsLabelCorner(p)) /\ CornerFields(p) # None
    BY <2>1, LoadedCorners
  <2>3. AsPoint(CornerFields(p)) = p /\ RawLabel(CornerFields(p)) = p.corner_id
    BY <1>2, <2>2, ReadBack
  <2>4. CornerFromPayload(CornerPayload(p)) = p
    BY <1>2, <2>2, <2>3 DEF CornerFromPayload, CornerPayload
  <2> QED
    BY <1>2, <2>3, <2>4 DEF Label
<1> QED
  BY <1>1, <1>2

LEMMA NoMeasurementHides == LoadedFile => NothingIsHidden
<1> DEFINE tbs == written_spec.testbenches
           rows == UNION {{<<i, tbs[i].criteria[k].measurement>> : k \in DOMAIN tbs[i].criteria} :
                            i \in DOMAIN tbs}
<1> SUFFICES ASSUME LoadedFile, ~NamedTwice(tbs), NEW r \in rows, NEW s \in rows, r[2] = s[2]
             PROVE  r = s
  BY DEF NothingIsHidden
<1>1. PICK i \in DOMAIN tbs : \E k \in DOMAIN tbs[i].criteria :
        r = <<i, tbs[i].criteria[k].measurement>>
  OBVIOUS
<1>2. PICK j \in DOMAIN tbs : \E k \in DOMAIN tbs[j].criteria :
        s = <<j, tbs[j].criteria[k].measurement>>
  OBVIOUS
<1> HIDE DEF rows
<1>3. PICK k \in DOMAIN tbs[i].criteria : r = <<i, tbs[i].criteria[k].measurement>>
  BY <1>1
<1>4. PICK l \in DOMAIN tbs[j].criteria : s = <<j, tbs[j].criteria[l].measurement>>
  BY <1>2
<1>5. tbs[i].criteria[k].measurement = tbs[j].criteria[l].measurement
  BY <1>3, <1>4
<1>6. ASSUME i # j PROVE FALSE
  <2> DEFINE names == [n \in DOMAIN tbs |-> tbs[n].name]
             at == UNION {{n} \X DOMAIN tbs[n].criteria : n \in DOMAIN tbs}
  <2>1. tbs \in Seq(TestbenchDecl)
    BY DEF LoadedFile, Files
  <2>2. Len(tbs) \in Nat /\ DOMAIN tbs = 1 .. Len(tbs)
    BY <2>1
  <2>3. Len(names) \in Nat /\ DOMAIN names = 1 .. Len(names)
    BY <2>2
  <2>4. tbs[i].name # tbs[j].name
    <3>1. \A m, n \in DOMAIN names : names[m] = names[n] => m = n
      BY <2>3, RepeatsMeans DEF NamedTwice
    <3> QED
      BY <1>6, <3>1
  <2>5. <<i, k>> \in at /\ <<j, l>> \in at
    OBVIOUS
  <2>6. <<i, k>> # <<j, l>>
    BY <1>6
  <2>7. NamesCollide(tbs)
    <3>1. \E p, q \in at :
             /\ p # q
             /\ tbs[p[1]].criteria[p[2]].measurement = tbs[q[1]].criteria[q[2]].measurement
             /\ tbs[p[1]].name # tbs[q[1]].name
      <4> HIDE DEF at, tbs
      <4> QED
        BY <1>5, <2>4, <2>5, <2>6
    <3> QED
      BY <3>1, Zenon DEF NamesCollide
  <2> QED
    BY <2>7 DEF LoadedFile
<1> QED
  BY <1>3, <1>4, <1>5, <1>6

(* The places of a grid have identities of their own exactly when no axis  *)
(* lists a value twice.                                                    *)
SameId(points) ==
  \A m, n \in DOMAIN points : points[m].corner_id = points[n].corner_id => m = n
LEMMA GridIds ==
  ASSUME NEW axes, HasAxes(axes), NEW n \in 1 .. Size(axes)
  PROVE  LET at == AxisPlaces(axes, n)
         IN  Grid(axes)[n].corner_id = <<axes[1][at[1]], axes[2][at[2]], axes[3][at[3]]>>
<1> DEFINE at == AxisPlaces(axes, n)
<1>1. PICK u : u = axes[1][at[1]]
  OBVIOUS
<1>2. PICK v : v = axes[2][at[2]]
  OBVIOUS
<1>3. PICK w : w = axes[3][at[3]]
  OBVIOUS
<1>4. Grid(axes)[n] = AxisPoint(u, v, w)
  BY <1>1, <1>2, <1>3, GridAt
<1>5. AxisPoint(u, v, w).corner_id = <<u, v, w>>
  BY DEF AxisPoint
<1>6. Grid(axes)[n].corner_id = <<u, v, w>>
  BY <1>4, <1>5
<1> QED
  BY <1>1, <1>2, <1>3, <1>6

LEMMA GridTells ==
  ASSUME NEW axes, HasAxes(axes)
  PROVE  SameId(Grid(axes)) <=> \A k \in 1 .. 3 : ~Repeats(axes[k])
<1>1. DOMAIN Grid(axes) = 1 .. Size(axes)
  BY Zenon DEF Grid, Size, Inner
<1>2. \A k \in 1 .. 3 : ~Repeats(axes[k])
                          <=> \A i, j \in DOMAIN axes[k] : axes[k][i] = axes[k][j] => i = j
  <2> SUFFICES ASSUME NEW k \in 1 .. 3
               PROVE  ~Repeats(axes[k])
                        <=> \A i, j \in DOMAIN axes[k] : axes[k][i] = axes[k][j] => i = j
    OBVIOUS
  <2>1. Len(axes[k]) \in Nat /\ DOMAIN axes[k] = 1 .. Len(axes[k])
    BY DEF HasAxes
  <2> QED
    BY <2>1, RepeatsMeans
<1>3. ASSUME \A k \in 1 .. 3 : ~Repeats(axes[k]),
             NEW m \in 1 .. Size(axes), NEW n \in 1 .. Size(axes),
             Grid(axes)[m].corner_id = Grid(axes)[n].corner_id
      PROVE  m = n
  <2>1. PICK a : a = AxisPlaces(axes, m)
    OBVIOUS
  <2>2. PICK b : b = AxisPlaces(axes, n)
    OBVIOUS
  <2>3. <<axes[1][a[1]], axes[2][a[2]], axes[3][a[3]]>>
          = <<axes[1][b[1]], axes[2][b[2]], axes[3][b[3]]>>
    BY <1>3, <2>1, <2>2, GridIds
  <2>4. /\ a[1] \in DOMAIN axes[1] /\ a[2] \in DOMAIN axes[2] /\ a[3] \in DOMAIN axes[3]
        /\ m = PlaceOf(axes, a[1], a[2], a[3])
    BY <2>1, PlacesOf
  <2>5. /\ b[1] \in DOMAIN axes[1] /\ b[2] \in DOMAIN axes[2] /\ b[3] \in DOMAIN axes[3]
        /\ n = PlaceOf(axes, b[1], b[2], b[3])
    BY <2>2, PlacesOf
  <2>6. axes[1][a[1]] = axes[1][b[1]] /\ axes[2][a[2]] = axes[2][b[2]] /\ axes[3][a[3]] = axes[3][b[3]]
    BY <2>3
  <2>7. a[1] = b[1] /\ a[2] = b[2] /\ a[3] = b[3]
    BY <1>2, <1>3, <2>4, <2>5, <2>6
  <2> QED
    BY <2>4, <2>5, <2>7
<1>4. ASSUME SameId(Grid(axes)),
             NEW a \in DOMAIN axes[1], NEW b \in DOMAIN axes[2], NEW c \in DOMAIN axes[3],
             NEW i \in DOMAIN axes[1], NEW j \in DOMAIN axes[2], NEW k \in DOMAIN axes[3],
             axes[1][a] = axes[1][i], axes[2][b] = axes[2][j], axes[3][c] = axes[3][k]
      PROVE  a = i /\ b = j /\ c = k
  <2>1. PICK m : m = PlaceOf(axes, a, b, c)
    OBVIOUS
  <2>2. PICK n : n = PlaceOf(axes, i, j, k)
    OBVIOUS
  <2>3. m \in 1 .. Size(axes) /\ AxisPlaces(axes, m) = <<a, b, c>>
    BY <2>1, PlaceIsOne
  <2>4. n \in 1 .. Size(axes) /\ AxisPlaces(axes, n) = <<i, j, k>>
    BY <2>2, PlaceIsOne
  <2>5. Grid(axes)[m].corner_id = <<axes[1][a], axes[2][b], axes[3][c]>>
    BY <2>3, GridIds
  <2>6. Grid(axes)[n].corner_id = <<axes[1][i], axes[2][j], axes[3][k]>>
    BY <2>4, GridIds
  <2>7. m = n
    BY <1>1, <1>4, <2>3, <2>4, <2>5, <2>6 DEF SameId
  <2>8. <<a, b, c>> = <<i, j, k>>
    BY <2>3, <2>4, <2>7
  <2> QED
    BY <2>8
<1>5. 1 \in DOMAIN axes[1] /\ 1 \in DOMAIN axes[2] /\ 1 \in DOMAIN axes[3]
  BY DEF HasAxes
<1>6. ASSUME SameId(Grid(axes)), NEW l \in 1 .. 3 PROVE ~Repeats(axes[l])
  <2>1. CASE l = 1
    BY <1>2, <1>4, <1>5, <1>6, <2>1
  <2>2. CASE l = 2
    BY <1>2, <1>4, <1>5, <1>6, <2>2
  <2>3. CASE l = 3
    BY <1>2, <1>4, <1>5, <1>6, <2>3
  <2> QED
    BY <2>1, <2>2, <2>3
<1> QED
  BY <1>1, <1>3, <1>6 DEF SameId

LEMMA LabelsDoTell == LoadedFile => LabelsTellCornersApart
<1> DEFINE pvt == written_spec.pvt
           points == LoadedPoints
           labels == {Label(p) : p \in Range(points) \cup {None}}
<1> SUFFICES ASSUME LoadedFile, pvt # None
             PROVE  Cardinality(labels) = Len(points) + 1
                      <=> ~AxisRepeats(pvt) /\ <<"(deck)">> \notin Ids(points)
  BY DEF LabelsTellCornersApart
<1>1. pvt \in PvtDecl /\ ~BadPvt(pvt) /\ points = CornersOf(pvt)
  BY DEF LoadedFile, Files, LoadedPoints
<1>2. labels = Ids(points) \cup {<<"(deck)">>}
  <2>1. \A p \in Range(points) : Label(p) = p.corner_id
    BY LoadedCorners DEF Label
  <2>2. Label(None) = <<"(deck)">>
    BY DEF Label
  <2>3. Ids(points) = {p.corner_id : p \in Range(points)}
    BY DEF Ids, Range
  <2> HIDE DEF points
  <2> QED
    BY <2>1, <2>2, <2>3
<1>3. PICK len \in Nat : DOMAIN points = 1 .. len /\ Len(points) = len
  <2>1. CASE pvt.corners # None
    <3>1. points = [i \in DOMAIN pvt.corners |-> EntryPoint(pvt.corners[i])]
      BY <1>1, <2>1 DEF CornersOf
    <3>2. Len(pvt.corners) \in Nat /\ DOMAIN pvt.corners = 1 .. Len(pvt.corners)
      BY <1>1, <2>1, DeclarationForm, Zenon DEF IsSequence
    <3> HIDE DEF points, pvt
    <3> QED
      BY <3>1, <3>2
  <2>2. CASE pvt.corners = None
    <3>1. points = Grid(pvt.axes)
      BY <1>1, <2>2 DEF CornersOf
    <3>2. HasAxes(pvt.axes)
      BY <1>1, <2>2, AxesOfGrid
    <3>3. Size(pvt.axes) \in Nat
      BY <3>2, Sizes
    <3> DEFINE at(n) == AxisPoint(pvt.axes[1][1 + ((n - 1) \div Inner(pvt.axes))],
                          pvt.axes[2][1 + (((n - 1) % Inner(pvt.axes)) \div Len(pvt.axes[3]))],
                          pvt.axes[3][1 + (((n - 1) % Inner(pvt.axes)) % Len(pvt.axes[3]))])
    <3>4. points = [n \in 1 .. Size(pvt.axes) |-> at(n)]
      BY <3>1, Zenon DEF Grid, Size, Inner
    <3> HIDE DEF points, pvt, at
    <3> QED
      BY <3>3, <3>4
  <2> QED
    BY <2>1, <2>2
<1>4. PICK ids : ids = [i \in 1 .. len |-> points[i].corner_id]
  OBVIOUS
<1>5. PICK T : T = Ids(points)
  OBVIOUS
<1>6. T = {ids[i] : i \in 1 .. len} /\ DOMAIN ids = 1 .. len
  BY <1>3, <1>4, <1>5 DEF Ids
<1>7. /\ IsFiniteSet(T) /\ Cardinality(T) \in Nat /\ Cardinality(T) <= len
      /\ Cardinality(T) = len <=> \A i, j \in 1 .. len : ids[i] = ids[j] => i = j
  BY <1>6, AsManyAsPlaces
<1>8. (\A i, j \in 1 .. len : ids[i] = ids[j] => i = j) <=> SameId(points)
  BY <1>3, <1>4 DEF SameId
<1>9. SameId(points) <=> ~AxisRepeats(pvt)
  <2>1. CASE pvt.corners # None
    <3>1. Cardinality(T) = len
      <4>1. points = [i \in DOMAIN pvt.corners |-> EntryPoint(pvt.corners[i])]
        BY <1>1, <2>1 DEF CornersOf
      <4>2. ~BadCorners(pvt.corners, pvt.nominal)
        BY <1>1, <2>1 DEF BadPvt
      <4>3. Cardinality(Ids(points)) = Len(points)
        BY <4>1, <4>2, Zenon DEF BadCorners
      <4> QED
        BY <1>3, <1>5, <4>3
    <3>2. ~AxisRepeats(pvt)
      BY <2>1 DEF AxisRepeats
    <3> QED
      BY <1>7, <1>8, <3>1, <3>2
  <2>2. CASE pvt.corners = None
    <3>1. points = Grid(pvt.axes)
      BY <1>1, <2>2 DEF CornersOf
    <3>2. HasAxes(pvt.axes)
      BY <1>1, <2>2, AxesOfGrid
    <3>3. SameId(Grid(pvt.axes)) <=> \A k \in 1 .. 3 : ~Repeats(pvt.axes[k])
      BY <3>2, GridTells
    <3> QED
      BY <2>2, <3>1, <3>3 DEF AxisRepeats
  <2> QED
    BY <2>1, <2>2
<1>10. Cardinality(T \cup {<<"(deck)">>})
         = IF <<"(deck)">> \in T THEN Cardinality(T) ELSE Cardinality(T) + 1
  BY <1>7, FS_AddElement
<1>11. Cardinality(T \cup {<<"(deck)">>}) = len + 1
         <=> Cardinality(T) = len /\ <<"(deck)">> \notin T
  BY <1>7, <1>10
<1> QED
  BY <1>2, <1>3, <1>5, <1>7, <1>8, <1>9, <1>11

LEMMA DecksAreTheirCorners == LoadedFile => EveryDeckIsItsCorners
<1> DEFINE tbs == written_spec.testbenches
           pvt == written_spec.pvt
           nominal == NominalPoint(written_spec)
           deck(n, p) == DeckFor(tbs[n], p, nominal)
<1> SUFFICES ASSUME LoadedFile, NEW i \in DOMAIN tbs
             PROVE  /\ deck(i, None) # NoDeck
                    /\ \A p \in Range(LoadedPoints) :
                         /\ deck(i, p) # NoDeck
                         /\ deck(i, p) = deck(i, AsPoint(CornerFields(p)))
                         /\ \A q \in Range(LoadedPoints) :
                              deck(i, p) = deck(i, q) => Conditions(p) = Conditions(q)
  BY DEF EveryDeckIsItsCorners
<1> DEFINE tb == tbs[i]
<1>1. ~Unrealisable(tbs, pvt)
  BY DEF LoadedFile
<1>2. Slotted(tb) => Composed(tb)
  BY DEF Slotted
<1>3. Slotted(tb) => /\ pvt # None /\ pvt.nominal # None
                     /\ \A c \in Range(CornersOf(pvt)) : c.payload # None
  <2> SUFFICES ASSUME Slotted(tb)
               PROVE  /\ pvt # None /\ pvt.nominal # None
                      /\ \A c \in Range(CornersOf(pvt)) : c.payload # None
    OBVIOUS
  <2>1. i \in Having(tbs, Slotted)
    BY DEF Having
  <2>2. Having(tbs, Slotted) # {}
    BY <2>1
  <2> QED
    BY <1>1, <2>2 DEF Unrealisable
<1>4. pvt # None /\ ~Composed(tb) => \A c \in Range(CornersOf(pvt)) : c.process # None
  <2> SUFFICES ASSUME pvt # None, ~Composed(tb)
               PROVE  \A c \in Range(CornersOf(pvt)) : c.process # None
    OBVIOUS
  <2>1. i \notin Having(tbs, Composed) /\ i \in DOMAIN tbs
    BY DEF Having
  <2>2. Having(tbs, Composed) # DOMAIN tbs
    BY <2>1
  <2> QED
    BY <1>1, <2>2 DEF Unrealisable
<1>5. pvt # None /\ Composed(tb) => Slotted(tb)
  <2> SUFFICES ASSUME pvt # None, Composed(tb) PROVE Slotted(tb)
    OBVIOUS
  <2>1. i \in Having(tbs, Composed)
    BY DEF Having
  <2>2. Having(tbs, Composed) = Having(tbs, Slotted)
    BY <1>1 DEF Unrealisable
  <2>3. i \in Having(tbs, Slotted)
    BY <2>1, <2>2
  <2> QED
    BY <2>3 DEF Having
<1>6. Slotted(tb) => nominal # None /\ nominal.payload # None
  <2> SUFFICES ASSUME Slotted(tb) PROVE nominal # None /\ nominal.payload # None
    OBVIOUS
  <2>1. pvt # None /\ pvt.nominal # None /\ pvt \in PvtDecl /\ ~BadPvt(pvt)
    BY <1>3 DEF LoadedFile, Files
  <2>2. pvt.corners # None
    BY <2>1 DEF BadPvt
  <2>3. CornersOf(pvt) = [n \in DOMAIN pvt.corners |-> EntryPoint(pvt.corners[n])]
    BY <2>2 DEF CornersOf
  <2>4. pvt.nominal \in Ids(CornersOf(pvt))
    <3>1. ~BadCorners(pvt.corners, pvt.nominal)
      BY <2>1, <2>2 DEF BadPvt
    <3> QED
      BY <2>1, <2>3, <3>1, Zenon DEF BadCorners
  <2>5. \E c \in Range(CornersOf(pvt)) : c.corner_id = pvt.nominal
    BY <2>4 DEF Ids, Range
  <2>6. nominal = CHOOSE c \in Range(CornersOf(pvt)) : c.corner_id = pvt.nominal
    BY <2>1 DEF NominalPoint
  <2> HIDE DEF nominal, pvt
  <2>7. nominal \in Range(CornersOf(pvt))
    BY <2>5, <2>6
  <2> QED
    BY <1>3, <2>1, <2>7, CornerForm
<1>7. deck(i, None) # NoDeck
  <2>1. CASE ~Composed(tb)
    BY <2>1 DEF DeckFor, NoDeck
  <2>2. CASE Composed(tb) /\ ~Slotted(tb)
    BY <2>2 DEF DeckFor, Composition, NoDeck
  <2>3. CASE Slotted(tb)
    <3> HIDE DEF nominal
    <3>1. deck(i, None) = <<"slot", nominal.payload>>
      BY <1>2, <1>6, <2>3 DEF DeckFor, Composition
    <3>2. <<"slot", nominal.payload>> # <<>>
      OBVIOUS
    <3> QED
      BY <3>1, <3>2 DEF NoDeck
  <2> QED
    BY <2>1, <2>2, <2>3
<1>8. ASSUME NEW p \in Range(LoadedPoints)
      PROVE  \/ /\ Slotted(tb) /\ IsLabelCorner(p)
                /\ deck(i, p) = <<"slot", p.payload>>
             \/ /\ ~Composed(tb) /\ IsAxisCorner(p)
                /\ deck(i, p) = <<"rewritten", p.process, p.voltage, p.temperature>>
  <2>1. pvt # None /\ p \in Range(CornersOf(pvt)) /\ (IsAxisCorner(p) \/ IsLabelCorner(p)) /\ p # None
    BY LoadedCorners
  <2>2. IsAxisCorner(p) => p.payload = None
    <3>1. AxisPoint(p.process, p.voltage, p.temperature).payload = None
      BY DEF AxisPoint
    <3> QED
      BY <3>1 DEF IsAxisCorner
  <2>3. IsLabelCorner(p) => p.process = None
    <3>1. LabelPoint(p.corner_id, p.payload).process = None
      BY DEF LabelPoint
    <3> QED
      BY <3>1 DEF IsLabelCorner
  <2> HIDE DEF nominal, tb
  <2>4. CASE Slotted(tb)
    <3>1. p.payload # None
      BY <1>3, <2>1, <2>4
    <3>2. IsLabelCorner(p)
      BY <2>1, <2>2, <3>1
    <3>3. deck(i, p) = <<"slot", p.payload>>
      BY <1>2, <2>1, <2>4, <3>1 DEF DeckFor, Composition, tb
    <3> QED
      BY <2>4, <3>2, <3>3
  <2>5. CASE ~Slotted(tb)
    <3>1. ~Composed(tb)
      BY <1>5, <2>1, <2>5
    <3>2. p.process # None
      BY <1>4, <2>1, <3>1
    <3>3. IsAxisCorner(p)
      BY <2>1, <2>3, <3>2
    <3>4. deck(i, p) = <<"rewritten", p.process, p.voltage, p.temperature>>
      BY <2>1, <3>1, <3>2 DEF DeckFor, tb
    <3> QED
      BY <3>1, <3>3, <3>4
  <2> QED
    BY <2>4, <2>5
<1> HIDE DEF deck, nominal, tb
<1>9. ASSUME NEW p \in Range(LoadedPoints)
      PROVE  deck(i, p) # NoDeck /\ deck(i, p) = deck(i, AsPoint(CornerFields(p)))
  <2>1. AsPoint(CornerFields(p)) = p
    BY LoadedCorners, ReadBack
  <2>2. /\ <<"slot", p.payload>> # <<>>
        /\ <<"rewritten", p.process, p.voltage, p.temperature>> # <<>>
    OBVIOUS
  <2>3. deck(i, p) # NoDeck
    BY <1>8, <2>2 DEF NoDeck
  <2> QED
    BY <2>1, <2>3
<1>10. ASSUME NEW p \in Range(LoadedPoints), NEW q \in Range(LoadedPoints), deck(i, p) = deck(i, q)
       PROVE  Conditions(p) = Conditions(q)
  <2>1. CASE Slotted(tb)
    <3>1. /\ IsLabelCorner(p) /\ deck(i, p) = <<"slot", p.payload>>
          /\ IsLabelCorner(q) /\ deck(i, q) = <<"slot", q.payload>>
      BY <1>2, <1>8, <2>1
    <3>2. p.payload = q.payload
      <4>1. <<"slot", p.payload>> = <<"slot", q.payload>>
        BY <1>10, <3>1
      <4> QED
        BY <4>1
    <3>3. \A c : IsLabelCorner(c) =>
            Conditions(c) = [at |-> [process |-> None, voltage |-> None, temperature |-> None],
                             payload |-> c.payload]
      <4> SUFFICES ASSUME NEW c, IsLabelCorner(c)
                   PROVE  Conditions(c)
                            = [at |-> [process |-> None, voltage |-> None, temperature |-> None],
                               payload |-> c.payload]
        OBVIOUS
      <4>1. c.process = None /\ c.voltage = None /\ c.temperature = None
        <5>1. c = LabelPoint(c.corner_id, c.payload)
          BY DEF IsLabelCorner
        <5>2. LET d == LabelPoint(c.corner_id, c.payload)
              IN  d.process = None /\ d.voltage = None /\ d.temperature = None
          BY DEF LabelPoint
        <5> QED
          BY <5>1, <5>2
      <4> QED
        BY <4>1 DEF Conditions, Coordinates
    <3> QED
      BY <3>1, <3>2, <3>3
  <2>2. CASE ~Slotted(tb)
    <3>1. /\ IsAxisCorner(p) /\ deck(i, p) = <<"rewritten", p.process, p.voltage, p.temperature>>
          /\ IsAxisCorner(q) /\ deck(i, q) = <<"rewritten", q.process, q.voltage, q.temperature>>
      BY <1>8, <2>2
    <3>2. p.process = q.process /\ p.voltage = q.voltage /\ p.temperature = q.temperature
      <4>1. <<"rewritten", p.process, p.voltage, p.temperature>>
              = <<"rewritten", q.process, q.voltage, q.temperature>>
        BY <1>10, <3>1
      <4> QED
        BY <4>1
    <3>3. p.payload = None /\ q.payload = None
      <4>1. \A c : IsAxisCorner(c) => c.payload = None
        <5> SUFFICES ASSUME NEW c, IsAxisCorner(c) PROVE c.payload = None
          OBVIOUS
        <5>1. AxisPoint(c.process, c.voltage, c.temperature).payload = None
          BY DEF AxisPoint
        <5> QED
          BY <5>1 DEF IsAxisCorner
      <4> QED
        BY <3>1, <4>1
    <3> QED
      BY <3>2, <3>3 DEF Conditions, Coordinates
  <2> QED
    BY <2>1, <2>2
<1> QED
  BY <1>7, <1>9, <1>10 DEF deck

(* What is loaded can be run as it was declared: every testbench has the   *)
(* deck of every corner, corners come back as they were written and go by  *)
(* labels that tell them apart, and no measurement hides another           *)
(* (spec.py:626-669, 760-851, pvt.py:226-304, corner_selection.py:51-138). *)
THEOREM LoadedRuns == LoadingSpec => []LoadedIsRunnable
<1>1. SpecInv => LoadedIsRunnable
  <2> SUFFICES ASSUME SpecInv, loaded = "loaded" PROVE LoadedIsRunnable
    BY DEF LoadedIsRunnable
  <2>1. loaded # None
    <3>1. None \notin Loadings
      BY NoneIsNot, Zenon
    <3> QED
      BY <3>1 DEF Loadings
  <2>2. LoadSpec(written_spec) = "loaded" /\ written_spec \in Files
    BY <2>1 DEF SpecInv
  <2>3. LoadedFile
    BY <2>2, WhatLoads DEF LoadedFile
  <2>4. EveryDeckIsItsCorners /\ CornersComeBack /\ LabelsTellCornersApart /\ NothingIsHidden
    BY <2>3, DecksAreTheirCorners, CornersDoComeBack, LabelsDoTell, NoMeasurementHides
  <2>5. ASSUME ~RefusedByTheLoop(written_spec), NEW i \in DOMAIN written_spec.testbenches
        PROVE  written_spec.testbenches[i].netlist # None
    <3> DEFINE tb == written_spec.testbenches[i]
    <3>1. ~Composed(tb)
      BY <2>5 DEF RefusedByTheLoop, Having
    <3>2. ~BadTestbench(tb)
      BY <2>3 DEF LoadedFile
    <3> QED
      BY <3>1, <3>2 DEF BadTestbench, Composed
  <2> QED
    BY <2>4, <2>5 DEF LoadedIsRunnable
<1> QED
  BY <1>1, LoadingInductive, PTL

(***************************************************************************)
(* The text of a netlist.                                                  *)
(***************************************************************************)
(* The stack of open subcircuits exists, line by line.                     *)
StackTo(text, m, f) == f = [i \in 0 .. m |-> IF i = 0 THEN <<>> ELSE After(text[i], f[i - 1])]
LEMMA StacksExist ==
  ASSUME NEW text
  PROVE  \A m \in Nat : \E f : StackTo(text, m, f)
<1> DEFINE T == {m \in Nat : \E f : StackTo(text, m, f)}
           up(i, s) == After(text[i], s)
<1>1. 0 \in T
  <2>1. PICK f : f = [i \in 0 .. 0 |-> <<>>]
    OBVIOUS
  <2>2. f = [i \in 0 .. 0 |-> IF i = 0 THEN <<>> ELSE up(i, f[i - 1])]
    <3> HIDE DEF up
    <3> QED
      BY <2>1
  <2> QED
    BY <2>2 DEF StackTo
<1>2. ASSUME NEW m \in Nat, m \in T PROVE m + 1 \in T
  <2>1. PICK f : f = [i \in 0 .. m |-> IF i = 0 THEN <<>> ELSE up(i, f[i - 1])]
    BY <1>2 DEF StackTo
  <2>2. PICK g : g = [i \in 0 .. m + 1 |-> IF i = m + 1 THEN up(m + 1, f[m]) ELSE f[i]]
    OBVIOUS
  <2>3. g = [i \in 0 .. m + 1 |-> IF i = 0 THEN <<>> ELSE up(i, g[i - 1])]
    <3> HIDE DEF up
    <3>1. \A i \in 0 .. m : g[i] = f[i]
      BY <2>2
    <3>2. \A i \in 0 .. m + 1 : g[i] = IF i = 0 THEN <<>> ELSE up(i, g[i - 1])
      <4> SUFFICES ASSUME NEW i \in 0 .. m + 1
                   PROVE  g[i] = IF i = 0 THEN <<>> ELSE up(i, g[i - 1])
        OBVIOUS
      <4>1. CASE i \in 0 .. m
        <5>1. f[i] = IF i = 0 THEN <<>> ELSE up(i, f[i - 1])
          BY <2>1, <4>1
        <5>2. i # 0 => i - 1 \in 0 .. m
          BY <4>1
        <5> QED
          BY <3>1, <4>1, <5>1, <5>2
      <4>2. CASE i = m + 1
        <5>1. i - 1 = m /\ m \in 0 .. m /\ i # 0
          BY <4>2
        <5>2. g[i] = up(i, f[m])
          BY <2>2, <4>2
        <5> QED
          BY <3>1, <5>1, <5>2
      <4> QED
        BY <4>1, <4>2
    <3>3. DOMAIN g = 0 .. m + 1 /\ g = [i \in DOMAIN g |-> g[i]]
      BY <2>2
    <3> QED
      BY <3>2, <3>3
  <2>4. StackTo(text, m + 1, g)
    BY <2>3 DEF StackTo
  <2> QED
    BY <2>4
<1> HIDE DEF T
<1>3. \A m \in Nat : m \in T
  BY <1>1, <1>2, Counting
<1> QED
  BY <1>3 DEF T

LEMMA StackAt ==
  ASSUME NEW text, Len(text) \in Nat
  PROVE  /\ DOMAIN Opened(text) = 0 .. Len(text)
         /\ Opened(text)[0] = <<>>
         /\ \A i \in 1 .. Len(text) : Opened(text)[i] = After(text[i], Opened(text)[i - 1])
<1> DEFINE f == Opened(text)
           up(i, s) == After(text[i], s)
<1>1. \E g : StackTo(text, Len(text), g)
  BY StacksExist
<1>2. f = [i \in 0 .. Len(text) |-> IF i = 0 THEN <<>> ELSE up(i, f[i - 1])]
  BY <1>1 DEF StackTo, Opened
<1> HIDE DEF f, up
<1>3. DOMAIN f = 0 .. Len(text) /\ f[0] = <<>>
  BY <1>2
<1>4. \A i \in 1 .. Len(text) : f[i] = up(i, f[i - 1])
  BY <1>2
<1> QED
  BY <1>3, <1>4 DEF f, up

(* Paths, and what a line does to one.                                     *)
Paths == Seq(STRING)
LineWords == Seq([key : STRING \cup {None}, val : STRING])
Kinds == {"open", "close", "device", "more", "comment", "directive"}
Named(line) == line.kind = "open" => line.words[1].val \in STRING

LEMMA FrontOf ==
  ASSUME NEW s \in Paths, s # <<>>
  PROVE  /\ Len(s) \in Nat /\ Len(s) > 0
         /\ Front(s) \in Paths /\ Len(Front(s)) = Len(s) - 1
         /\ \A k \in 1 .. Len(s) - 1 : Front(s)[k] = s[k]
<1>1. Len(s) \in Nat /\ Len(s) > 0 /\ \A k \in 1 .. Len(s) : s[k] \in STRING
  <2>1. Len(s) \in Nat \ {0}
    BY EmptySeq DEF Paths
  <2>2. \A k \in 1 .. Len(s) : s[k] \in STRING
    BY ElementOfSeq DEF Paths
  <2> QED
    BY <2>1, <2>2
<1>2. PICK n \in Int : n = Len(s) - 1
  BY <1>1
<1>3. /\ SubSeq(s, 1, n) \in Seq(STRING)
      /\ Len(SubSeq(s, 1, n)) = IF 1 <= n THEN n - 1 + 1 ELSE 0
      /\ \A i \in 1 .. n - 1 + 1 : SubSeq(s, 1, n)[i] = s[1 + i - 1]
  <2>1. \A i \in 1 .. n : s[i] \in STRING
    BY <1>1, <1>2
  <2> QED
    BY <2>1, SubSeqProperties
<1> QED
  BY <1>1, <1>2, <1>3 DEF Front, Paths

LEMMA AppendOf ==
  ASSUME NEW s \in Paths, NEW x \in STRING
  PROVE  /\ Len(s) \in Nat
         /\ Append(s, x) \in Paths /\ Len(Append(s, x)) = Len(s) + 1
         /\ \A k \in 1 .. Len(s) : Append(s, x)[k] = s[k]
         /\ Append(s, x)[Len(s) + 1] = x
<1>1. Len(s) \in Nat
  BY LenProperties DEF Paths
<1>2. /\ Append(s, x) \in Seq(STRING)
      /\ Append(s, x) # << >>
      /\ Len(Append(s, x)) = Len(s) + 1
      /\ \A i \in 1 .. Len(s) : Append(s, x)[i] = s[i]
      /\ Append(s, x)[Len(s) + 1] = x
  <2>1. s \in Seq(STRING)
    BY DEF Paths
  <2> QED
    BY <2>1, AppendProperties, Zenon
<1>3. Append(s, x) \in Paths
  BY <1>2 DEF Paths
<1> QED
  BY <1>1, <1>2, <1>3, Zenon

LEMMA JoinOf ==
  ASSUME NEW s \in Paths, NEW t \in Paths
  PROVE  /\ Len(s) \in Nat /\ Len(t) \in Nat
         /\ s \o t \in Paths /\ Len(s \o t) = Len(s) + Len(t)
         /\ \A k \in 1 .. Len(s) : (s \o t)[k] = s[k]
         /\ \A k \in 1 .. Len(t) : (s \o t)[Len(s) + k] = t[k]
<1>1. Len(s) \in Nat /\ Len(t) \in Nat
  BY LenProperties DEF Paths
<1>2. /\ s \o t \in Paths
      /\ Len(s \o t) = Len(s) + Len(t)
      /\ \A i \in 1 .. Len(s) + Len(t) : (s \o t)[i] = IF i <= Len(s) THEN s[i] ELSE t[i - Len(s)]
  BY ConcatProperties DEF Paths
<1> QED
  BY <1>1, <1>2

LEMMA SamePath ==
  ASSUME NEW s \in Paths, NEW t \in Paths, Len(s) = Len(t), \A k \in 1 .. Len(s) : s[k] = t[k]
  PROVE  s = t
BY SeqEqual DEF Paths

LEMMA EmptyPath ==
  /\ <<>> \in Paths /\ Len(<<>>) = 0
  /\ \A s \in Paths : Len(s) \in Nat /\ (s # <<>> <=> Len(s) > 0)
<1>1. <<>> \in Paths /\ Len(<<>>) = 0
  BY EmptySeq DEF Paths
<1>2. ASSUME NEW s \in Paths, s # <<>> PROVE Len(s) \in Nat /\ Len(s) > 0
  BY <1>2, EmptySeq DEF Paths
<1> QED
  BY <1>1, <1>2

LEMMA AfterIsAPath ==
  ASSUME NEW line, Named(line), NEW s \in Paths
  PROVE  After(line, s) \in Paths
BY AppendOf, FrontOf DEF After, Named

(* Below a path everything happens as at the top.                          *)
LEMMA AfterBelow ==
  ASSUME NEW line, Named(line), NEW p \in Paths, NEW s \in Paths,
         line.kind = "close" => p = <<>> \/ s # <<>>
  PROVE  After(line, p \o s) = p \o After(line, s)
<1>0. Len(p) \in Nat /\ Len(s) \in Nat /\ p \o s \in Paths
  BY JoinOf
<1>1. CASE line.kind = "open"
  <2>1. PICK x \in STRING : x = line.words[1].val
    BY <1>1 DEF Named
  <2>2. After(line, p \o s) = Append(p \o s, x) /\ After(line, s) = Append(s, x)
    BY <1>1, <2>1 DEF After
  <2>3. Append(s, x) \in Paths /\ Len(Append(s, x)) = Len(s) + 1 /\ Append(s, x)[Len(s) + 1] = x
        /\ \A k \in 1 .. Len(s) : Append(s, x)[k] = s[k]
    BY AppendOf
  <2>4. /\ Append(p \o s, x) \in Paths /\ Len(Append(p \o s, x)) = Len(p) + Len(s) + 1
        /\ Append(p \o s, x)[Len(p) + Len(s) + 1] = x
        /\ \A k \in 1 .. Len(p) : Append(p \o s, x)[k] = p[k]
        /\ \A k \in 1 .. Len(s) : Append(p \o s, x)[Len(p) + k] = s[k]
    <3>1. Len(p \o s) = Len(p) + Len(s)
          /\ (\A k \in 1 .. Len(p) : (p \o s)[k] = p[k])
          /\ (\A k \in 1 .. Len(s) : (p \o s)[Len(p) + k] = s[k])
      BY JoinOf
    <3>2. /\ Append(p \o s, x) \in Paths /\ Len(Append(p \o s, x)) = Len(p \o s) + 1
          /\ \A k \in 1 .. Len(p \o s) : Append(p \o s, x)[k] = (p \o s)[k]
          /\ Append(p \o s, x)[Len(p \o s) + 1] = x
      BY <1>0, AppendOf
    <3>3. \A k \in 1 .. Len(s) : Len(p) + k \in 1 .. Len(p \o s)
      BY <1>0, <3>1
    <3>4. \A k \in 1 .. Len(p) : k \in 1 .. Len(p \o s)
      BY <1>0, <3>1
    <3> QED
      BY <1>0, <3>1, <3>2, <3>3, <3>4
  <2>5. /\ p \o Append(s, x) \in Paths /\ Len(p \o Append(s, x)) = Len(p) + Len(s) + 1
        /\ \A k \in 1 .. Len(p) : (p \o Append(s, x))[k] = p[k]
        /\ \A k \in 1 .. Len(s) + 1 : (p \o Append(s, x))[Len(p) + k] = Append(s, x)[k]
    <3>1. PICK a \in Paths : a = Append(s, x)
      BY <2>3
    <3>2. /\ p \o a \in Paths /\ Len(p \o a) = Len(p) + Len(a)
          /\ \A k \in 1 .. Len(p) : (p \o a)[k] = p[k]
          /\ \A k \in 1 .. Len(a) : (p \o a)[Len(p) + k] = a[k]
      BY ONLY a \in Paths, p \in Paths, JoinOf
    <3>3. Len(a) = Len(s) + 1
      BY <2>3, <3>1
    <3> QED
      BY <1>0, <3>1, <3>2, <3>3
  <2>6. ASSUME NEW k \in 1 .. Len(p) + Len(s) + 1
        PROVE  Append(p \o s, x)[k] = (p \o Append(s, x))[k]
    <3>1. CASE k \in 1 .. Len(p)
      BY <2>4, <2>5, <3>1
    <3>2. CASE k \notin 1 .. Len(p) /\ k # Len(p) + Len(s) + 1
      <4>1. PICK j \in 1 .. Len(s) : k = Len(p) + j
        <5>1. k - Len(p) \in 1 .. Len(s) /\ k = Len(p) + (k - Len(p))
          BY <1>0, <3>2
        <5> QED
          BY <5>1
      <4>2. j \in 1 .. Len(s) + 1
        BY <1>0
      <4> QED
        BY <2>3, <2>4, <2>5, <4>1, <4>2
    <3>3. CASE k = Len(p) + Len(s) + 1
      <4>1. Len(s) + 1 \in 1 .. Len(s) + 1 /\ Len(p) + (Len(s) + 1) = Len(p) + Len(s) + 1
        BY <1>0
      <4> QED
        BY <2>3, <2>4, <2>5, <3>3, <4>1
    <3> QED
      BY <3>1, <3>2, <3>3
  <2> QED
    BY <2>2, <2>4, <2>5, <2>6, SamePath
<1>2. CASE line.kind = "close" /\ s # <<>>
  <2>1. Len(s) > 0 /\ Len(p \o s) > 0 /\ p \o s # <<>>
    BY <1>0, <1>2, EmptyPath, JoinOf
  <2>2. After(line, p \o s) = Front(p \o s) /\ After(line, s) = Front(s)
    BY <1>2, <2>1 DEF After
  <2>3. Front(s) \in Paths /\ Len(Front(s)) = Len(s) - 1
        /\ \A k \in 1 .. Len(s) - 1 : Front(s)[k] = s[k]
    BY <1>2, FrontOf
  <2>4. /\ Len(p \o s) = Len(p) + Len(s)
        /\ (\A k \in 1 .. Len(p) : (p \o s)[k] = p[k])
        /\ (\A k \in 1 .. Len(s) : (p \o s)[Len(p) + k] = s[k])
    BY JoinOf
  <2>5. Front(p \o s) \in Paths /\ Len(Front(p \o s)) = Len(p) + Len(s) - 1
        /\ \A k \in 1 .. Len(p) + Len(s) - 1 : Front(p \o s)[k] = (p \o s)[k]
    <3>1. PICK q \in Paths : q = p \o s
      BY <1>0
    <3>2. /\ Front(q) \in Paths /\ Len(Front(q)) = Len(q) - 1
          /\ \A k \in 1 .. Len(q) - 1 : Front(q)[k] = q[k]
      <4>1. q # <<>>
        BY <2>1, <3>1
      <4> QED
        BY ONLY q \in Paths, <4>1, FrontOf
    <3> QED
      BY <1>0, <2>4, <3>1, <3>2
  <2>6. /\ p \o Front(s) \in Paths /\ Len(p \o Front(s)) = Len(p) + Len(s) - 1
        /\ \A k \in 1 .. Len(p) : (p \o Front(s))[k] = p[k]
        /\ \A k \in 1 .. Len(s) - 1 : (p \o Front(s))[Len(p) + k] = Front(s)[k]
    <3>1. PICK a \in Paths : a = Front(s)
      BY <2>3
    <3>2. /\ p \o a \in Paths /\ Len(p \o a) = Len(p) + Len(a)
          /\ \A k \in 1 .. Len(p) : (p \o a)[k] = p[k]
          /\ \A k \in 1 .. Len(a) : (p \o a)[Len(p) + k] = a[k]
      BY ONLY a \in Paths, p \in Paths, JoinOf
    <3>3. Len(a) = Len(s) - 1
      BY <2>3, <3>1
    <3> QED
      BY <1>0, <3>1, <3>2, <3>3
  <2>7. ASSUME NEW k \in 1 .. Len(p) + Len(s) - 1
        PROVE  Front(p \o s)[k] = (p \o Front(s))[k]
    <3>1. CASE k \in 1 .. Len(p)
      BY <2>4, <2>5, <2>6, <3>1
    <3>2. CASE k \notin 1 .. Len(p)
      <4>1. PICK j \in 1 .. Len(s) - 1 : k = Len(p) + j
        <5>1. k - Len(p) \in 1 .. Len(s) - 1 /\ k = Len(p) + (k - Len(p))
          BY <1>0, <3>2
        <5> QED
          BY <5>1
      <4>2. j \in 1 .. Len(s)
        BY <1>0
      <4> QED
        BY <2>3, <2>4, <2>5, <2>6, <4>1, <4>2
    <3> QED
      BY <3>1, <3>2
  <2> QED
    BY <2>2, <2>5, <2>6, <2>7, SamePath
<1>3. CASE line.kind = "close" /\ s = <<>>
  <2>1. p = <<>> /\ <<>> \o s = s
    BY <1>3, ConcatEmptySeq DEF Paths
  <2>2. <<>> \o After(line, s) = After(line, s)
    BY AfterIsAPath, ConcatEmptySeq DEF Paths
  <2> QED
    BY <2>1, <2>2
<1>4. CASE line.kind \notin {"open", "close"}
  BY <1>4 DEF After
<1> QED
  BY <1>1, <1>2, <1>3, <1>4

(* A text whose definitions have names; its stacks are paths.              *)
Text(t) == Len(t) \in Nat /\ \A i \in 1 .. Len(t) : Named(t[i])
LEMMA StacksArePaths ==
  ASSUME NEW t, Text(t)
  PROVE  \A i \in 0 .. Len(t) : Opened(t)[i] \in Paths
<1> DEFINE T == {i \in Nat : i <= Len(t) => Opened(t)[i] \in Paths}
<1>0. Len(t) \in Nat
  BY DEF Text
<1>1. 0 \in T
  BY <1>0, StackAt, EmptyPath
<1>2. ASSUME NEW i \in Nat, i \in T PROVE i + 1 \in T
  <2> SUFFICES ASSUME i + 1 <= Len(t) PROVE Opened(t)[i + 1] \in Paths
    OBVIOUS
  <2>1. i + 1 \in 1 .. Len(t) /\ i <= Len(t) /\ (i + 1) - 1 = i
    BY <1>0
  <2>2. Opened(t)[i + 1] = After(t[i + 1], Opened(t)[i])
    BY <1>0, <2>1, StackAt
  <2>3. Named(t[i + 1]) /\ Opened(t)[i] \in Paths
    BY <1>2, <2>1 DEF Text
  <2> QED
    BY <2>2, <2>3, AfterIsAPath
<1> HIDE DEF T
<1>3. \A i \in Nat : i \in T
  BY <1>1, <1>2, Counting
<1> QED
  BY <1>0, <1>3 DEF T

(* Equal lines open and close alike, below a path too.                     *)
Alike(x, y) == x.kind = y.kind /\ (x.kind = "open" => x.words[1].val = y.words[1].val)
RunsBelow(t, a, u, b, n, p) ==
  /\ Text(t) /\ Text(u) /\ a \in Nat /\ b \in Nat /\ n \in Nat /\ p \in Paths
  /\ a + n <= Len(t) /\ b + n <= Len(u)
  /\ Opened(t)[a] = p \o Opened(u)[b]
  /\ \A k \in 1 .. n :
       /\ Alike(t[a + k], u[b + k])
       /\ u[b + k].kind = "close" => p = <<>> \/ Opened(u)[b + k - 1] # <<>>
StacksBelow(t, a, u, b, n, p) == \A k \in 0 .. n : Opened(t)[a + k] = p \o Opened(u)[b + k]
LEMMA Follows ==
  ASSUME NEW t, NEW a, NEW u, NEW b, NEW n, NEW p, RunsBelow(t, a, u, b, n, p)
  PROVE  StacksBelow(t, a, u, b, n, p)
<1> DEFINE T == {k \in Nat : k <= n => Opened(t)[a + k] = p \o Opened(u)[b + k]}
<1>0. /\ Len(t) \in Nat /\ Len(u) \in Nat
      /\ Text(t) /\ Text(u) /\ a \in Nat /\ b \in Nat /\ n \in Nat /\ p \in Paths
      /\ a + n <= Len(t) /\ b + n <= Len(u)
  BY DEF RunsBelow, Text
<1>1. 0 \in T
  <2>1. Opened(t)[a] = p \o Opened(u)[b]
    BY DEF RunsBelow
  <2>2. a + 0 = a /\ b + 0 = b
    BY <1>0
  <2>3. Opened(t)[a + 0] = p \o Opened(u)[b + 0]
    BY <2>1, <2>2
  <2> QED
    BY <2>3
<1>2. ASSUME NEW k \in Nat, k \in T PROVE k + 1 \in T
  <2> SUFFICES ASSUME k + 1 <= n
               PROVE  Opened(t)[a + (k + 1)] = p \o Opened(u)[b + (k + 1)]
    OBVIOUS
  <2>1. /\ k + 1 \in 1 .. n /\ k <= n
        /\ a + (k + 1) \in 1 .. Len(t) /\ a + (k + 1) - 1 = a + k
        /\ b + (k + 1) \in 1 .. Len(u) /\ b + (k + 1) - 1 = b + k
        /\ a + k \in 0 .. Len(t) /\ b + k \in 0 .. Len(u)
    BY <1>0
  <2> DEFINE x == t[a + (k + 1)]
             y == u[b + (k + 1)]
             v == Opened(u)[b + k]
  <2>2. /\ Opened(t)[a + (k + 1)] = After(x, Opened(t)[a + k])
        /\ Opened(u)[b + (k + 1)] = After(y, v)
    BY <1>0, <2>1, StackAt
  <2>3. Opened(t)[a + k] = p \o v
    BY <1>2, <2>1
  <2>4. Alike(x, y) /\ (y.kind = "close" => p = <<>> \/ v # <<>>)
    BY <2>1 DEF RunsBelow
  <2>5. v \in Paths
    BY <1>0, <2>1, StacksArePaths
  <2>6. Named(y)
    BY <1>0, <2>1 DEF Text
  <2> HIDE DEF x, y, v
  <2>7. After(x, p \o v) = After(y, p \o v)
    BY <2>4 DEF Alike, After
  <2>8. After(y, p \o v) = p \o After(y, v)
    BY <1>0, <2>4, <2>5, <2>6, AfterBelow
  <2> QED
    BY <2>2, <2>3, <2>7, <2>8
<1> HIDE DEF T
<1>3. \A k \in Nat : k \in T
  BY <1>1, <1>2, Counting
<1>4. ASSUME NEW k \in 0 .. n PROVE Opened(t)[a + k] = p \o Opened(u)[b + k]
  <2>1. k \in Nat /\ k <= n
    OBVIOUS
  <2>2. k \in T
    BY <1>3, <2>1
  <2> QED
    BY <2>1, <2>2 DEF T
<1> QED
  BY <1>4 DEF StacksBelow

(* With no path in front.                                                  *)
RunsAlike(t, a, u, b, n) ==
  /\ Text(t) /\ Text(u) /\ a \in Nat /\ b \in Nat /\ n \in Nat
  /\ a + n <= Len(t) /\ b + n <= Len(u)
  /\ Opened(t)[a] = Opened(u)[b]
  /\ \A k \in 1 .. n : Alike(t[a + k], u[b + k])
SameStacks(t, a, u, b, n) == \A k \in 0 .. n : Opened(t)[a + k] = Opened(u)[b + k]
LEMMA FollowsAtTop ==
  ASSUME NEW t, NEW a, NEW u, NEW b, NEW n, RunsAlike(t, a, u, b, n)
  PROVE  SameStacks(t, a, u, b, n)
<1>01. /\ Text(t) /\ Text(u) /\ a \in Nat /\ b \in Nat /\ n \in Nat
       /\ a + n <= Len(t) /\ b + n <= Len(u)
       /\ Opened(t)[a] = Opened(u)[b]
       /\ \A k \in 1 .. n : Alike(t[a + k], u[b + k])
  BY DEF RunsAlike
<1>0. Len(u) \in Nat /\ <<>> \in Paths
  BY <1>01, EmptyPath DEF Text
<1>1. \A k \in 0 .. n : Opened(u)[b + k] \in Paths /\ <<>> \o Opened(u)[b + k] = Opened(u)[b + k]
  <2> SUFFICES ASSUME NEW k \in 0 .. n
               PROVE  /\ Opened(u)[b + k] \in Paths
                      /\ <<>> \o Opened(u)[b + k] = Opened(u)[b + k]
    OBVIOUS
  <2>1. b + k \in 0 .. Len(u)
    BY <1>0, <1>01
  <2>2. Opened(u)[b + k] \in Paths
    BY <1>01, <2>1, StacksArePaths
  <2> QED
    BY <2>2, ConcatEmptySeq DEF Paths
<1>2. Opened(t)[a] = <<>> \o Opened(u)[b]
  <2>1. 0 \in 0 .. n /\ b + 0 = b
    BY <1>01
  <2> QED
    BY <1>01, <1>1, <2>1
<1>3. \A k \in 0 .. n : Opened(t)[a + k] = <<>> \o Opened(u)[b + k]
  <2>1. PICK p \in Paths : p = <<>>
    BY <1>0, <1>01
  <2>2. RunsBelow(t, a, u, b, n, p)
    BY <1>01, <1>2, <2>1 DEF RunsBelow
  <2>3. \A k \in 0 .. n : Opened(t)[a + k] = p \o Opened(u)[b + k]
    <3>1. StacksBelow(t, a, u, b, n, p)
      BY <2>2, Follows
    <3> QED
      BY <3>1 DEF StacksBelow
  <2> QED
    BY <2>1, <2>3
<1> QED
  BY <1>1, <1>3 DEF SameStacks

(* What lies within a path, point by point.                                *)
Within(p, s) == Len(p) <= Len(s) /\ \A k \in 1 .. Len(p) : p[k] = s[k]
LEMMA PrefixMeans ==
  ASSUME NEW p \in Paths, NEW s \in Paths
  PROVE  IsPrefix(p, s) <=> Within(p, s)
<1>0. Len(p) \in Nat /\ Len(s) \in Nat
  BY EmptyPath
<1> SUFFICES ASSUME Len(p) <= Len(s)
             PROVE  SubSeq(p, 1, Len(p)) = SubSeq(s, 1, Len(p)) <=> \A k \in 1 .. Len(p) : p[k] = s[k]
  BY DEF IsPrefix, Within
<1>1. \A k \in 1 .. Len(p) : p[k] \in STRING /\ s[k] \in STRING
  <2>1. \A k \in 1 .. Len(p) : k \in 1 .. Len(s)
    BY <1>0
  <2> QED
    BY <2>1, ElementOfSeq DEF Paths
<1>2. PICK n \in Int : n = Len(p)
  BY <1>0
<1>3. SubSeq(p, 1, n) = p
  BY <1>2, SubSeqFull DEF Paths
<1>4. /\ SubSeq(s, 1, n) \in Seq(STRING)
      /\ Len(SubSeq(s, 1, n)) = IF 1 <= n THEN n - 1 + 1 ELSE 0
      /\ \A i \in 1 .. n - 1 + 1 : SubSeq(s, 1, n)[i] = s[1 + i - 1]
  <2>1. \A i \in 1 .. n : s[i] \in STRING
    BY <1>1, <1>2
  <2> QED
    BY <2>1, SubSeqProperties
<1>5. PICK q \in Paths : q = SubSeq(s, 1, n)
  BY <1>4 DEF Paths
<1>6. Len(q) = Len(p) /\ \A k \in 1 .. Len(p) : q[k] = s[k]
  BY <1>0, <1>2, <1>4, <1>5
<1>7. p = q <=> \A k \in 1 .. Len(p) : p[k] = s[k]
  BY <1>6, SamePath
<1> QED
  BY <1>2, <1>3, <1>5, <1>7

LEMMA StaysWithin ==
  ASSUME NEW p \in Paths, NEW s \in Paths, NEW line, Named(line), Within(p, s),
         ~ (line.kind = "close" /\ s = p)
  PROVE  Within(p, After(line, s))
<1>0. Len(p) \in Nat /\ Len(s) \in Nat
  BY EmptyPath
<1>1. CASE line.kind = "open"
  <2>1. PICK x \in STRING : x = line.words[1].val
    BY <1>1 DEF Named
  <2>2. PICK q \in Paths : q = Append(s, x)
    BY AppendOf
  <2>3. Len(q) = Len(s) + 1 /\ \A k \in 1 .. Len(s) : q[k] = s[k]
    BY <2>2, AppendOf
  <2>4. After(line, s) = q
    BY <1>1, <2>1, <2>2 DEF After
  <2> QED
    BY <1>0, <2>3, <2>4 DEF Within
<1>2. CASE line.kind = "close" /\ s # <<>>
  <2>1. PICK q \in Paths : q = Front(s)
    BY <1>2, FrontOf
  <2>2. Len(q) = Len(s) - 1 /\ \A k \in 1 .. Len(s) - 1 : q[k] = s[k]
    BY <1>2, <2>1, FrontOf
  <2>3. Len(p) # Len(s)
    BY <1>2, SamePath DEF Within
  <2>4. Len(p) <= Len(s) - 1
    BY <1>0, <2>3 DEF Within
  <2>5. After(line, s) = q
    BY <1>2, <2>1 DEF After
  <2>6. ASSUME NEW k \in 1 .. Len(p) PROVE p[k] = q[k]
    BY <1>0, <2>2, <2>4 DEF Within
  <2> QED
    BY <2>2, <2>4, <2>5, <2>6 DEF Within
<1>3. CASE line.kind # "open" /\ ~ (line.kind = "close" /\ s # <<>>)
  BY <1>3 DEF After
<1> QED
  BY <1>1, <1>2, <1>3

LEMMA EntersAt ==
  ASSUME NEW p \in Paths, NEW s \in Paths, NEW line, Named(line),
         ~ Within(p, s), Within(p, After(line, s))
  PROVE  line.kind = "open" /\ After(line, s) = p
<1>0. Len(p) \in Nat /\ Len(s) \in Nat
  BY EmptyPath
<1>1. CASE line.kind = "open"
  <2>1. PICK x \in STRING : x = line.words[1].val
    BY <1>1 DEF Named
  <2>2. PICK q \in Paths : q = Append(s, x)
    BY AppendOf
  <2>3. Len(q) = Len(s) + 1 /\ \A k \in 1 .. Len(s) : q[k] = s[k]
    BY <2>2, AppendOf
  <2>4. After(line, s) = q
    BY <1>1, <2>1, <2>2 DEF After
  <2>5. Len(p) <= Len(q) /\ \A k \in 1 .. Len(p) : p[k] = q[k]
    BY <2>4 DEF Within
  <2>6. Len(p) > Len(s)
    <3> SUFFICES ASSUME Len(p) <= Len(s) PROVE FALSE
      BY <1>0
    <3>1. \A k \in 1 .. Len(p) : p[k] = s[k]
      BY <1>0, <2>3, <2>5
    <3> QED
      BY <3>1 DEF Within
  <2>7. Len(p) = Len(q)
    BY <1>0, <2>3, <2>5, <2>6
  <2> QED
    BY <1>1, <2>4, <2>5, <2>7, SamePath
<1>2. CASE line.kind = "close" /\ s # <<>>
  <2>1. PICK q \in Paths : q = Front(s)
    BY <1>2, FrontOf
  <2>2. Len(q) = Len(s) - 1 /\ \A k \in 1 .. Len(s) - 1 : q[k] = s[k]
    BY <1>2, <2>1, FrontOf
  <2>3. After(line, s) = q
    BY <1>2, <2>1 DEF After
  <2>4. Len(p) <= Len(q) /\ \A k \in 1 .. Len(p) : p[k] = q[k]
    BY <2>3 DEF Within
  <2>5. \A k \in 1 .. Len(p) : p[k] = s[k]
    BY <1>0, <2>2, <2>4
  <2> QED
    BY <1>0, <2>2, <2>4, <2>5 DEF Within
<1>3. CASE line.kind # "open" /\ ~ (line.kind = "close" /\ s # <<>>)
  BY <1>3 DEF After
<1> QED
  BY <1>1, <1>2, <1>3

LEMMA FrontIsOutside ==
  ASSUME NEW p \in Paths, p # <<>>
  PROVE  ~ Within(p, Front(p))
BY FrontOf DEF Within

(* A subcircuit is the lines from its opening to its end.                  *)
IsSpan(t, p, s, e) ==
  /\ s \in 1 .. Len(t) /\ t[s].kind = "open" /\ Opened(t)[s] = p
  /\ e \in s + 1 .. Len(t) /\ t[e].kind = "close"
  /\ Opened(t)[e] = Front(p) /\ Opened(t)[e - 1] = p
  /\ \A j \in s .. e - 1 : Within(p, Opened(t)[j])
LEMMA EveryOpenIsClosed ==
  ASSUME NEW t, Text(t), Opened(t)[Len(t)] = <<>>, NEW p \in Paths, p # <<>>,
         NEW s \in 1 .. Len(t), t[s].kind = "open", Opened(t)[s] = p
  PROVE  \E e \in Nat : IsSpan(t, p, s, e)
<1>0. Len(t) \in Nat /\ Len(p) \in Nat /\ Len(p) > 0 /\ Len(<<>>) = 0
  BY EmptyPath DEF Text
<1> DEFINE U == {j \in Nat : j \in s .. Len(t) /\ ~ Within(p, Opened(t)[j])}
<1>1. Len(t) \in U
  <2>1. ~ Within(p, <<>>)
    BY <1>0 DEF Within
  <2> QED
    BY <1>0, <2>1
<1>2. PICK e \in U : \A j \in U : e <= j
  BY <1>1, LeastNatural
<1>3. e \in Nat /\ e \in s .. Len(t) /\ ~ Within(p, Opened(t)[e])
  OBVIOUS
<1>4. \A j \in s .. e - 1 : Within(p, Opened(t)[j])
  <2> SUFFICES ASSUME NEW j \in s .. e - 1, ~ Within(p, Opened(t)[j]) PROVE FALSE
    OBVIOUS
  <2>1. j \in U
    BY <1>0, <1>3
  <2> QED
    BY <1>2, <1>3, <2>1
<1> HIDE DEF U
<1>5. Within(p, p)
  BY <1>0 DEF Within
<1>6. e # s
  BY <1>3, <1>5
<1>7. e \in s + 1 .. Len(t) /\ e - 1 \in s .. e - 1 /\ e \in 1 .. Len(t) /\ e - 1 \in 0 .. Len(t)
  BY <1>0, <1>3, <1>6
<1>8. Opened(t)[e] = After(t[e], Opened(t)[e - 1]) /\ Opened(t)[e - 1] \in Paths /\ Named(t[e])
  BY <1>0, <1>7, StackAt, StacksArePaths DEF Text
<1>9. t[e].kind = "close" /\ Opened(t)[e - 1] = p
  BY <1>3, <1>4, <1>7, <1>8, StaysWithin
<1>10. Opened(t)[e] = Front(p)
  BY <1>8, <1>9 DEF After
<1> QED
  BY <1>3, <1>4, <1>7, <1>9, <1>10 DEF IsSpan

(* Nothing else is within its path, where no two definitions have one.     *)
Single(t) == \A i, j \in Opens(t) : Opened(t)[i] = Opened(t)[j] => i = j
LEMMA OutsideTheSpan ==
  ASSUME NEW t, Text(t), DOMAIN t = 1 .. Len(t), Single(t), NEW p \in Paths, p # <<>>,
         NEW s, NEW e, IsSpan(t, p, s, e)
  PROVE  \A j \in 0 .. Len(t) : Within(p, Opened(t)[j]) => s <= j /\ j < e
<1> DEFINE T == {j \in Nat : j <= Len(t) /\ Within(p, Opened(t)[j]) => s <= j /\ j < e}
<1>0. /\ Len(t) \in Nat /\ s \in 1 .. Len(t) /\ e \in s + 1 .. Len(t)
      /\ Opened(t)[s] = p /\ Opened(t)[e] = Front(p) /\ s \in Opens(t)
  BY DEF Text, IsSpan, Opens
<1>1. 0 \in T
  <2>1. Len(p) \in Nat /\ Len(p) > 0 /\ Len(<<>>) = 0
    BY EmptyPath
  <2>2. ~ Within(p, <<>>)
    BY <2>1 DEF Within
  <2> QED
    BY <1>0, <2>2, StackAt
<1>2. ASSUME NEW j \in Nat, j \in T PROVE j + 1 \in T
  <2> SUFFICES ASSUME j + 1 <= Len(t), Within(p, Opened(t)[j + 1]) PROVE s <= j + 1 /\ j + 1 < e
    OBVIOUS
  <2>1. j + 1 \in 1 .. Len(t) /\ j <= Len(t) /\ (j + 1) - 1 = j /\ j \in 0 .. Len(t)
    BY <1>0
  <2>2. Opened(t)[j + 1] = After(t[j + 1], Opened(t)[j]) /\ Opened(t)[j] \in Paths
        /\ Named(t[j + 1])
    BY <1>0, <2>1, StackAt, StacksArePaths DEF Text
  <2>3. CASE Within(p, Opened(t)[j])
    <3>1. s <= j /\ j < e
      BY <1>2, <2>1, <2>3
    <3>2. j + 1 # e
      BY <1>0, FrontIsOutside
    <3> QED
      BY <1>0, <3>1, <3>2
  <2>4. CASE ~ Within(p, Opened(t)[j])
    <3>1. t[j + 1].kind = "open" /\ Opened(t)[j + 1] = p
      BY <2>2, <2>4, EntersAt
    <3>2. j + 1 \in Opens(t)
      BY <2>1, <3>1 DEF Opens
    <3>3. j + 1 = s
      BY <1>0, <3>1, <3>2 DEF Single
    <3> QED
      BY <1>0, <3>3
  <2> QED
    BY <2>3, <2>4
<1> HIDE DEF T
<1>3. \A j \in Nat : j \in T
  BY <1>1, <1>2, Counting
<1>4. ASSUME NEW j \in 0 .. Len(t), Within(p, Opened(t)[j]) PROVE s <= j /\ j < e
  <2>1. j \in Nat /\ j <= Len(t) /\ j \in T
    BY <1>0, <1>3
  <2> QED
    BY <1>4, <2>1 DEF T
<1> QED
  BY <1>4

(* The span that the code finds.                                           *)
LEMMA SpanIs ==
  ASSUME NEW t, Text(t), DOMAIN t = 1 .. Len(t), Single(t), NEW p \in Paths, p # <<>>,
         NEW s, NEW e, IsSpan(t, p, s, e)
  PROVE  Span(t, p) = <<s, e>>
<1>0. /\ Len(t) \in Nat /\ s \in 1 .. Len(t) /\ e \in s + 1 .. Len(t) /\ t[e].kind = "close"
      /\ Opened(t)[s] = p /\ Opened(t)[e] = Front(p) /\ s \in Opens(t)
      /\ \A j \in s .. e - 1 : Within(p, Opened(t)[j])
  BY DEF Text, IsSpan, Opens
<1>1. {i \in Opens(t) : Opened(t)[i] = p} = {s}
  BY <1>0 DEF Single
<1>2. Min({s}) = s
  <2>1. Min({s}) = CHOOSE x \in {s} : \A y \in {s} : x =< y
    BY DEF Min
  <2>2. \E x \in {s} : \A y \in {s} : x =< y
    BY <1>0
  <2> QED
    BY <2>1, <2>2
<1> DEFINE shut == {j \in s + 1 .. Len(t) : t[j].kind = "close" /\ Opened(t)[j] = Front(p)}
<1>3. e \in shut
  BY <1>0
<1>4. \A j \in shut : e <= j
  <2> SUFFICES ASSUME NEW j \in shut, ~ (e <= j) PROVE FALSE
    OBVIOUS
  <2>1. j \in s .. e - 1
    BY <1>0
  <2> QED
    BY <1>0, <2>1, FrontIsOutside
<1>5. \A x \in shut : x \in Int
  BY <1>0
<1>6. Span(t, p) = <<s, Min(shut)>>
  BY <1>1, <1>2 DEF Span
<1> HIDE DEF shut
<1>7. Min(shut) = e
  <2>1. Min(shut) = CHOOSE x \in shut : \A y \in shut : x =< y
    BY DEF Min
  <2>2. \A x \in shut : (\A y \in shut : x =< y) => x = e
    BY <1>3, <1>4, <1>5
  <2> QED
    BY <1>3, <1>4, <2>1, <2>2
<1> QED
  BY <1>6, <1>7

(* What a component says is on its own lines.                              *)
Follower(line) == line.kind \in {"more", "comment"}
Offsets(t, i) ==
  {d \in 0 .. Len(t) - i : d = 0 \/ (t[i + d].kind = "more" /\ \A k \in 1 .. d : Follower(t[i + k]))}
LEMMA OwnLines ==
  ASSUME NEW t, Len(t) \in Nat, NEW i \in 1 .. Len(t)
  PROVE  \A j \in Int : j \in Physical(t, i) <=> j - i \in Offsets(t, i)
<1> SUFFICES ASSUME NEW j \in Int PROVE j \in Physical(t, i) <=> j - i \in Offsets(t, i)
  OBVIOUS
<1>1. CASE j = i
  <2>1. j - i = 0 /\ 0 \in 0 .. Len(t) - i
    BY <1>1
  <2>2. i \in Physical(t, i)
    BY DEF Physical
  <2>3. 0 \in Offsets(t, i)
    BY <2>1 DEF Offsets
  <2> QED
    BY <1>1, <2>1, <2>2, <2>3
<1>2. CASE j # i
  <2>1. j - i # 0 /\ i + (j - i) = j /\ (j - i \in 0 .. Len(t) - i <=> j \in i + 1 .. Len(t))
    BY <1>2
  <2>2. ASSUME j \in i + 1 .. Len(t)
        PROVE  (\A k \in i + 1 .. j : Follower(t[k])) <=> (\A k \in 1 .. j - i : Follower(t[i + k]))
    <3>1. ASSUME \A k \in i + 1 .. j : Follower(t[k]), NEW k \in 1 .. j - i PROVE Follower(t[i + k])
      <4>1. i + k \in i + 1 .. j
        BY <2>2
      <4> QED
        BY <3>1, <4>1
    <3>2. ASSUME \A k \in 1 .. j - i : Follower(t[i + k]), NEW k \in i + 1 .. j PROVE Follower(t[k])
      <4>1. k - i \in 1 .. j - i /\ i + (k - i) = k
        BY <2>2
      <4> QED
        BY <3>2, <4>1
    <3> QED
      BY <3>1, <3>2
  <2>3. j \in Physical(t, i) <=> j \in i + 1 .. Len(t) /\ t[j].kind = "more"
                                 /\ \A k \in i + 1 .. j : Follower(t[k])
    BY <1>2 DEF Physical, Follower
  <2>4. j - i \in Offsets(t, i) <=> j \in i + 1 .. Len(t) /\ t[j].kind = "more"
                                    /\ \A k \in 1 .. j - i : Follower(t[i + k])
    BY <2>1 DEF Offsets
  <2> QED
    BY <2>2, <2>3, <2>4
<1> QED
  BY <1>1, <1>2

Placed(t, i) == (UNION {{d} \X DOMAIN t[i + d].words : d \in Offsets(t, i)}) \ {<<0, 1>>}
LEMMA WordsAre ==
  ASSUME NEW t, Len(t) \in Nat, NEW i \in 1 .. Len(t)
  PROVE  Words(t, i) = [q \in Placed(t, i) |-> t[i + q[1]].words[q[2]]]
<1>1. UNION {{j - i} \X DOMAIN t[j].words : j \in Physical(t, i)}
        = UNION {{d} \X DOMAIN t[i + d].words : d \in Offsets(t, i)}
  <2>1. ASSUME NEW j \in Physical(t, i), NEW q \in {j - i} \X DOMAIN t[j].words
        PROVE  \E d \in Offsets(t, i) : q \in {d} \X DOMAIN t[i + d].words
    <3>1. j \in Int
      BY DEF Physical
    <3>2. j - i \in Offsets(t, i) /\ i + (j - i) = j
      BY <3>1, OwnLines
    <3> QED
      BY <2>1, <3>2
  <2>2. ASSUME NEW d \in Offsets(t, i), NEW q \in {d} \X DOMAIN t[i + d].words
        PROVE  \E j \in Physical(t, i) : q \in {j - i} \X DOMAIN t[j].words
    <3>1. d \in Int
      BY DEF Offsets
    <3>2. i + d \in Int /\ (i + d) - i = d
      BY <3>1
    <3>3. i + d \in Physical(t, i)
      BY <3>2, OwnLines
    <3> QED
      BY <2>2, <3>2, <3>3
  <2> QED
    BY <2>1, <2>2
<1> QED
  BY <1>1 DEF Words, Placed

Ends(t, k) == k = Len(t) \/ ~ Follower(t[k + 1])
SameRun(t, i, u, j, m) ==
  /\ Len(t) \in Nat /\ Len(u) \in Nat /\ m \in Nat
  /\ i \in 1 .. Len(t) /\ j \in 1 .. Len(u) /\ i + m <= Len(t) /\ j + m <= Len(u)
  /\ \A k \in 0 .. m : t[i + k] = u[j + k]
  /\ Ends(t, i + m) /\ Ends(u, j + m)
LEMMA RunEnds ==
  ASSUME NEW t, Len(t) \in Nat, NEW i \in 1 .. Len(t), NEW m \in Nat, i + m <= Len(t), Ends(t, i + m)
  PROVE  \A d \in Offsets(t, i) : d \in 0 .. m
<1> SUFFICES ASSUME NEW d \in Offsets(t, i), d > m PROVE FALSE
  <2>1. \A d \in Offsets(t, i) : d \in Int /\ d >= 0
    BY DEF Offsets
  <2> QED
    BY <2>1
<1>1. d \in 0 .. Len(t) - i /\ m + 1 \in 1 .. d /\ i + (m + 1) = (i + m) + 1 /\ i + m # Len(t)
  BY DEF Offsets
<1>2. d # 0 /\ \A k \in 1 .. d : Follower(t[i + k])
  BY <1>1 DEF Offsets
<1> QED
  BY <1>1, <1>2 DEF Ends
LEMMA SameWords ==
  ASSUME NEW t, NEW i, NEW u, NEW j, NEW m, SameRun(t, i, u, j, m)
  PROVE  Words(t, i) = Words(u, j) /\ t[i] = u[j]
<1>0. /\ Len(t) \in Nat /\ Len(u) \in Nat /\ m \in Nat
      /\ i \in 1 .. Len(t) /\ j \in 1 .. Len(u) /\ i + m <= Len(t) /\ j + m <= Len(u)
      /\ \A k \in 0 .. m : t[i + k] = u[j + k]
      /\ Ends(t, i + m) /\ Ends(u, j + m)
  BY DEF SameRun
<1>1. (\A d \in Offsets(t, i) : d \in 0 .. m) /\ (\A d \in Offsets(u, j) : d \in 0 .. m)
  BY <1>0, RunEnds
<1>2. \A d \in 0 .. m : d \in Offsets(t, i) <=> d \in Offsets(u, j)
  <2> SUFFICES ASSUME NEW d \in 0 .. m PROVE d \in Offsets(t, i) <=> d \in Offsets(u, j)
    OBVIOUS
  <2>1. d \in 0 .. Len(t) - i /\ d \in 0 .. Len(u) - j /\ t[i + d] = u[j + d]
    BY <1>0
  <2>2. \A k \in 1 .. d : t[i + k] = u[j + k]
    BY <1>0
  <2> QED
    BY <2>1, <2>2 DEF Offsets
<1>3. Offsets(t, i) = Offsets(u, j)
  BY <1>1, <1>2
<1>4. \A d \in Offsets(t, i) : t[i + d] = u[j + d]
  BY <1>0, <1>1
<1>5. Placed(t, i) = Placed(u, j)
  BY <1>3, <1>4 DEF Placed
<1>6. \A q \in Placed(t, i) : t[i + q[1]].words[q[2]] = u[j + q[1]].words[q[2]]
  BY <1>4 DEF Placed
<1>7. t[i] = u[j]
  <2>1. 0 \in 0 .. m /\ i + 0 = i /\ j + 0 = j
    BY <1>0
  <2> QED
    BY <1>0, <2>1
<1>8. Words(t, i) = [q \in Placed(t, i) |-> t[i + q[1]].words[q[2]]]
  BY <1>0, WordsAre
<1>9. Words(u, j) = [q \in Placed(u, j) |-> u[j + q[1]].words[q[2]]]
  BY <1>0, WordsAre
<1> QED
  BY <1>5, <1>6, <1>7, <1>8, <1>9

(* What a well-formed text is.                                             *)
LEMMA WellFormedIs ==
  ASSUME NEW t, WellFormed(t)
  PROVE  /\ t \in Seq(Lines) /\ Len(t) \in Nat /\ DOMAIN t = 1 .. Len(t) /\ Text(t) /\ Single(t)
         /\ Opened(t)[Len(t)] = <<>>
         /\ \A i \in 1 .. Len(t) : t[i] \in Lines /\ t[i].kind \in Kinds /\ t[i].words \in LineWords
<1>1. t \in Seq(Lines) /\ Len(t) \in Nat /\ DOMAIN t = 1 .. Len(t)
  BY LenProperties DEF WellFormed
<1>2. \A i \in 1 .. Len(t) : t[i] \in Lines
  BY <1>1, ElementOfSeq
<1>3. \A i \in 1 .. Len(t) : t[i].kind \in Kinds /\ t[i].words \in LineWords
  BY <1>2 DEF Lines, LineWords, Kinds
<1>4. ASSUME NEW i \in 1 .. Len(t), t[i].kind = "open" PROVE t[i].words[1].val \in STRING
  <2>1. t[i].words # <<>>
    BY <1>1, <1>4 DEF WellFormed, Opens
  <2>2. PICK ws \in LineWords : ws = t[i].words
    BY <1>3
  <2>3. Len(ws) \in Nat \ {0}
    BY <2>1, <2>2, EmptySeq DEF LineWords
  <2>4. 1 \in 1 .. Len(ws)
    BY <2>3
  <2>5. ws[1] \in [key : STRING \cup {None}, val : STRING]
    BY <2>4, ElementOfSeq DEF LineWords
  <2> QED
    BY <2>2, <2>5
<1>5. Text(t)
  BY <1>1, <1>4 DEF Text, Named
<1>6. Single(t) /\ Opened(t)[Len(t)] = <<>>
  BY DEF WellFormed, Single
<1> QED
  BY <1>1, <1>2, <1>3, <1>5, <1>6

(* A swap keeps the lines up to the opening and from the end on.           *)
Joined(t, s, e, w, n) ==
  /\ n \in Seq(Lines) /\ Len(n) \in Nat /\ DOMAIN n = 1 .. Len(n)
  /\ Len(n) = s + Len(w) + (Len(t) - e) + 1
  /\ \A k \in 1 .. s : n[k] = t[k]
  /\ \A k \in 1 .. Len(w) : n[s + k] = w[k]
  /\ \A k \in 0 .. Len(t) - e : n[s + Len(w) + 1 + k] = t[e + k]
LEMMA SwapLines ==
  ASSUME NEW t \in Seq(Lines), NEW w \in Seq(Lines), NEW s \in 1 .. Len(t), NEW e \in s + 1 .. Len(t)
  PROVE  Joined(t, s, e, w, SubSeq(t, 1, s) \o w \o SubSeq(t, e, Len(t)))
<1>0. Len(t) \in Nat /\ Len(w) \in Nat /\ s \in Int /\ e \in Int /\ \A i \in 1 .. Len(t) : t[i] \in Lines
  BY LenProperties, ElementOfSeq
<1>1. PICK l \in Int : l = Len(t)
  BY <1>0
<1>2. PICK a : a = SubSeq(t, 1, s)
  OBVIOUS
<1>3. a \in Seq(Lines) /\ Len(a) = s /\ \A k \in 1 .. s : a[k] = t[k]
  <2>1. \A i \in 1 .. s : t[i] \in Lines
    BY <1>0
  <2>2. /\ SubSeq(t, 1, s) \in Seq(Lines)
        /\ Len(SubSeq(t, 1, s)) = IF 1 <= s THEN s - 1 + 1 ELSE 0
        /\ \A i \in 1 .. s - 1 + 1 : SubSeq(t, 1, s)[i] = t[1 + i - 1]
    BY <1>0, <2>1, SubSeqProperties
  <2> QED
    BY <1>0, <1>2, <2>2
<1>4. PICK c : c = SubSeq(t, e, l)
  OBVIOUS
<1>5. c \in Seq(Lines) /\ Len(c) = l - e + 1 /\ \A k \in 1 .. l - e + 1 : c[k] = t[e + k - 1]
  <2>1. \A i \in e .. l : t[i] \in Lines
    BY <1>0, <1>1
  <2>2. /\ SubSeq(t, e, l) \in Seq(Lines)
        /\ Len(SubSeq(t, e, l)) = IF e <= l THEN l - e + 1 ELSE 0
        /\ \A i \in 1 .. l - e + 1 : SubSeq(t, e, l)[i] = t[e + i - 1]
    BY <1>0, <1>1, <2>1, SubSeqProperties
  <2> QED
    BY <1>0, <1>1, <1>4, <2>2
<1>6. PICK d : d = a \o w
  OBVIOUS
<1>7. d \in Seq(Lines) /\ Len(d) = s + Len(w)
      /\ \A i \in 1 .. s + Len(w) : d[i] = IF i <= s THEN a[i] ELSE w[i - s]
  BY <1>3, <1>6, ConcatProperties
<1>8. PICK n : n = d \o c
  OBVIOUS
<1>9. n \in Seq(Lines) /\ Len(n) = s + Len(w) + (l - e + 1)
      /\ \A i \in 1 .. s + Len(w) + (l - e + 1) :
           n[i] = IF i <= s + Len(w) THEN d[i] ELSE c[i - (s + Len(w))]
  <2>1. /\ d \o c \in Seq(Lines) /\ Len(d \o c) = Len(d) + Len(c)
        /\ \A i \in 1 .. Len(d) + Len(c) : (d \o c)[i] = IF i <= Len(d) THEN d[i] ELSE c[i - Len(d)]
    BY <1>5, <1>7, ConcatProperties
  <2> QED
    BY <1>5, <1>7, <1>8, <2>1
<1>10. Len(n) \in Nat /\ DOMAIN n = 1 .. Len(n)
  BY <1>9, LenProperties
<1>11. ASSUME NEW k \in 1 .. s PROVE n[k] = t[k]
  <2>1. k \in 1 .. s + Len(w) + (l - e + 1) /\ k <= s + Len(w) /\ k <= s /\ k \in 1 .. s + Len(w)
    BY <1>0, <1>1
  <2> QED
    BY <1>3, <1>7, <1>9, <2>1
<1>12. ASSUME NEW k \in 1 .. Len(w) PROVE n[s + k] = w[k]
  <2>1. /\ s + k \in 1 .. s + Len(w) + (l - e + 1) /\ s + k <= s + Len(w)
        /\ ~ (s + k <= s) /\ s + k \in 1 .. s + Len(w) /\ (s + k) - s = k
    BY <1>0, <1>1
  <2> QED
    BY <1>7, <1>9, <2>1
<1>13. ASSUME NEW k \in 0 .. Len(t) - e PROVE n[s + Len(w) + 1 + k] = t[e + k]
  <2>1. /\ s + Len(w) + 1 + k \in 1 .. s + Len(w) + (l - e + 1)
        /\ ~ (s + Len(w) + 1 + k <= s + Len(w))
        /\ (s + Len(w) + 1 + k) - (s + Len(w)) = k + 1
        /\ k + 1 \in 1 .. l - e + 1 /\ e + (k + 1) - 1 = e + k
    BY <1>0, <1>1
  <2> QED
    BY <1>5, <1>9, <2>1
<1>14. Len(n) = s + Len(w) + (Len(t) - e) + 1
  BY <1>0, <1>1, <1>9
<1>15. Joined(t, s, e, w, n)
  BY <1>9, <1>10, <1>11, <1>12, <1>13, <1>14 DEF Joined
<1> QED
  BY <1>1, <1>2, <1>4, <1>6, <1>8, <1>15

Swap(t, p, s, e, w, n) ==
  /\ WellFormed(t) /\ WellFormed(w) /\ Contained(w)
  /\ p \in Paths /\ p # <<>> /\ IsSpan(t, p, s, e) /\ Joined(t, s, e, w, n)
SwapNumbers(t, s, e, w, n) ==
  /\ Len(t) \in Nat /\ Len(w) \in Nat /\ Len(n) \in Nat
  /\ s \in 1 .. Len(t) /\ e \in s + 1 .. Len(t)
  /\ s \in Nat /\ e \in Nat
  /\ Len(n) = s + Len(w) + (Len(t) - e) + 1
LEMMA NumbersOfSwap ==
  ASSUME NEW t, NEW p, NEW s, NEW e, NEW w, NEW n, Swap(t, p, s, e, w, n)
  PROVE  SwapNumbers(t, s, e, w, n)
<1>1. Len(t) \in Nat /\ Len(w) \in Nat
  BY WellFormedIs DEF Swap
<1>2. s \in 1 .. Len(t) /\ e \in s + 1 .. Len(t)
  BY DEF Swap, IsSpan
<1>3. Len(n) \in Nat /\ Len(n) = s + Len(w) + (Len(t) - e) + 1
  BY DEF Swap, Joined
<1> QED
  BY <1>1, <1>2, <1>3 DEF SwapNumbers

LEMMA PlaceOfALine ==
  ASSUME NEW t, NEW s, NEW e, NEW w, NEW n, SwapNumbers(t, s, e, w, n), NEW i \in 1 .. Len(n)
  PROVE  \/ i \in 1 .. s
         \/ \E k \in 1 .. Len(w) : i = s + k
         \/ \E k \in 0 .. Len(t) - e : i = s + Len(w) + 1 + k
<1>0. /\ Len(t) \in Nat /\ Len(w) \in Nat /\ Len(n) \in Nat
      /\ s \in Nat /\ e \in Nat /\ s >= 1 /\ e <= Len(t)
      /\ Len(n) = s + Len(w) + (Len(t) - e) + 1
  BY DEF SwapNumbers
<1>1. CASE i <= s
  BY <1>0, <1>1
<1>2. CASE i > s /\ i <= s + Len(w)
  <2>1. i - s \in 1 .. Len(w) /\ i = s + (i - s)
    BY <1>0, <1>2
  <2> QED
    BY <2>1
<1>3. CASE i > s + Len(w)
  <2>1. i - (s + Len(w) + 1) \in 0 .. Len(t) - e /\ i = s + Len(w) + 1 + (i - (s + Len(w) + 1))
    BY <1>0, <1>3
  <2> QED
    BY <2>1
<1> QED
  BY <1>0, <1>1, <1>2, <1>3

LEMMA LinesAreAlike ==
  ASSUME NEW x, NEW y, x = y
  PROVE  Alike(x, y)
BY DEF Alike

(* Above and after the body the stacks are what they were; in it, those of *)
(* the body, below the path.                                               *)
LEMMA SwapStacks ==
  ASSUME NEW t, NEW p, NEW s, NEW e, NEW w, NEW n, Swap(t, p, s, e, w, n)
  PROVE  /\ Text(n)
         /\ SameStacks(n, 0, t, 0, s)
         /\ StacksBelow(n, s, w, 0, Len(w), p)
         /\ SameStacks(n, s + Len(w) + 1, t, e, Len(t) - e)
<1>0. SwapNumbers(t, s, e, w, n)
  BY NumbersOfSwap
<1>1. /\ Len(t) \in Nat /\ Len(w) \in Nat /\ Len(n) \in Nat
      /\ s \in 1 .. Len(t) /\ e \in s + 1 .. Len(t) /\ s \in Nat /\ e \in Nat
      /\ Len(n) = s + Len(w) + (Len(t) - e) + 1
  BY <1>0 DEF SwapNumbers
<1>2. /\ Text(t) /\ Text(w) /\ Opened(w)[Len(w)] = <<>> /\ p \in Paths /\ p # <<>>
      /\ \A k \in 1 .. s : n[k] = t[k]
      /\ \A k \in 1 .. Len(w) : n[s + k] = w[k]
      /\ \A k \in 0 .. Len(t) - e : n[s + Len(w) + 1 + k] = t[e + k]
  BY WellFormedIs DEF Swap, Joined
<1>3. Text(n)
  <2>1. ASSUME NEW i \in 1 .. Len(n) PROVE Named(n[i])
    <3>1. CASE i \in 1 .. s
      <4>1. n[i] = t[i] /\ i \in 1 .. Len(t)
        BY <1>1, <1>2, <3>1
      <4> QED
        BY <1>2, <4>1 DEF Text
    <3>2. CASE \E k \in 1 .. Len(w) : i = s + k
      <4>1. PICK k \in 1 .. Len(w) : i = s + k
        BY <3>2
      <4> QED
        BY <1>2, <4>1 DEF Text
    <3>3. CASE \E k \in 0 .. Len(t) - e : i = s + Len(w) + 1 + k
      <4>1. PICK k \in 0 .. Len(t) - e : i = s + Len(w) + 1 + k
        BY <3>3
      <4>2. n[i] = t[e + k] /\ e + k \in 1 .. Len(t)
        BY <1>1, <1>2, <4>1
      <4> QED
        BY <1>2, <4>2 DEF Text
    <3> QED
      BY <1>0, <3>1, <3>2, <3>3, PlaceOfALine
  <2> QED
    BY <1>1, <2>1 DEF Text
<1>4. Opened(n)[0] = <<>> /\ Opened(t)[0] = <<>> /\ Opened(w)[0] = <<>>
  BY <1>1, StackAt
<1>5. SameStacks(n, 0, t, 0, s)
  <2>1. \A k \in 1 .. s : Alike(n[0 + k], t[0 + k])
    <3> SUFFICES ASSUME NEW k \in 1 .. s PROVE Alike(n[0 + k], t[0 + k])
      OBVIOUS
    <3>1. 0 + k = k /\ n[k] = t[k]
      BY <1>1, <1>2
    <3> QED
      BY <3>1, LinesAreAlike
  <2>2. 0 + s <= Len(t) /\ 0 + s <= Len(n) /\ 0 \in Nat
    BY <1>1
  <2>3. RunsAlike(n, 0, t, 0, s)
    BY <1>1, <1>2, <1>3, <1>4, <2>1, <2>2 DEF RunsAlike
  <2> QED
    BY <2>3, FollowsAtTop
<1>6. Opened(n)[s] = p
  <2>1. Opened(n)[0 + s] = Opened(t)[0 + s] /\ 0 + s = s
    BY <1>1, <1>5 DEF SameStacks
  <2>2. Opened(t)[s] = p
    BY DEF Swap, IsSpan
  <2> QED
    BY <2>1, <2>2
<1>7. p \o <<>> = p
  BY <1>2, ConcatEmptySeq DEF Paths
<1>8. StacksBelow(n, s, w, 0, Len(w), p)
  <2>1. ASSUME NEW k \in 1 .. Len(w)
        PROVE  /\ Alike(n[s + k], w[0 + k])
               /\ w[0 + k].kind = "close" => p = <<>> \/ Opened(w)[0 + k - 1] # <<>>
    <3>1. 0 + k = k /\ n[s + k] = w[k] /\ 0 + k - 1 = k - 1 /\ k \in DOMAIN w
      <4>1. DOMAIN w = 1 .. Len(w)
        BY WellFormedIs DEF Swap
      <4> QED
        BY <1>1, <1>2, <4>1
    <3>2. Contained(w)
      BY DEF Swap
    <3>3. w[k].kind = "close" => Opened(w)[k - 1] # <<>>
      BY <3>1, <3>2 DEF Contained
    <3> QED
      BY <3>1, <3>3, LinesAreAlike
  <2>2. s + Len(w) <= Len(n) /\ 0 + Len(w) <= Len(w) /\ 0 \in Nat
    BY <1>1
  <2>3. Opened(n)[s] = p \o Opened(w)[0]
    BY <1>4, <1>6, <1>7
  <2>4. RunsBelow(n, s, w, 0, Len(w), p)
    BY <1>1, <1>2, <1>3, <2>1, <2>2, <2>3 DEF RunsBelow
  <2> QED
    BY <2>4, Follows
<1>9. Opened(n)[s + Len(w)] = p
  <2>1. Len(w) \in 0 .. Len(w) /\ 0 + Len(w) = Len(w)
    BY <1>1
  <2>2. Opened(n)[s + Len(w)] = p \o Opened(w)[Len(w)]
    BY <1>8, <2>1 DEF StacksBelow
  <2> QED
    BY <1>2, <1>7, <2>2
<1>10. Opened(n)[s + Len(w) + 1] = Opened(t)[e]
  <2>1. t[e].kind = "close" /\ Opened(t)[e] = Front(p)
    BY DEF Swap, IsSpan
  <2>2. n[s + Len(w) + 1] = t[e]
    <3>1. 0 \in 0 .. Len(t) - e /\ s + Len(w) + 1 + 0 = s + Len(w) + 1 /\ e + 0 = e
      BY <1>1
    <3> QED
      BY <1>2, <3>1
  <2>3. s + Len(w) + 1 \in 1 .. Len(n) /\ (s + Len(w) + 1) - 1 = s + Len(w)
    BY <1>1
  <2>4. Opened(n)[s + Len(w) + 1] = After(n[s + Len(w) + 1], Opened(n)[s + Len(w)])
    BY <1>1, <2>3, StackAt
  <2> QED
    BY <1>2, <1>9, <2>1, <2>2, <2>4 DEF After
<1>11. SameStacks(n, s + Len(w) + 1, t, e, Len(t) - e)
  <2>1. \A k \in 1 .. Len(t) - e : Alike(n[s + Len(w) + 1 + k], t[e + k])
    <3> SUFFICES ASSUME NEW k \in 1 .. Len(t) - e PROVE Alike(n[s + Len(w) + 1 + k], t[e + k])
      OBVIOUS
    <3>1. k \in 0 .. Len(t) - e
      BY <1>1
    <3> QED
      BY <1>2, <3>1, LinesAreAlike
  <2>2. /\ s + Len(w) + 1 \in Nat /\ Len(t) - e \in Nat
        /\ (s + Len(w) + 1) + (Len(t) - e) <= Len(n) /\ e + (Len(t) - e) <= Len(t)
    BY <1>1
  <2>3. RunsAlike(n, s + Len(w) + 1, t, e, Len(t) - e)
    BY <1>1, <1>2, <1>3, <1>10, <2>1, <2>2 DEF RunsAlike
  <2> QED
    BY <2>3, FollowsAtTop
<1> QED
  BY <1>3, <1>5, <1>8, <1>11

(* The stacks of the new text, place by place.                             *)
SwapScopes(t, p, s, e, w, n) ==
  /\ \A k \in 1 .. s : Opened(n)[k] = Opened(t)[k]
  /\ \A k \in 0 .. Len(w) : Opened(n)[s + k] = p \o Opened(w)[k]
  /\ \A k \in 0 .. Len(t) - e : Opened(n)[s + Len(w) + 1 + k] = Opened(t)[e + k]
LEMMA ScopesOfSwap ==
  ASSUME NEW t, NEW p, NEW s, NEW e, NEW w, NEW n, Swap(t, p, s, e, w, n)
  PROVE  Text(n) /\ SwapScopes(t, p, s, e, w, n)
<1>0. /\ Text(n)
      /\ SameStacks(n, 0, t, 0, s)
      /\ StacksBelow(n, s, w, 0, Len(w), p)
      /\ SameStacks(n, s + Len(w) + 1, t, e, Len(t) - e)
  BY SwapStacks
<1>1. ASSUME NEW k \in 1 .. s PROVE Opened(n)[k] = Opened(t)[k]
  <2>1. s \in Nat
    BY NumbersOfSwap DEF SwapNumbers
  <2>2. k \in 0 .. s /\ 0 + k = k
    BY <2>1
  <2> QED
    BY <1>0, <2>2 DEF SameStacks
<1>2. ASSUME NEW k \in 0 .. Len(w) PROVE Opened(n)[s + k] = p \o Opened(w)[k]
  <2>1. 0 + k = k
    OBVIOUS
  <2>2. \A j \in 0 .. Len(w) : Opened(n)[s + j] = p \o Opened(w)[0 + j]
    BY <1>0 DEF StacksBelow
  <2> QED
    BY <2>1, <2>2
<1>3. \A k \in 0 .. Len(t) - e : Opened(n)[s + Len(w) + 1 + k] = Opened(t)[e + k]
  BY <1>0 DEF SameStacks
<1> QED
  BY <1>0, <1>1, <1>2, <1>3 DEF SwapScopes

LEMMA SwapSpan ==
  ASSUME NEW t, NEW p, NEW s, NEW e, NEW w, NEW n, Swap(t, p, s, e, w, n)
  PROVE  IsSpan(n, p, s, s + Len(w) + 1)
<1>0. /\ Len(t) \in Nat /\ Len(w) \in Nat /\ Len(n) \in Nat
      /\ s \in 1 .. Len(t) /\ e \in s + 1 .. Len(t) /\ s \in Nat /\ e \in Nat
      /\ Len(n) = s + Len(w) + (Len(t) - e) + 1
  BY NumbersOfSwap DEF SwapNumbers
<1>1. SwapScopes(t, p, s, e, w, n)
  BY ScopesOfSwap
<1>2. /\ t[s].kind = "open" /\ Opened(t)[s] = p /\ t[e].kind = "close" /\ Opened(t)[e] = Front(p)
      /\ n[s] = t[s]
      /\ \A k \in 0 .. Len(t) - e : n[s + Len(w) + 1 + k] = t[e + k]
      /\ p \in Paths
  <2>1. s \in 1 .. s
    BY <1>0
  <2> QED
    BY <2>1 DEF Swap, IsSpan, Joined
<1>3. Opened(n)[s] = p
  <2>1. s \in 1 .. s
    BY <1>0
  <2> QED
    BY <1>1, <1>2, <2>1 DEF SwapScopes
<1>4. 0 \in 0 .. Len(t) - e /\ s + Len(w) + 1 + 0 = s + Len(w) + 1 /\ e + 0 = e
  BY <1>0
<1>5. n[s + Len(w) + 1] = t[e] /\ Opened(n)[s + Len(w) + 1] = Opened(t)[e]
  BY <1>1, <1>2, <1>4 DEF SwapScopes
<1>6. Opened(n)[s + Len(w)] = p
  <2>1. Opened(w)[Len(w)] = <<>>
    BY WellFormedIs DEF Swap
  <2>2. Len(w) \in 0 .. Len(w)
    BY <1>0
  <2>3. p \o <<>> = p
    BY <1>2, ConcatEmptySeq DEF Paths
  <2> QED
    BY <1>1, <2>1, <2>2, <2>3 DEF SwapScopes
<1>7. ASSUME NEW j \in s .. s + Len(w) PROVE Within(p, Opened(n)[j])
  <2>1. j - s \in 0 .. Len(w) /\ s + (j - s) = j
    BY <1>0
  <2>2. Opened(n)[j] = p \o Opened(w)[j - s]
    BY <1>1, <2>1 DEF SwapScopes
  <2>3. PICK q \in Paths : q = Opened(w)[j - s]
    <3>1. Text(w)
      BY WellFormedIs DEF Swap
    <3> QED
      BY <2>1, <3>1, StacksArePaths
  <2>4. PICK r : r = p \o q
    OBVIOUS
  <2>5. Len(p) \in Nat /\ Len(q) \in Nat /\ Len(r) = Len(p) + Len(q) /\ \A k \in 1 .. Len(p) : r[k] = p[k]
    BY <1>2, <2>4, JoinOf
  <2> QED
    BY <2>2, <2>3, <2>4, <2>5 DEF Within
<1>8. /\ s \in 1 .. Len(n) /\ s + Len(w) + 1 \in s + 1 .. Len(n)
      /\ (s + Len(w) + 1) - 1 = s + Len(w)
  BY <1>0
<1> QED
  BY <1>2, <1>3, <1>5, <1>6, <1>7, <1>8 DEF IsSpan

(* So are the components, those of the body below the path.                *)
LEMMA ComponentsAgree ==
  ASSUME NEW t, NEW i, NEW u, NEW j, Words(t, i) = Words(u, j), t[i] = u[j],
         Opened(t)[i] = Opened(u)[j]
  PROVE  ComponentAt(t, i) = ComponentAt(u, j)
BY DEF ComponentAt, ScopeAt

NodesOf(ws) == [place \in Keyed(ws, None) \ {LastPlace(Keyed(ws, None))} |-> ws[place].val]
ValueOf(ws) == IF Keyed(ws, None) = {} THEN None ELSE ws[LastPlace(Keyed(ws, None))].val
NamesOf(ws) == {ws[place].key : place \in DOMAIN ws} \ {None}
ParamsOf(ws) == [p \in NamesOf(ws) |-> ws[LastPlace(Keyed(ws, p))].val]
LEMMA ParseForm ==
  ASSUME NEW path, NEW r, NEW ws
  PROVE  ParseComponentLine(path, r, ws)
           = [scope |-> path, refdes |-> r, nodes |-> NodesOf(ws), value |-> ValueOf(ws),
              params |-> ParamsOf(ws)]
BY DEF ParseComponentLine, NodesOf, ValueOf, NamesOf, ParamsOf
LEMMA ComponentForm ==
  ASSUME NEW t, NEW i
  PROVE  ComponentAt(t, i)
           = [scope |-> Opened(t)[i], refdes |-> t[i].words[1].val, nodes |-> NodesOf(Words(t, i)),
              value |-> ValueOf(Words(t, i)), params |-> ParamsOf(Words(t, i))]
BY ParseForm DEF ComponentAt, ScopeAt

Lower(p, c) == [c EXCEPT !.scope = p \o c.scope]
LEMMA ComponentsBelow ==
  ASSUME NEW t, NEW i, NEW u, NEW j, NEW p, Words(t, i) = Words(u, j), t[i] = u[j],
         Opened(t)[i] = p \o Opened(u)[j]
  PROVE  ComponentAt(t, i) = Lower(p, ComponentAt(u, j))
<1>1. PICK nodes, value, params :
        nodes = NodesOf(Words(u, j)) /\ value = ValueOf(Words(u, j)) /\ params = ParamsOf(Words(u, j))
  OBVIOUS
<1>2. PICK refdes, path, below :
        refdes = u[j].words[1].val /\ path = Opened(u)[j] /\ below = p \o Opened(u)[j]
  OBVIOUS
<1>3. ComponentAt(u, j) = [scope |-> path, refdes |-> refdes, nodes |-> nodes, value |-> value,
                           params |-> params]
  BY <1>1, <1>2, ComponentForm
<1>4. ComponentAt(t, i) = [scope |-> below, refdes |-> refdes, nodes |-> nodes, value |-> value,
                           params |-> params]
  BY <1>1, <1>2, ComponentForm
<1>5. PICK c : c = ComponentAt(u, j)
  OBVIOUS
<1>6. p \o c.scope = below
  BY <1>2, <1>3, <1>5
<1>7. [c EXCEPT !.scope = below] = [scope |-> below, refdes |-> refdes, nodes |-> nodes,
                                    value |-> value, params |-> params]
  BY <1>3, <1>5
<1> QED
  BY <1>4, <1>5, <1>6, <1>7 DEF Lower

SwapWords(t, s, e, w, n) ==
  /\ \A k \in 1 .. s - 1 : Words(n, k) = Words(t, k) /\ n[k] = t[k]
  /\ \A k \in 1 .. Len(w) : Words(n, s + k) = Words(w, k) /\ n[s + k] = w[k]
  /\ \A k \in 0 .. Len(t) - e :
       Words(n, s + Len(w) + 1 + k) = Words(t, e + k) /\ n[s + Len(w) + 1 + k] = t[e + k]
LEMMA WordsOfSwap ==
  ASSUME NEW t, NEW p, NEW s, NEW e, NEW w, NEW n, Swap(t, p, s, e, w, n)
  PROVE  SwapWords(t, s, e, w, n)
<1>0. /\ Len(t) \in Nat /\ Len(w) \in Nat /\ Len(n) \in Nat
      /\ s \in 1 .. Len(t) /\ e \in s + 1 .. Len(t) /\ s \in Nat /\ e \in Nat
      /\ Len(n) = s + Len(w) + (Len(t) - e) + 1
  BY NumbersOfSwap DEF SwapNumbers
<1>1. /\ \A k \in 1 .. s : n[k] = t[k]
      /\ \A k \in 1 .. Len(w) : n[s + k] = w[k]
      /\ \A k \in 0 .. Len(t) - e : n[s + Len(w) + 1 + k] = t[e + k]
      /\ t[s].kind = "open" /\ t[e].kind = "close"
  BY DEF Swap, Joined, IsSpan
<1>2. n[s] = t[s] /\ n[s + Len(w) + 1] = t[e]
  <2>1. s \in 1 .. s /\ 0 \in 0 .. Len(t) - e /\ s + Len(w) + 1 + 0 = s + Len(w) + 1 /\ e + 0 = e
    BY <1>0
  <2> QED
    BY <1>1, <2>1
<1>3. ~ Follower(t[s]) /\ ~ Follower(n[s]) /\ ~ Follower(n[s + Len(w) + 1])
  BY <1>1, <1>2 DEF Follower
<1>4. ASSUME NEW k \in 1 .. s - 1 PROVE Words(n, k) = Words(t, k) /\ n[k] = t[k]
  <2>1. PICK m \in Int : m = s - 1 - k
    BY <1>0
  <2>2. /\ m \in Nat /\ k + m <= Len(n) /\ k + m <= Len(t) /\ (k + m) + 1 = s
        /\ k \in 1 .. Len(n) /\ k \in 1 .. Len(t)
    BY <1>0, <2>1
  <2>3. \A d \in 0 .. m : n[k + d] = t[k + d]
    <3> SUFFICES ASSUME NEW d \in 0 .. m PROVE n[k + d] = t[k + d]
      OBVIOUS
    <3>1. k + d \in 1 .. s
      BY <1>0, <2>1
    <3> QED
      BY <1>1, <3>1
  <2>4. Ends(n, k + m) /\ Ends(t, k + m)
    BY <1>3, <2>2 DEF Ends
  <2>5. SameRun(n, k, t, k, m)
    BY <1>0, <2>2, <2>3, <2>4 DEF SameRun
  <2> QED
    BY <2>5, SameWords
<1>5. ASSUME NEW k \in 1 .. Len(w) PROVE Words(n, s + k) = Words(w, k) /\ n[s + k] = w[k]
  <2>1. PICK m \in Int : m = Len(w) - k
    BY <1>0
  <2>2. PICK i \in Int : i = s + k
    BY <1>0
  <2>3. /\ m \in Nat /\ i + m <= Len(n) /\ k + m <= Len(w) /\ k + m = Len(w)
        /\ (i + m) + 1 = s + Len(w) + 1 /\ i \in 1 .. Len(n)
    BY <1>0, <2>1, <2>2
  <2>4. \A d \in 0 .. m : n[i + d] = w[k + d]
    <3> SUFFICES ASSUME NEW d \in 0 .. m PROVE n[i + d] = w[k + d]
      OBVIOUS
    <3>1. k + d \in 1 .. Len(w) /\ i + d = s + (k + d)
      BY <1>0, <2>1, <2>2
    <3> QED
      BY <1>1, <3>1
  <2>5. Ends(n, i + m) /\ Ends(w, k + m)
    BY <1>3, <2>3 DEF Ends
  <2>6. SameRun(n, i, w, k, m)
    BY <1>0, <2>3, <2>4, <2>5 DEF SameRun
  <2> QED
    BY <2>2, <2>6, SameWords
<1>6. ASSUME NEW k \in 0 .. Len(t) - e
      PROVE  Words(n, s + Len(w) + 1 + k) = Words(t, e + k) /\ n[s + Len(w) + 1 + k] = t[e + k]
  <2>0. k \in Int /\ 0 <= k /\ e + k <= Len(t)
    BY <1>0
  <2>1. PICK m \in Int : m = Len(t) - (e + k)
    <3>1. Len(t) - (e + k) \in Int
      BY <1>0, <2>0
    <3> QED
      BY <3>1
  <2>2. PICK i \in Int : i = s + Len(w) + 1 + k
    BY <1>0
  <2>3. PICK j \in Int : j = e + k
    BY <1>0
  <2>4. /\ m \in Nat /\ i + m <= Len(n) /\ j + m <= Len(t) /\ j + m = Len(t) /\ i + m = Len(n)
        /\ i \in 1 .. Len(n) /\ j \in 1 .. Len(t)
    BY <1>0, <2>1, <2>2, <2>3
  <2>5. \A d \in 0 .. m : n[i + d] = t[j + d]
    <3> SUFFICES ASSUME NEW d \in 0 .. m PROVE n[i + d] = t[j + d]
      OBVIOUS
    <3>1. k + d \in 0 .. Len(t) - e /\ i + d = s + Len(w) + 1 + (k + d) /\ j + d = e + (k + d)
      BY <1>0, <2>1, <2>2, <2>3
    <3> QED
      BY <1>1, <3>1
  <2>6. Ends(n, i + m) /\ Ends(t, j + m)
    BY <2>4 DEF Ends
  <2>7. SameRun(n, i, t, j, m)
    BY <1>0, <2>4, <2>5, <2>6 DEF SameRun
  <2> QED
    BY <2>2, <2>3, <2>7, SameWords
<1> QED
  BY <1>4, <1>5, <1>6 DEF SwapWords

(* Where the lines of a text are, seen from the span of the path.          *)
InSpan(t, p, s, e) == \A j \in 1 .. Len(t) : Within(p, Opened(t)[j]) <=> s <= j /\ j < e
LEMMA SpanTells ==
  ASSUME NEW t, Text(t), DOMAIN t = 1 .. Len(t), Single(t), NEW p \in Paths, p # <<>>,
         NEW s, NEW e, IsSpan(t, p, s, e)
  PROVE  InSpan(t, p, s, e)
<1>1. \A j \in 0 .. Len(t) : Within(p, Opened(t)[j]) => s <= j /\ j < e
  BY OutsideTheSpan
<1>2. Len(t) \in Nat /\ s \in 1 .. Len(t) /\ e \in s + 1 .. Len(t)
      /\ \A j \in s .. e - 1 : Within(p, Opened(t)[j])
  BY DEF IsSpan, Text
<1> QED
  BY <1>1, <1>2 DEF InSpan

(* Every line of the new text is one of the old or one of the body.        *)
FromText(t, s, e, w, i, j) ==
  \/ i = j /\ j \in 1 .. s
  \/ j \in e .. Len(t) /\ i = s + Len(w) + 1 + (j - e)
FromBody(s, w, i, k) == k \in 1 .. Len(w) /\ i = s + k
LEMMA OriginOf ==
  ASSUME NEW t, NEW p, NEW s, NEW e, NEW w, NEW n, Swap(t, p, s, e, w, n), NEW i \in 1 .. Len(n)
  PROVE  \/ \E j \in 1 .. Len(t) : FromText(t, s, e, w, i, j)
         \/ \E k \in 1 .. Len(w) : FromBody(s, w, i, k)
<1>0. SwapNumbers(t, s, e, w, n)
  BY NumbersOfSwap
<1>1. /\ Len(t) \in Nat /\ Len(w) \in Nat /\ s \in 1 .. Len(t) /\ e \in s + 1 .. Len(t)
  BY <1>0 DEF SwapNumbers
<1>2. CASE i \in 1 .. s
  <2>1. i \in 1 .. Len(t)
    BY <1>1, <1>2
  <2> QED
    BY <1>2, <2>1 DEF FromText
<1>3. CASE \E k \in 1 .. Len(w) : i = s + k
  BY <1>3 DEF FromBody
<1>4. CASE \E k \in 0 .. Len(t) - e : i = s + Len(w) + 1 + k
  <2>1. PICK k \in 0 .. Len(t) - e : i = s + Len(w) + 1 + k
    BY <1>4
  <2>2. e + k \in 1 .. Len(t) /\ e + k \in e .. Len(t) /\ (e + k) - e = k
    BY <1>1
  <2> QED
    BY <2>1, <2>2 DEF FromText
<1> QED
  BY <1>0, <1>2, <1>3, <1>4, PlaceOfALine

LEMMA TextOrigin ==
  ASSUME NEW t, NEW p, NEW s, NEW e, NEW w, NEW n, Swap(t, p, s, e, w, n),
         NEW i, NEW j, FromText(t, s, e, w, i, j)
  PROVE  /\ i \in 1 .. Len(n) /\ j \in 1 .. Len(t)
         /\ n[i] = t[j] /\ Opened(n)[i] = Opened(t)[j]
         /\ j # s => Words(n, i) = Words(t, j)
         /\ s <= j /\ j < e => j = s
<1>0. /\ Len(t) \in Nat /\ Len(w) \in Nat /\ Len(n) \in Nat
      /\ s \in 1 .. Len(t) /\ e \in s + 1 .. Len(t) /\ s \in Nat /\ e \in Nat
      /\ Len(n) = s + Len(w) + (Len(t) - e) + 1
  BY NumbersOfSwap DEF SwapNumbers
<1>1. SwapScopes(t, p, s, e, w, n) /\ SwapWords(t, s, e, w, n)
  BY ScopesOfSwap, WordsOfSwap
<1>2. CASE i = j /\ j \in 1 .. s
  <2>1. i \in 1 .. Len(n) /\ j \in 1 .. Len(t) /\ (j # s => j \in 1 .. s - 1)
    BY <1>0, <1>2
  <2>2. n[i] = t[j]
    BY <1>2 DEF Swap, Joined
  <2> QED
    BY <1>0, <1>1, <1>2, <2>1, <2>2 DEF SwapScopes, SwapWords
<1>3. CASE j \in e .. Len(t) /\ i = s + Len(w) + 1 + (j - e)
  <2>1. /\ i \in 1 .. Len(n) /\ j \in 1 .. Len(t) /\ j - e \in 0 .. Len(t) - e /\ e + (j - e) = j
        /\ ~ (s <= j /\ j < e)
    BY <1>0, <1>3
  <2>2. PICK k \in 0 .. Len(t) - e : k = j - e
    BY <2>1
  <2>3. i = s + Len(w) + 1 + k /\ e + k = j
    BY <1>3, <2>1, <2>2
  <2>4. n[i] = t[j] /\ Words(n, i) = Words(t, j)
    BY <1>1, <2>3 DEF SwapWords
  <2>5. Opened(n)[i] = Opened(t)[j]
    BY <1>1, <2>3 DEF SwapScopes
  <2> QED
    BY <2>1, <2>4, <2>5
<1> QED
  BY <1>2, <1>3 DEF FromText

LEMMA BodyOrigin ==
  ASSUME NEW t, NEW p, NEW s, NEW e, NEW w, NEW n, Swap(t, p, s, e, w, n),
         NEW i, NEW k, FromBody(s, w, i, k)
  PROVE  /\ i \in 1 .. Len(n) /\ k \in 1 .. Len(w)
         /\ n[i] = w[k] /\ Opened(n)[i] = p \o Opened(w)[k]
         /\ Words(n, i) = Words(w, k)
         /\ Opened(w)[k] \in Paths
<1>0. /\ Len(t) \in Nat /\ Len(w) \in Nat /\ Len(n) \in Nat
      /\ s \in 1 .. Len(t) /\ e \in s + 1 .. Len(t) /\ s \in Nat /\ e \in Nat
      /\ Len(n) = s + Len(w) + (Len(t) - e) + 1
  BY NumbersOfSwap DEF SwapNumbers
<1>1. SwapScopes(t, p, s, e, w, n) /\ SwapWords(t, s, e, w, n)
  BY ScopesOfSwap, WordsOfSwap
<1>2. k \in 1 .. Len(w) /\ i = s + k
  BY DEF FromBody
<1>3. i \in 1 .. Len(n) /\ k \in 0 .. Len(w)
  BY <1>0, <1>2
<1>4. n[i] = w[k] /\ Words(n, i) = Words(w, k)
  BY <1>1, <1>2 DEF SwapWords
<1>5. Opened(n)[i] = p \o Opened(w)[k]
  BY <1>1, <1>2, <1>3 DEF SwapScopes
<1>6. Opened(w)[k] \in Paths
  <2>1. Text(w)
    BY WellFormedIs DEF Swap
  <2> QED
    BY <1>3, <2>1, StacksArePaths
<1> QED
  BY <1>2, <1>3, <1>4, <1>5, <1>6

LEMMA JoinCancels ==
  ASSUME NEW p \in Paths, NEW q \in Paths, NEW r \in Paths, p \o q = p \o r
  PROVE  q = r
<1>1. PICK x : x = p \o q
  OBVIOUS
<1>01. x = p \o r
  BY <1>1
<1>2. /\ Len(p) \in Nat /\ Len(q) \in Nat /\ Len(r) \in Nat
      /\ Len(x) = Len(p) + Len(q) /\ Len(x) = Len(p) + Len(r)
      /\ \A k \in 1 .. Len(q) : x[Len(p) + k] = q[k]
      /\ \A k \in 1 .. Len(r) : x[Len(p) + k] = r[k]
  <2>1. /\ Len(p) \in Nat /\ Len(q) \in Nat /\ Len(x) = Len(p) + Len(q)
        /\ \A k \in 1 .. Len(q) : x[Len(p) + k] = q[k]
    BY ONLY p \in Paths, q \in Paths, <1>1, JoinOf
  <2>2. /\ Len(r) \in Nat /\ Len(x) = Len(p) + Len(r)
        /\ \A k \in 1 .. Len(r) : x[Len(p) + k] = r[k]
    BY ONLY p \in Paths, r \in Paths, <1>01, JoinOf
  <2> QED
    BY <2>1, <2>2
<1>3. Len(q) = Len(r)
  BY <1>2
<1> QED
  BY <1>2, <1>3, SamePath

LEMMA JoinGrows ==
  ASSUME NEW p \in Paths, NEW q \in Paths
  PROVE  Within(p, p \o q) /\ (q # <<>> => p \o q # p)
<1>1. PICK x : x = p \o q
  OBVIOUS
<1>2. /\ Len(p) \in Nat /\ Len(q) \in Nat /\ Len(x) = Len(p) + Len(q)
      /\ \A k \in 1 .. Len(p) : x[k] = p[k]
  BY <1>1, JoinOf
<1>3. q # <<>> => Len(q) > 0
  BY EmptyPath
<1> QED
  BY <1>1, <1>2, <1>3 DEF Within

LEMMA OpensGoDown ==
  ASSUME NEW t, Text(t), NEW i \in 1 .. Len(t), t[i].kind = "open"
  PROVE  Opened(t)[i] \in Paths /\ Opened(t)[i] # <<>>
<1>0. Len(t) \in Nat /\ i - 1 \in 0 .. Len(t) /\ i \in 0 .. Len(t)
  BY DEF Text
<1>1. Opened(t)[i] = After(t[i], Opened(t)[i - 1]) /\ Opened(t)[i - 1] \in Paths /\ Opened(t)[i] \in Paths
  BY <1>0, StackAt, StacksArePaths
<1>2. PICK x \in STRING : x = t[i].words[1].val
  BY DEF Text, Named
<1>3. PICK q \in Paths : q = Opened(t)[i - 1]
  BY <1>1
<1>4. Opened(t)[i] = Append(q, x)
  BY <1>1, <1>2, <1>3 DEF After
<1>5. Len(q) \in Nat /\ Len(Append(q, x)) = Len(q) + 1
  BY AppendOf
<1>6. Len(<<>>) = 0
  BY EmptyPath
<1> QED
  BY <1>1, <1>4, <1>5, <1>6

(* The new text defines what the old one did outside the path, and there   *)
(* what the body defines.                                                  *)
SwapBasics(t, w, n) ==
  /\ n \in Seq(Lines) /\ Len(n) \in Nat /\ DOMAIN n = 1 .. Len(n) /\ Text(n)
  /\ t \in Seq(Lines) /\ Len(t) \in Nat /\ DOMAIN t = 1 .. Len(t) /\ Text(t) /\ Single(t)
  /\ w \in Seq(Lines) /\ Len(w) \in Nat /\ DOMAIN w = 1 .. Len(w) /\ Text(w) /\ Single(w)
LEMMA BasicsOfSwap ==
  ASSUME NEW t, NEW p, NEW s, NEW e, NEW w, NEW n, Swap(t, p, s, e, w, n)
  PROVE  SwapBasics(t, w, n) /\ InSpan(t, p, s, e) /\ t[s].kind = "open" /\ Opened(t)[s] = p
<1>1. SwapBasics(t, w, n)
  BY WellFormedIs, ScopesOfSwap DEF Swap, Joined, SwapBasics
<1>2. InSpan(t, p, s, e)
  BY <1>1, SpanTells DEF Swap, SwapBasics
<1> QED
  BY <1>1, <1>2 DEF Swap, IsSpan

LEMMA SwapIsSingle ==
  ASSUME NEW t, NEW p, NEW s, NEW e, NEW w, NEW n, Swap(t, p, s, e, w, n)
  PROVE  Single(n)
<1>0. SwapBasics(t, w, n) /\ InSpan(t, p, s, e) /\ t[s].kind = "open" /\ Opened(t)[s] = p
  BY BasicsOfSwap
<1>00. p \in Paths
  BY DEF Swap
<1> SUFFICES ASSUME NEW i \in Opens(n), NEW i2 \in Opens(n), Opened(n)[i] = Opened(n)[i2]
             PROVE  i = i2
  BY DEF Single
<1>1. i \in 1 .. Len(n) /\ n[i].kind = "open" /\ i2 \in 1 .. Len(n) /\ n[i2].kind = "open"
  BY <1>0 DEF Opens, SwapBasics
<1>2. ASSUME NEW a \in 1 .. Len(n), NEW b \in 1 .. Len(n), n[a].kind = "open", n[b].kind = "open",
             Opened(n)[a] = Opened(n)[b], NEW j, FromText(t, s, e, w, a, j),
             NEW k, FromBody(s, w, b, k)
      PROVE  FALSE
  <2>1. j \in 1 .. Len(t) /\ t[j] = n[a] /\ Opened(n)[a] = Opened(t)[j]
        /\ (s <= j /\ j < e => j = s)
    BY <1>2, TextOrigin
  <2>2. k \in 1 .. Len(w) /\ w[k] = n[b] /\ Opened(n)[b] = p \o Opened(w)[k]
    BY <1>2, BodyOrigin
  <2>3. PICK q \in Paths : q = Opened(w)[k] /\ q # <<>>
    BY <1>0, <1>2, <2>2, OpensGoDown DEF SwapBasics
  <2>4. Within(p, p \o q) /\ p \o q # p
    BY <1>00, <2>3, JoinGrows
  <2>5. Opened(t)[j] = p \o q
    BY <1>2, <2>1, <2>2, <2>3
  <2>6. s <= j /\ j < e
    BY <1>0, <2>1, <2>4, <2>5 DEF InSpan
  <2> QED
    BY <1>0, <2>1, <2>4, <2>5, <2>6
<1>3. CASE (\E j : FromText(t, s, e, w, i, j)) /\ (\E j : FromText(t, s, e, w, i2, j))
  <2>1. PICK j, j2 : FromText(t, s, e, w, i, j) /\ FromText(t, s, e, w, i2, j2)
    BY <1>3
  <2>2. j \in 1 .. Len(t) /\ t[j] = n[i] /\ Opened(n)[i] = Opened(t)[j]
    BY <2>1, TextOrigin
  <2>3. j2 \in 1 .. Len(t) /\ t[j2] = n[i2] /\ Opened(n)[i2] = Opened(t)[j2]
    BY <2>1, TextOrigin
  <2>4. j \in Opens(t) /\ j2 \in Opens(t)
    BY <1>0, <1>1, <2>2, <2>3 DEF Opens, SwapBasics
  <2>5. j = j2
    BY <1>0, <2>2, <2>3, <2>4 DEF SwapBasics, Single
  <2>6. s \in Nat /\ e \in Nat /\ s < e
    BY NumbersOfSwap DEF SwapNumbers
  <2> QED
    BY <2>1, <2>5, <2>6 DEF FromText
<1>4. CASE (\E k : FromBody(s, w, i, k)) /\ (\E k : FromBody(s, w, i2, k))
  <2>1. PICK k, k2 : FromBody(s, w, i, k) /\ FromBody(s, w, i2, k2)
    BY <1>4
  <2>2. k \in 1 .. Len(w) /\ w[k] = n[i] /\ Opened(n)[i] = p \o Opened(w)[k] /\ Opened(w)[k] \in Paths
    BY ONLY Swap(t, p, s, e, w, n), <2>1, BodyOrigin
  <2>3. k2 \in 1 .. Len(w) /\ w[k2] = n[i2] /\ Opened(n)[i2] = p \o Opened(w)[k2]
        /\ Opened(w)[k2] \in Paths
    BY <2>1, BodyOrigin
  <2>4. Opened(w)[k] = Opened(w)[k2]
    BY <1>00, <2>2, <2>3, JoinCancels
  <2>5. k \in Opens(w) /\ k2 \in Opens(w)
    BY <1>0, <1>1, <2>2, <2>3 DEF Opens, SwapBasics
  <2>6. k = k2
    BY <1>0, <2>4, <2>5 DEF SwapBasics, Single
  <2> QED
    BY <2>1, <2>6 DEF FromBody
<1>5. (\E j : FromText(t, s, e, w, i, j)) \/ (\E k : FromBody(s, w, i, k))
  BY <1>1, OriginOf
<1>6. (\E j : FromText(t, s, e, w, i2, j)) \/ (\E k : FromBody(s, w, i2, k))
  BY <1>1, OriginOf
<1> QED
  BY <1>1, <1>2, <1>3, <1>4, <1>5, <1>6

(* The end of the text is that of the old one.                             *)
LEMMA SwapCloses ==
  ASSUME NEW t, NEW p, NEW s, NEW e, NEW w, NEW n, Swap(t, p, s, e, w, n)
  PROVE  Opened(n)[Len(n)] = <<>>
<1>1. /\ Len(t) \in Nat /\ Len(w) \in Nat /\ e \in s + 1 .. Len(t) /\ s \in Nat /\ e \in Nat
      /\ Len(n) = s + Len(w) + (Len(t) - e) + 1
  BY NumbersOfSwap DEF SwapNumbers
<1>2. FromText(t, s, e, w, Len(n), Len(t))
  BY <1>1 DEF FromText
<1>3. Opened(n)[Len(n)] = Opened(t)[Len(t)]
  BY <1>2, TextOrigin
<1> QED
  BY <1>3, WellFormedIs DEF Swap

LEMMA SwapIsWellFormed ==
  ASSUME NEW t, NEW p, NEW s, NEW e, NEW w, NEW n, Swap(t, p, s, e, w, n)
  PROVE  WellFormed(n)
<1>0. SwapBasics(t, w, n) /\ InSpan(t, p, s, e) /\ t[s].kind = "open"
  BY BasicsOfSwap
<1>1. WellFormed(t) /\ WellFormed(w)
  BY DEF Swap
<1>2. ASSUME NEW i \in 1 .. Len(n), n[i].kind = "open" PROVE n[i].words # <<>>
  <2>1. CASE \E j \in 1 .. Len(t) : FromText(t, s, e, w, i, j)
    <3>1. PICK j : FromText(t, s, e, w, i, j)
      BY <2>1
    <3>2. j \in 1 .. Len(t) /\ n[i] = t[j]
      BY <3>1, TextOrigin
    <3>3. j \in Opens(t)
      BY <1>0, <1>2, <3>2 DEF SwapBasics, Opens
    <3> QED
      BY <1>1, <3>2, <3>3 DEF WellFormed
  <2>2. CASE \E k \in 1 .. Len(w) : FromBody(s, w, i, k)
    <3>1. PICK k : FromBody(s, w, i, k)
      BY <2>2
    <3>2. k \in 1 .. Len(w) /\ n[i] = w[k]
      BY <3>1, BodyOrigin
    <3>3. k \in Opens(w)
      BY <1>0, <1>2, <3>2 DEF SwapBasics, Opens
    <3> QED
      BY <1>1, <3>2, <3>3 DEF WellFormed
  <2> QED
    BY <2>1, <2>2, OriginOf
<1>3. ASSUME NEW i \in 1 .. Len(n), n[i].kind = "device"
      PROVE  n[i].words # <<>> /\ n[i].words[1].key = None /\ Keyed(Words(n, i), None) # {}
  <2>1. CASE \E j \in 1 .. Len(t) : FromText(t, s, e, w, i, j)
    <3>1. PICK j : FromText(t, s, e, w, i, j)
      BY <2>1
    <3>2. j \in 1 .. Len(t) /\ n[i] = t[j] /\ (j # s => Words(n, i) = Words(t, j))
      BY <3>1, TextOrigin
    <3>3. j \in Devices(t) /\ j # s
      BY <1>0, <1>3, <3>2 DEF SwapBasics, Devices
    <3> QED
      BY <1>1, <3>2, <3>3 DEF WellFormed
  <2>2. CASE \E k \in 1 .. Len(w) : FromBody(s, w, i, k)
    <3>1. PICK k : FromBody(s, w, i, k)
      BY <2>2
    <3>2. k \in 1 .. Len(w) /\ n[i] = w[k] /\ Words(n, i) = Words(w, k)
      BY <3>1, BodyOrigin
    <3>3. k \in Devices(w)
      BY <1>0, <1>3, <3>2 DEF SwapBasics, Devices
    <3> QED
      BY <1>1, <3>2, <3>3 DEF WellFormed
  <2> QED
    BY <2>1, <2>2, OriginOf
<1>4. Single(n) /\ Opened(n)[Len(n)] = <<>>
  BY SwapIsSingle, SwapCloses
<1>5. n \in Seq(Lines) /\ DOMAIN n = 1 .. Len(n)
  BY <1>0 DEF SwapBasics
<1> QED
  BY <1>2, <1>3, <1>4, <1>5 DEF WellFormed, Opens, Devices, Single

LEMMA SwapSubckts ==
  ASSUME NEW t, NEW p, NEW s, NEW e, NEW w, NEW n, Swap(t, p, s, e, w, n)
  PROVE  Subckts(n) = {x \in Subckts(t) : ~ Within(p, x)} \cup {p} \cup {p \o q : q \in Subckts(w)}
<1>0. SwapBasics(t, w, n) /\ InSpan(t, p, s, e) /\ t[s].kind = "open" /\ Opened(t)[s] = p
  BY BasicsOfSwap
<1>00. p \in Paths /\ s \in 1 .. Len(t) /\ e \in s + 1 .. Len(t) /\ s \in Nat /\ e \in Nat /\ Len(t) \in Nat
  <2>1. s \in 1 .. Len(t) /\ e \in s + 1 .. Len(t) /\ s \in Nat /\ e \in Nat /\ Len(t) \in Nat
    BY NumbersOfSwap DEF SwapNumbers
  <2> QED
    BY <2>1 DEF Swap
<1> DEFINE outer == {x \in Subckts(t) : ~ Within(p, x)}
           inner == {p \o q : q \in Subckts(w)}
<1>1. ASSUME NEW i \in Opens(n) PROVE Opened(n)[i] \in outer \cup {p} \cup inner
  <2>0. i \in 1 .. Len(n) /\ n[i].kind = "open"
    BY <1>0 DEF SwapBasics, Opens
  <2>1. CASE \E j \in 1 .. Len(t) : FromText(t, s, e, w, i, j)
    <3>1. PICK j : FromText(t, s, e, w, i, j)
      BY <2>1
    <3>2. j \in 1 .. Len(t) /\ n[i] = t[j] /\ Opened(n)[i] = Opened(t)[j]
          /\ (s <= j /\ j < e => j = s)
      BY <3>1, TextOrigin
    <3>3. j \in Opens(t)
      BY <1>0, <2>0, <3>2 DEF SwapBasics, Opens
    <3>4. Opened(t)[j] \in Subckts(t)
      BY <3>3 DEF Subckts
    <3>5. CASE j = s
      BY <1>0, <3>2, <3>5
    <3>6. CASE j # s
      BY <1>0, <3>2, <3>4, <3>6 DEF InSpan
    <3> QED
      BY <3>5, <3>6
  <2>2. CASE \E k \in 1 .. Len(w) : FromBody(s, w, i, k)
    <3>1. PICK k : FromBody(s, w, i, k)
      BY <2>2
    <3>2. k \in 1 .. Len(w) /\ n[i] = w[k] /\ Opened(n)[i] = p \o Opened(w)[k]
      BY <3>1, BodyOrigin
    <3>3. k \in Opens(w)
      BY <1>0, <2>0, <3>2 DEF SwapBasics, Opens
    <3>4. Opened(w)[k] \in Subckts(w)
      BY <3>3 DEF Subckts
    <3> QED
      BY <3>2, <3>4
  <2> QED
    BY <2>0, <2>1, <2>2, OriginOf
<1>2. ASSUME NEW i, NEW j, FromText(t, s, e, w, i, j), t[j].kind = "open"
      PROVE  Opened(t)[j] \in Subckts(n)
  <2>1. i \in 1 .. Len(n) /\ n[i] = t[j] /\ Opened(n)[i] = Opened(t)[j]
    BY <1>2, TextOrigin
  <2>2. i \in Opens(n)
    BY <1>0, <1>2, <2>1 DEF SwapBasics, Opens
  <2> QED
    BY <2>1, <2>2 DEF Subckts
<1>3. ASSUME NEW x \in outer PROVE x \in Subckts(n)
  <2>1. PICK j \in Opens(t) : x = Opened(t)[j]
    BY DEF Subckts
  <2>2. j \in 1 .. Len(t) /\ t[j].kind = "open"
    BY <1>0 DEF SwapBasics, Opens
  <2>3. ~ (s <= j /\ j < e)
    BY <1>0, <2>1, <2>2 DEF InSpan
  <2>4. \E i : FromText(t, s, e, w, i, j)
    <3>1. j \in 1 .. s \/ j \in e .. Len(t)
      BY <1>00, <2>2, <2>3
    <3> QED
      BY <3>1 DEF FromText
  <2> QED
    BY <1>2, <2>1, <2>2, <2>4
<1>4. p \in Subckts(n)
  <2>1. FromText(t, s, e, w, s, s)
    BY <1>00 DEF FromText
  <2> QED
    BY <1>0, <1>2, <2>1
<1>5. ASSUME NEW q \in Subckts(w) PROVE p \o q \in Subckts(n)
  <2>1. PICK k \in Opens(w) : q = Opened(w)[k]
    BY DEF Subckts
  <2>2. k \in 1 .. Len(w) /\ w[k].kind = "open"
    BY <1>0 DEF SwapBasics, Opens
  <2>3. PICK i : FromBody(s, w, i, k)
    BY <2>2 DEF FromBody
  <2>4. i \in 1 .. Len(n) /\ n[i] = w[k] /\ Opened(n)[i] = p \o Opened(w)[k]
    BY <2>3, BodyOrigin
  <2>5. i \in Opens(n)
    BY <1>0, <2>2, <2>4 DEF SwapBasics, Opens
  <2> QED
    BY <2>1, <2>4, <2>5 DEF Subckts
<1>6. Subckts(n) \subseteq outer \cup {p} \cup inner
  BY <1>1 DEF Subckts
<1> QED
  BY <1>3, <1>4, <1>5, <1>6

(* The components of the new text.                                         *)
LEMMA SwapOutside ==
  ASSUME NEW t, NEW p, NEW s, NEW e, NEW w, NEW n, Swap(t, p, s, e, w, n)
  PROVE  {c \in Components(n) : ~ Below(p, c)} = {c \in Components(t) : ~ Below(p, c)}
<1>0. SwapBasics(t, w, n) /\ InSpan(t, p, s, e) /\ t[s].kind = "open"
  BY BasicsOfSwap
<1>00. p \in Paths /\ s \in 1 .. Len(t) /\ e \in s + 1 .. Len(t) /\ s \in Nat /\ e \in Nat /\ Len(t) \in Nat
  <2>1. s \in 1 .. Len(t) /\ e \in s + 1 .. Len(t) /\ s \in Nat /\ e \in Nat /\ Len(t) \in Nat
    BY NumbersOfSwap DEF SwapNumbers
  <2> QED
    BY <2>1 DEF Swap
<1>1. ASSUME NEW i \in Devices(n), ~ Below(p, ComponentAt(n, i)) PROVE ComponentAt(n, i) \in Components(t)
  <2>0. i \in 1 .. Len(n) /\ n[i].kind = "device"
    BY <1>0 DEF SwapBasics, Devices
  <2>1. CASE \E j \in 1 .. Len(t) : FromText(t, s, e, w, i, j)
    <3>1. PICK j : FromText(t, s, e, w, i, j)
      BY <2>1
    <3>2. j \in 1 .. Len(t) /\ n[i] = t[j] /\ Opened(n)[i] = Opened(t)[j]
          /\ (j # s => Words(n, i) = Words(t, j))
      BY <3>1, TextOrigin
    <3>3. j \in Devices(t) /\ j # s
      BY <1>0, <2>0, <3>2 DEF SwapBasics, Devices
    <3>4. ComponentAt(n, i) = ComponentAt(t, j)
      BY <3>2, <3>3, ComponentsAgree
    <3> QED
      BY <3>3, <3>4 DEF Components
  <2>2. CASE \E k \in 1 .. Len(w) : FromBody(s, w, i, k)
    <3>1. PICK k : FromBody(s, w, i, k)
      BY <2>2
    <3>2. Opened(n)[i] = p \o Opened(w)[k] /\ Opened(w)[k] \in Paths
      BY <3>1, BodyOrigin
    <3>3. Within(p, Opened(n)[i])
      BY <1>00, <3>2, JoinGrows
    <3>4. Opened(n)[i] \in Paths
      BY <1>0, <2>0, StacksArePaths DEF SwapBasics
    <3>5. ComponentAt(n, i).scope = Opened(n)[i]
      BY ComponentForm
    <3> QED
      BY <1>00, <1>1, <3>3, <3>4, <3>5, PrefixMeans DEF Below
  <2> QED
    BY <2>0, <2>1, <2>2, OriginOf
<1>2. ASSUME NEW j \in Devices(t), ~ Below(p, ComponentAt(t, j)) PROVE ComponentAt(t, j) \in Components(n)
  <2>0. j \in 1 .. Len(t) /\ t[j].kind = "device"
    BY <1>0 DEF SwapBasics, Devices
  <2>1. Opened(t)[j] \in Paths
    BY <1>0, <2>0, StacksArePaths DEF SwapBasics
  <2>2. ComponentAt(t, j).scope = Opened(t)[j]
    BY ComponentForm
  <2>3. ~ Within(p, Opened(t)[j])
    BY <1>00, <1>2, <2>1, <2>2, PrefixMeans DEF Below
  <2>4. ~ (s <= j /\ j < e)
    BY <1>0, <2>0, <2>3 DEF InSpan
  <2>5. PICK i : FromText(t, s, e, w, i, j)
    <3>1. j \in 1 .. s \/ j \in e .. Len(t)
      BY <1>00, <2>0, <2>4
    <3> QED
      BY <3>1 DEF FromText
  <2>6. j # s
    BY <1>0, <2>0
  <2>7. i \in 1 .. Len(n) /\ n[i] = t[j] /\ Opened(n)[i] = Opened(t)[j] /\ Words(n, i) = Words(t, j)
    BY <2>5, <2>6, TextOrigin
  <2>8. i \in Devices(n)
    BY <1>0, <2>0, <2>7 DEF SwapBasics, Devices
  <2>9. ComponentAt(n, i) = ComponentAt(t, j)
    BY <2>7, ComponentsAgree
  <2> QED
    BY <2>8, <2>9 DEF Components
<1> QED
  BY <1>1, <1>2 DEF Components

LEMMA SwapInside ==
  ASSUME NEW t, NEW p, NEW s, NEW e, NEW w, NEW n, Swap(t, p, s, e, w, n)
  PROVE  {c \in Components(n) : Below(p, c)}
           = {[c EXCEPT !.scope = p \o c.scope] : c \in Components(w)}
<1>0. SwapBasics(t, w, n) /\ InSpan(t, p, s, e) /\ t[s].kind = "open"
  BY BasicsOfSwap
<1>00. p \in Paths
  BY DEF Swap
<1>1. ASSUME NEW i, NEW k, FromBody(s, w, i, k), w[k].kind = "device"
      PROVE  /\ k \in Devices(w) /\ i \in Devices(n)
             /\ ComponentAt(n, i) = Lower(p, ComponentAt(w, k))
             /\ Below(p, ComponentAt(n, i))
  <2>1. /\ i \in 1 .. Len(n) /\ k \in 1 .. Len(w)
        /\ n[i] = w[k] /\ Opened(n)[i] = p \o Opened(w)[k]
        /\ Words(n, i) = Words(w, k)
        /\ Opened(w)[k] \in Paths
    BY <1>1, BodyOrigin
  <2>2. k \in Devices(w) /\ i \in Devices(n)
    BY <1>0, <1>1, <2>1 DEF SwapBasics, Devices
  <2>3. ComponentAt(n, i) = Lower(p, ComponentAt(w, k))
    BY <2>1, ComponentsBelow
  <2>4. Within(p, Opened(n)[i])
    BY <1>00, <2>1, JoinGrows
  <2>5. Opened(n)[i] \in Paths
    <3>1. Text(n) /\ i \in 0 .. Len(n)
      BY <1>0, <2>1 DEF SwapBasics
    <3> QED
      BY <3>1, StacksArePaths
  <2>6. ComponentAt(n, i).scope = Opened(n)[i]
    BY ComponentForm
  <2>7. Below(p, ComponentAt(n, i))
    BY <1>00, <2>4, <2>5, <2>6, PrefixMeans DEF Below
  <2> QED
    BY <2>2, <2>3, <2>7
<1>2. ASSUME NEW i \in Devices(n), Below(p, ComponentAt(n, i))
      PROVE  \E k \in Devices(w) :
               ComponentAt(n, i) = Lower(p, ComponentAt(w, k))
  <2>0. i \in 1 .. Len(n) /\ n[i].kind = "device"
    BY <1>0 DEF SwapBasics, Devices
  <2>1. CASE \E j \in 1 .. Len(t) : FromText(t, s, e, w, i, j)
    <3>1. PICK j : FromText(t, s, e, w, i, j)
      BY <2>1
    <3>2. j \in 1 .. Len(t) /\ n[i] = t[j] /\ Opened(n)[i] = Opened(t)[j]
          /\ (s <= j /\ j < e => j = s)
      BY <3>1, TextOrigin
    <3>3. j # s
      BY <1>0, <2>0, <3>2
    <3>4. ~ Within(p, Opened(n)[i])
      BY <1>0, <3>2, <3>3 DEF InSpan
    <3>5. Opened(n)[i] \in Paths
      BY <1>0, <2>0, StacksArePaths DEF SwapBasics
    <3>6. ComponentAt(n, i).scope = Opened(n)[i]
      BY ComponentForm
    <3> QED
      BY <1>00, <1>2, <3>4, <3>5, <3>6, PrefixMeans DEF Below
  <2>2. CASE \E k \in 1 .. Len(w) : FromBody(s, w, i, k)
    <3>1. PICK k : FromBody(s, w, i, k)
      BY <2>2
    <3>2. n[i] = w[k]
      BY <3>1, BodyOrigin
    <3> QED
      BY <1>1, <2>0, <3>1, <3>2
  <2> QED
    BY <2>0, <2>1, <2>2, OriginOf
<1>3. ASSUME NEW k \in Devices(w)
      PROVE  \E i \in Devices(n) :
               /\ Below(p, ComponentAt(n, i))
               /\ ComponentAt(n, i) = Lower(p, ComponentAt(w, k))
  <2>1. k \in 1 .. Len(w) /\ w[k].kind = "device"
    BY <1>0 DEF SwapBasics, Devices
  <2>2. FromBody(s, w, s + k, k)
    BY <2>1 DEF FromBody
  <2> QED
    BY <1>1, <2>1, <2>2
<1>4. \A i \in Devices(n) : Below(p, ComponentAt(n, i)) =>
        \E k \in Devices(w) : ComponentAt(n, i) = Lower(p, ComponentAt(w, k))
  BY <1>2
<1>5. \A k \in Devices(w) : \E i \in Devices(n) :
        Below(p, ComponentAt(n, i)) /\ ComponentAt(n, i) = Lower(p, ComponentAt(w, k))
  BY <1>3
<1>6. {c \in Components(n) : Below(p, c)} = {Lower(p, c) : c \in Components(w)}
  BY <1>4, <1>5 DEF Components
<1> QED
  BY <1>6 DEF Lower

(* The body comes out again as it went in.                                 *)
LEMMA SwapGivesBack ==
  ASSUME NEW t, NEW p, NEW s, NEW e, NEW w, NEW n, Swap(t, p, s, e, w, n)
  PROVE  ExtractSubcktBody(n, p) = w
<1>0. SwapBasics(t, w, n)
  BY BasicsOfSwap
<1>1. /\ Len(t) \in Nat /\ Len(w) \in Nat /\ Len(n) \in Nat
      /\ s \in Nat /\ e \in Nat /\ e <= Len(t)
      /\ Len(n) = s + Len(w) + (Len(t) - e) + 1
  BY NumbersOfSwap DEF SwapNumbers
<1>2. Span(n, p) = <<s, s + Len(w) + 1>>
  <2>1. Single(n) /\ IsSpan(n, p, s, s + Len(w) + 1) /\ p \in Paths /\ p # <<>>
    BY SwapIsSingle, SwapSpan DEF Swap
  <2> QED
    BY <1>0, <2>1, SpanIs DEF SwapBasics
<1>3. ExtractSubcktBody(n, p) = SubSeq(n, s + 1, s + Len(w))
  <2>1. PICK z \in Int : z = s + Len(w) + 1
    BY <1>1
  <2>2. z - 1 = s + Len(w)
    BY <1>1, <2>1
  <2>3. Span(n, p)[1] = s /\ Span(n, p)[2] = z
    BY <1>2, <2>1
  <2>4. ExtractSubcktBody(n, p) = SubSeq(n, s + 1, z - 1)
    BY <2>3 DEF ExtractSubcktBody
  <2> QED
    BY <2>2, <2>4
<1>4. PICK a \in Int : a = s + 1
  BY <1>1
<1>5. PICK b \in Int : b = s + Len(w)
  BY <1>1
<1>6. \A k \in 1 .. Len(w) : n[s + k] = w[k]
  BY DEF Swap, Joined
<1>7. \A i \in a .. b : n[i] \in Lines
  <2> SUFFICES ASSUME NEW i \in a .. b PROVE n[i] \in Lines
    OBVIOUS
  <2>1. i \in 1 .. Len(n)
    BY <1>1, <1>4, <1>5
  <2> QED
    BY <1>0, <2>1, ElementOfSeq DEF SwapBasics
<1>8. /\ SubSeq(n, a, b) \in Seq(Lines)
      /\ Len(SubSeq(n, a, b)) = IF a <= b THEN b - a + 1 ELSE 0
      /\ \A i \in 1 .. b - a + 1 : SubSeq(n, a, b)[i] = n[a + i - 1]
  BY <1>7, SubSeqProperties
<1>9. PICK x : x = SubSeq(n, a, b)
  OBVIOUS
<1>10. x \in Seq(Lines) /\ Len(x) = Len(w)
  BY <1>1, <1>4, <1>5, <1>8, <1>9
<1>11. ASSUME NEW i \in 1 .. Len(w) PROVE x[i] = w[i]
  <2>1. i \in 1 .. b - a + 1 /\ a + i - 1 = s + i
    BY <1>1, <1>4, <1>5
  <2> QED
    BY <1>6, <1>8, <1>9, <2>1
<1>12. x = w
  BY <1>0, <1>10, <1>11, SeqEqual DEF SwapBasics
<1> QED
  BY <1>3, <1>4, <1>5, <1>9, <1>12

(* A swap finds its span, whatever the text.                               *)
LEMMA SwapHappens ==
  ASSUME NetlistEditAssumption, NEW t, WellFormed(t), NEW w \in Body, NEW p \in Subckts(t)
  PROVE  \E s, e : Swap(t, p, s, e, w, ApplyTopologySwap(t, p, w))
<1>0. WellFormed(w) /\ Contained(w)
  BY DEF NetlistEditAssumption
<1>1. /\ t \in Seq(Lines) /\ Len(t) \in Nat /\ DOMAIN t = 1 .. Len(t) /\ Text(t) /\ Single(t)
      /\ Opened(t)[Len(t)] = <<>>
  BY WellFormedIs
<1>2. PICK s \in Opens(t) : Opened(t)[s] = p
  BY DEF Subckts
<1>3. s \in 1 .. Len(t) /\ t[s].kind = "open"
  BY <1>1 DEF Opens
<1>4. p \in Paths /\ p # <<>>
  BY <1>1, <1>2, <1>3, OpensGoDown
<1>5. PICK e \in Nat : IsSpan(t, p, s, e)
  BY <1>1, <1>2, <1>3, <1>4, EveryOpenIsClosed
<1>6. e \in s + 1 .. Len(t)
  BY <1>5 DEF IsSpan
<1>7. Span(t, p) = <<s, e>>
  BY <1>1, <1>4, <1>5, SpanIs
<1>8. w \in Seq(Lines)
  BY <1>0, WellFormedIs
<1>9. Joined(t, s, e, w, SubSeq(t, 1, s) \o w \o SubSeq(t, e, Len(t)))
  BY <1>1, <1>3, <1>6, <1>8, SwapLines
<1>10. ApplyTopologySwap(t, p, w) = SubSeq(t, 1, s) \o w \o SubSeq(t, e, Len(t))
  <2>1. Span(t, p)[1] = s /\ Span(t, p)[2] = e
    BY <1>7
  <2> QED
    BY <2>1, Zenon DEF ApplyTopologySwap
<1>11. PICK n : n = ApplyTopologySwap(t, p, w)
  OBVIOUS
<1>12. Joined(t, s, e, w, n)
  BY <1>9, <1>10, <1>11
<1>13. Swap(t, p, s, e, w, n)
  BY <1>0, <1>4, <1>5, <1>12 DEF Swap
<1> QED
  BY <1>11, <1>13

Swapped(t, p, w, n) ==
  /\ WellFormed(n)
  /\ Subckts(n) = {x \in Subckts(t) : ~ Within(p, x)} \cup {p} \cup {p \o q : q \in Subckts(w)}
  /\ ExtractSubcktBody(n, p) = w
  /\ {c \in Components(n) : ~ Below(p, c)} = {c \in Components(t) : ~ Below(p, c)}
  /\ {c \in Components(n) : Below(p, c)} = {[c EXCEPT !.scope = p \o c.scope] : c \in Components(w)}
LEMMA SwapDoes ==
  ASSUME NetlistEditAssumption, NEW t, WellFormed(t), NEW w \in Body, NEW p \in Subckts(t)
  PROVE  Swapped(t, p, w, ApplyTopologySwap(t, p, w))
<1>1. PICK n : n = ApplyTopologySwap(t, p, w)
  OBVIOUS
<1>2. PICK s, e : Swap(t, p, s, e, w, n)
  BY <1>1, SwapHappens
<1>3. WellFormed(n)
  BY <1>2, SwapIsWellFormed
<1>4. Subckts(n) = {x \in Subckts(t) : ~ Within(p, x)} \cup {p} \cup {p \o q : q \in Subckts(w)}
  BY <1>2, SwapSubckts
<1>5. ExtractSubcktBody(n, p) = w
  BY <1>2, SwapGivesBack
<1>6. {c \in Components(n) : ~ Below(p, c)} = {c \in Components(t) : ~ Below(p, c)}
  BY <1>2, SwapOutside
<1>7. {c \in Components(n) : Below(p, c)} = {[c EXCEPT !.scope = p \o c.scope] : c \in Components(w)}
  BY <1>2, SwapInside
<1>8. Swapped(t, p, w, n)
  BY <1>3, <1>4, <1>5, <1>6, <1>7 DEF Swapped
<1> QED
  BY <1>1, <1>8

(* The largest of a bounded set, and the last of some places.              *)
LEMMA MaxIs ==
  ASSUME NEW T, \A x \in T : x \in Int, NEW m \in T, \A x \in T : x <= m
  PROVE  Max(T) = m
<1>1. Max(T) = CHOOSE x \in T : \A y \in T : x >= y
  BY DEF Max
<1>2. \A x \in T : (\A y \in T : x >= y) <=> x = m
  OBVIOUS
<1> QED
  BY <1>1, <1>2

LEMMA MaxOf ==
  ASSUME NEW n \in Nat, NEW T \in SUBSET (0 .. n), T # {}
  PROVE  Max(T) \in T /\ \A x \in T : x <= Max(T)
<1>1. PICK m \in T : \A x \in T : m >= x
  BY GreatestOne
<1>2. (\A x \in T : x \in Int) /\ \A x \in T : x <= m
  BY <1>1
<1>3. Max(T) = m
  BY <1>2, MaxIs
<1> QED
  BY <1>2, <1>3

Highest(q, P) == q \in P /\ \A x \in P : x[1] <= q[1] /\ (x[1] = q[1] => x[2] <= q[2])
LEMMA LastPlaceIs ==
  ASSUME NEW P, \A x \in P : x[1] \in Int /\ x[2] \in Int /\ x = <<x[1], x[2]>>,
         NEW q, Highest(q, P)
  PROVE  LastPlace(P) = q
<1>1. q \in P /\ \A x \in P : x[1] <= q[1] /\ (x[1] = q[1] => x[2] <= q[2])
  BY DEF Highest
<1> DEFINE below == {place[1] : place \in P}
           along == {place[2] : place \in {x \in P : x[1] = q[1]}}
<1>2. Max(below) = q[1]
  <2>1. (\A x \in below : x \in Int) /\ q[1] \in below /\ \A x \in below : x <= q[1]
    BY <1>1
  <2> HIDE DEF below
  <2> QED
    BY <2>1, MaxIs
<1>3. Max(along) = q[2]
  <2>1. (\A x \in along : x \in Int) /\ q[2] \in along /\ \A x \in along : x <= q[2]
    BY <1>1
  <2> HIDE DEF along
  <2> QED
    BY <2>1, MaxIs
<1>4. LastPlace(P) = <<Max(below), Max({place[2] : place \in {x \in P : x[1] = Max(below)}})>>
  BY DEF LastPlace
<1>5. LastPlace(P) = <<q[1], q[2]>>
  BY <1>2, <1>3, <1>4
<1> QED
  BY <1>1, <1>5

(* The places of a component, and the last of some of them.                *)
LEMMA PlacesAre ==
  ASSUME NEW t, WellFormed(t), NEW i \in 1 .. Len(t)
  PROVE  /\ \A q : q \in DOMAIN Words(t, i) <=>
                     /\ q = <<q[1], q[2]>> /\ q # <<0, 1>>
                     /\ q[1] \in Offsets(t, i) /\ q[2] \in 1 .. Len(t[i + q[1]].words)
         /\ \A q \in DOMAIN Words(t, i) :
              /\ q[1] \in 0 .. Len(t) - i /\ i + q[1] \in 1 .. Len(t)
              /\ Len(t[i + q[1]].words) \in Nat
              /\ Words(t, i)[q] = t[i + q[1]].words[q[2]]
         /\ Len(t) \in Nat
<1>0. Len(t) \in Nat /\ \A j \in 1 .. Len(t) : t[j].words \in LineWords
  BY WellFormedIs
<1>1. Words(t, i) = [q \in Placed(t, i) |-> t[i + q[1]].words[q[2]]]
  BY <1>0, WordsAre
<1>2. \A d \in Offsets(t, i) : d \in 0 .. Len(t) - i /\ i + d \in 1 .. Len(t)
  BY <1>0 DEF Offsets
<1>3. \A d \in Offsets(t, i) : /\ Len(t[i + d].words) \in Nat
                               /\ DOMAIN t[i + d].words = 1 .. Len(t[i + d].words)
  <2> SUFFICES ASSUME NEW d \in Offsets(t, i)
               PROVE  /\ Len(t[i + d].words) \in Nat
                      /\ DOMAIN t[i + d].words = 1 .. Len(t[i + d].words)
    OBVIOUS
  <2>1. t[i + d].words \in LineWords
    BY <1>0, <1>2
  <2> QED
    BY <2>1, LenProperties DEF LineWords
<1>4. \A q : q \in Placed(t, i) <=>
               /\ q = <<q[1], q[2]>> /\ q # <<0, 1>>
               /\ q[1] \in Offsets(t, i) /\ q[2] \in 1 .. Len(t[i + q[1]].words)
  <2> DEFINE O == Offsets(t, i)
             W(d) == DOMAIN t[i + d].words
  <2>1. \A q : q \in Placed(t, i) <=> q # <<0, 1>> /\ \E d \in O : q \in {d} \X W(d)
    BY DEF Placed
  <2>2. \A d \in O : W(d) = 1 .. Len(t[i + d].words)
    BY <1>3
  <2> HIDE DEF O, W
  <2>3. \A q : (\E d \in O : q \in {d} \X W(d)) <=> q = <<q[1], q[2]>> /\ q[1] \in O /\ q[2] \in W(q[1])
    OBVIOUS
  <2>4. \A q : q \in Placed(t, i) <=> q # <<0, 1>> /\ q = <<q[1], q[2]>> /\ q[1] \in O
                                      /\ q[2] \in 1 .. Len(t[i + q[1]].words)
    BY <2>1, <2>2, <2>3
  <2> QED
    BY <2>4 DEF O
<1>5. DOMAIN Words(t, i) = Placed(t, i) /\ \A q \in Placed(t, i) : Words(t, i)[q] = t[i + q[1]].words[q[2]]
  BY <1>1
<1>6. \A q \in Placed(t, i) : q[1] \in Offsets(t, i)
  BY <1>4
<1> QED
  BY <1>0, <1>2, <1>3, <1>4, <1>5, <1>6

LEMMA LastOfPlaces ==
  ASSUME NEW t, WellFormed(t), NEW i \in 1 .. Len(t), NEW P \in SUBSET DOMAIN Words(t, i), P # {}
  PROVE  Highest(LastPlace(P), P)
<1>0. /\ Len(t) \in Nat
      /\ \A q \in P : /\ q = <<q[1], q[2]>> /\ q[1] \in 0 .. Len(t) - i
                      /\ q[2] \in 1 .. Len(t[i + q[1]].words) /\ Len(t[i + q[1]].words) \in Nat
  BY PlacesAre
<1>1. PICK a \in Nat : (\E q \in P : q[1] = a) /\ \A q \in P : q[1] <= a
  <2> DEFINE below == {q[1] : q \in P}
  <2>1. below \in SUBSET (0 .. Len(t) - i) /\ below # {} /\ Len(t) - i \in Nat
    BY <1>0
  <2> HIDE DEF below
  <2>2. PICK m \in below : \A x \in below : m >= x
    BY <2>1, GreatestOne
  <2>3. m \in Nat
    BY <2>1
  <2>4. (\E q \in P : q[1] = m) /\ \A q \in P : q[1] <= m
    BY <1>0, <2>1, <2>2, <2>3 DEF below
  <2> QED
    BY <2>3, <2>4
<1>2. PICK l \in Nat : l = Len(t[i + a].words)
  BY <1>0, <1>1
<1>3. PICK b \in Nat : (\E q \in P : q = <<a, b>>) /\ \A q \in P : q[1] = a => q[2] <= b
  <2> DEFINE along == {q[2] : q \in {x \in P : x[1] = a}}
  <2>1. along \in SUBSET (0 .. l) /\ along # {}
    BY <1>0, <1>1, <1>2
  <2>2. PICK m \in along : \A x \in along : m >= x
    <3> HIDE DEF along
    <3> QED
      BY <2>1, GreatestOne
  <2>3. m \in Nat
    BY <2>1
  <2>4. \E q \in P : q = <<a, m>>
    BY <1>0
  <2>5. ASSUME NEW q \in P, q[1] = a PROVE q[2] <= m
    <3>1. q[2] \in along /\ q[2] \in Nat
      BY <1>0, <1>2, <2>5
    <3> QED
      BY <2>2, <2>3, <3>1
  <2> QED
    BY <2>3, <2>4, <2>5
<1>4. Highest(<<a, b>>, P)
  BY <1>1, <1>3 DEF Highest
<1>5. \A q \in P : q[1] \in Int /\ q[2] \in Int /\ q = <<q[1], q[2]>>
  BY <1>0
<1>6. LastPlace(P) = <<a, b>>
  BY <1>4, <1>5, LastPlaceIs
<1> QED
  BY <1>4, <1>6

(* A token put at a place: the words of a component after a change.        *)
Put(ws, q, token) == [place \in DOMAIN ws \cup {q} |-> IF place = q THEN token ELSE ws[place]]
PutsLast(ws, q, token) ==
  /\ token.key \in STRING \cup {None}
  /\ \A r : Keyed(ws, r) # {} => LastPlace(Keyed(ws, r)) \in Keyed(ws, r)
  /\ q = <<q[1], q[2]>> /\ q[1] \in Int /\ q[2] \in Int
  /\ \/ q \in Keyed(ws, token.key) /\ q = LastPlace(Keyed(ws, token.key))
     \/ q \notin DOMAIN ws /\ Keyed(ws, token.key) = {} /\ token.key # None
LEMMA PutKeyed ==
  ASSUME NEW ws, NEW q, NEW token, PutsLast(ws, q, token)
  PROVE  /\ \A r : r # token.key => Keyed(Put(ws, q, token), r) = Keyed(ws, r) /\ q \notin Keyed(ws, r)
         /\ Keyed(Put(ws, q, token), token.key) # {}
         /\ LastPlace(Keyed(Put(ws, q, token), token.key)) = q
         /\ token.key = None => Keyed(Put(ws, q, token), None) = Keyed(ws, None)
<1>1. CASE q \in Keyed(ws, token.key) /\ q = LastPlace(Keyed(ws, token.key))
  <2>1. q \in DOMAIN ws /\ ws[q].key = token.key
    BY <1>1 DEF Keyed
  <2>2. \A r : Keyed(Put(ws, q, token), r) = Keyed(ws, r)
    BY <2>1 DEF Keyed, Put
  <2>3. \A r : r # token.key => q \notin Keyed(ws, r)
    BY <2>1 DEF Keyed
  <2> QED
    BY <1>1, <2>2, <2>3
<1>2. CASE q \notin DOMAIN ws /\ Keyed(ws, token.key) = {} /\ token.key # None
  <2>1. \A r : r # token.key => Keyed(Put(ws, q, token), r) = Keyed(ws, r) /\ q \notin Keyed(ws, r)
    BY <1>2 DEF Keyed, Put
  <2>2. Keyed(Put(ws, q, token), token.key) = {q}
    BY <1>2 DEF Keyed, Put
  <2>3. LastPlace({q}) = q
    <3>1. q = <<q[1], q[2]>> /\ q[1] \in Int /\ q[2] \in Int
      BY DEF PutsLast
    <3>2. Highest(q, {q})
      BY <3>1 DEF Highest
    <3>3. \A x \in {q} : x[1] \in Int /\ x[2] \in Int /\ x = <<x[1], x[2]>>
      BY <3>1
    <3> QED
      BY <3>2, <3>3, LastPlaceIs
  <2> QED
    BY <1>2, <2>1, <2>2, <2>3
<1> QED
  BY <1>1, <1>2 DEF PutsLast

LEMMA PutMeans ==
  ASSUME NEW ws, NEW q, NEW token, PutsLast(ws, q, token)
  PROVE  /\ NodesOf(Put(ws, q, token)) = NodesOf(ws)
         /\ ValueOf(Put(ws, q, token)) = IF token.key = None THEN token.val ELSE ValueOf(ws)
         /\ NamesOf(Put(ws, q, token)) = NamesOf(ws) \cup ({token.key} \ {None})
         /\ \A p \in NamesOf(Put(ws, q, token)) :
              ParamsOf(Put(ws, q, token))[p] = IF p = token.key THEN token.val ELSE ParamsOf(ws)[p]
<1> DEFINE us == Put(ws, q, token)
<1>1. /\ \A r : r # token.key => Keyed(us, r) = Keyed(ws, r) /\ q \notin Keyed(ws, r)
      /\ Keyed(us, token.key) # {}
      /\ LastPlace(Keyed(us, token.key)) = q
      /\ token.key = None => Keyed(us, None) = Keyed(ws, None)
  BY PutKeyed
<1>2. DOMAIN us = DOMAIN ws \cup {q} /\ us[q] = token /\ \A x \in DOMAIN ws : x # q => us[x] = ws[x]
  BY DEF Put
<1>3. \A r : Keyed(ws, r) # {} => LastPlace(Keyed(ws, r)) \in Keyed(ws, r)
  BY DEF PutsLast
<1>4. \A r : r # token.key /\ Keyed(ws, r) # {} =>
        /\ LastPlace(Keyed(us, r)) = LastPlace(Keyed(ws, r))
        /\ us[LastPlace(Keyed(us, r))] = ws[LastPlace(Keyed(ws, r))]
  BY <1>1, <1>2, <1>3 DEF Keyed
<1> HIDE DEF us
<1>5. NodesOf(us) = NodesOf(ws)
  <2>1. Keyed(us, None) = Keyed(ws, None)
    BY <1>1
  <2>2. \A x \in Keyed(us, None) \ {LastPlace(Keyed(us, None))} : us[x].val = ws[x].val
    <3>1. CASE token.key = None
      BY <1>1, <1>2, <2>1, <3>1 DEF Keyed
    <3>2. CASE token.key # None
      BY <1>1, <1>2, <2>1, <3>2 DEF Keyed
    <3> QED
      BY <3>1, <3>2
  <2> QED
    BY <2>1, <2>2 DEF NodesOf
<1>6. ValueOf(us) = IF token.key = None THEN token.val ELSE ValueOf(ws)
  <2>1. CASE token.key = None
    BY <1>1, <1>2, <2>1 DEF ValueOf
  <2>2. CASE token.key # None
    BY <1>1, <1>4, <2>2 DEF ValueOf
  <2> QED
    BY <2>1, <2>2
<1>7. \A x, r : r \in NamesOf(x) <=> r # None /\ Keyed(x, r) # {}
  BY DEF NamesOf, Keyed
<1>8. NamesOf(us) = NamesOf(ws) \cup ({token.key} \ {None})
  <2>1. \A r : r \in NamesOf(us) <=> r \in NamesOf(ws) \cup ({token.key} \ {None})
    BY <1>1, <1>7
  <2> QED
    BY <2>1
<1>9. ASSUME NEW p \in NamesOf(us)
      PROVE  ParamsOf(us)[p] = IF p = token.key THEN token.val ELSE ParamsOf(ws)[p]
  <2>1. ParamsOf(us)[p] = us[LastPlace(Keyed(us, p))].val
    BY DEF ParamsOf
  <2>2. CASE p = token.key
    BY <1>1, <1>2, <2>1, <2>2
  <2>3. CASE p # token.key
    <3>1. p \in NamesOf(ws) /\ Keyed(ws, p) # {}
      BY <1>1, <1>7, <2>3
    <3>2. ParamsOf(ws)[p] = ws[LastPlace(Keyed(ws, p))].val
      BY <3>1 DEF ParamsOf
    <3> QED
      BY <1>4, <2>1, <2>3, <3>1, <3>2
  <2> QED
    BY <2>2, <2>3
<1> QED
  BY <1>5, <1>6, <1>8, <1>9 DEF us

(* One line written: what a device says, or a continuation of it.          *)
Touched(t, u, l, ws) ==
  /\ WellFormed(t) /\ l \in 1 .. Len(t) /\ ws \in LineWords
  /\ t[l].kind \in {"device", "more"}
  /\ u = [t EXCEPT ![l] = [t[l] EXCEPT !.words = ws]]
TouchBasics(t, u, l, ws) ==
  /\ u \in Seq(Lines) /\ Len(u) = Len(t) /\ DOMAIN u = 1 .. Len(t)
  /\ \A j \in 1 .. Len(t) : u[j].kind = t[j].kind /\ (j # l => u[j] = t[j])
  /\ u[l].words = ws
LEMMA BasicsOfTouch ==
  ASSUME NEW t, NEW u, NEW l, NEW ws, Touched(t, u, l, ws)
  PROVE  TouchBasics(t, u, l, ws)
<1>0. /\ t \in Seq(Lines) /\ l \in 1 .. Len(t) /\ ws \in LineWords /\ Len(t) \in Nat
      /\ \A j \in 1 .. Len(t) : t[j] \in Lines
  BY WellFormedIs DEF Touched
<1>1. PICK x : x = [t[l] EXCEPT !.words = ws]
  OBVIOUS
<1>2. x \in Lines /\ x.kind = t[l].kind /\ x.words = ws
  BY <1>0, <1>1 DEF Lines, LineWords
<1>3. u = [t EXCEPT ![l] = x]
  BY <1>1 DEF Touched
<1>4. /\ [t EXCEPT ![l] = x] \in Seq(Lines)
      /\ Len([t EXCEPT ![l] = x]) = Len(t)
      /\ \A j \in 1 .. Len(t) : [t EXCEPT ![l] = x][j] = IF j = l THEN x ELSE t[j]
  BY <1>0, <1>2, ExceptSeq
<1>5. u \in Seq(Lines) /\ Len(u) = Len(t) /\ \A j \in 1 .. Len(t) : u[j] = IF j = l THEN x ELSE t[j]
  BY <1>3, <1>4
<1>6. DOMAIN u = 1 .. Len(t)
  BY <1>5, LenProperties
<1> QED
  BY <1>0, <1>2, <1>5, <1>6 DEF TouchBasics

LEMMA TouchStacks ==
  ASSUME NEW t, NEW u, NEW l, NEW ws, Touched(t, u, l, ws)
  PROVE  /\ Text(u) /\ Opened(u) = Opened(t) /\ Opens(u) = Opens(t) /\ Devices(u) = Devices(t)
         /\ \A i \in Opens(t) : u[i] = t[i]
<1>0. TouchBasics(t, u, l, ws)
  BY BasicsOfTouch
<1>1. /\ Len(u) = Len(t) /\ DOMAIN u = 1 .. Len(t) /\ u \in Seq(Lines)
      /\ \A j \in 1 .. Len(t) : u[j].kind = t[j].kind /\ (j # l => u[j] = t[j])
  BY <1>0 DEF TouchBasics
<1>2. Len(t) \in Nat /\ DOMAIN t = 1 .. Len(t) /\ Text(t) /\ t[l].kind \in {"device", "more"}
  BY WellFormedIs DEF Touched
<1>3. \A j \in 1 .. Len(t) : u[j].kind = "open" => u[j] = t[j]
  BY <1>1, <1>2
<1>4. Text(u)
  BY <1>1, <1>2, <1>3 DEF Text, Named
<1>5. \A j \in 1 .. Len(t) : Alike(u[j], t[j])
  BY <1>1, <1>3 DEF Alike
<1>6. Opened(u)[0] = Opened(t)[0]
  BY <1>1, <1>2, StackAt
<1>7. RunsAlike(u, 0, t, 0, Len(t))
  <2>1. \A k \in 1 .. Len(t) : Alike(u[0 + k], t[0 + k])
    <3> SUFFICES ASSUME NEW k \in 1 .. Len(t) PROVE Alike(u[0 + k], t[0 + k])
      OBVIOUS
    <3>1. 0 + k = k
      OBVIOUS
    <3> QED
      BY <1>5, <3>1
  <2> QED
    BY <1>1, <1>2, <1>4, <1>6, <2>1 DEF RunsAlike
<1>8. SameStacks(u, 0, t, 0, Len(t))
  BY <1>7, FollowsAtTop
<1>9. \A k \in 0 .. Len(t) : Opened(u)[k] = Opened(t)[k]
  <2> SUFFICES ASSUME NEW k \in 0 .. Len(t) PROVE Opened(u)[k] = Opened(t)[k]
    OBVIOUS
  <2>1. 0 + k = k
    OBVIOUS
  <2>2. Opened(u)[0 + k] = Opened(t)[0 + k]
    BY <1>8 DEF SameStacks
  <2> QED
    BY <2>1, <2>2
<1>10. Opened(u) = Opened(t)
  <2>1. DOMAIN Opened(u) = 0 .. Len(t) /\ DOMAIN Opened(t) = 0 .. Len(t)
    BY <1>1, <1>2, StackAt
  <2>2. /\ \E f : StackTo(u, Len(u), f)
        /\ \E f : StackTo(t, Len(t), f)
    BY <1>1, <1>2, StacksExist
  <2>3. /\ Opened(u) = [i \in 0 .. Len(t) |-> Opened(u)[i]]
        /\ Opened(t) = [i \in 0 .. Len(t) |-> Opened(t)[i]]
    <3>1. ASSUME NEW x, Len(x) \in Nat, \E f : StackTo(x, Len(x), f)
          PROVE  Opened(x) = [i \in DOMAIN Opened(x) |-> Opened(x)[i]]
      <4> DEFINE up(i, y) == After(x[i], y)
      <4>1. Opened(x) = [i \in 0 .. Len(x) |-> IF i = 0 THEN <<>> ELSE up(i, Opened(x)[i - 1])]
        BY <3>1 DEF StackTo, Opened
      <4> HIDE DEF up
      <4> QED
        BY <4>1
    <3> QED
      BY <1>1, <1>2, <2>1, <2>2, <3>1
  <2> QED
    BY <1>9, <2>3
<1>11. Opens(u) = Opens(t) /\ Devices(u) = Devices(t)
  BY <1>1, <1>2 DEF Opens, Devices
<1>12. \A i \in Opens(t) : u[i] = t[i]
  BY <1>1, <1>2, <1>3 DEF Opens
<1> QED
  BY <1>4, <1>10, <1>11, <1>12

(* The other components say what they said.                                *)
LEMMA TouchOffsets ==
  ASSUME NEW t, NEW u, NEW l, NEW ws, Touched(t, u, l, ws), NEW i \in 1 .. Len(t)
  PROVE  Offsets(u, i) = Offsets(t, i)
<1>0. Len(t) \in Nat
  BY WellFormedIs DEF Touched
<1>1. Len(u) = Len(t) /\ \A j \in 1 .. Len(t) : u[j].kind = t[j].kind
  BY BasicsOfTouch DEF TouchBasics
<1>2. ASSUME NEW d \in 0 .. Len(t) - i PROVE d \in Offsets(u, i) <=> d \in Offsets(t, i)
  <2>1. u[i + d].kind = t[i + d].kind
    <3>1. i + d \in 1 .. Len(t)
      BY <1>0
    <3> QED
      BY <1>1, <3>1
  <2>2. \A k \in 1 .. d : u[i + k].kind = t[i + k].kind
    <3> SUFFICES ASSUME NEW k \in 1 .. d PROVE u[i + k].kind = t[i + k].kind
      OBVIOUS
    <3>1. i + k \in 1 .. Len(t)
      BY <1>0
    <3> QED
      BY <1>1, <3>1
  <2> QED
    BY <1>1, <2>1, <2>2 DEF Offsets, Follower
<1> QED
  BY <1>1, <1>2 DEF Offsets

LEMMA TouchElsewhere ==
  ASSUME NEW t, NEW u, NEW l, NEW ws, Touched(t, u, l, ws), NEW i \in 1 .. Len(t),
         l \notin Physical(t, i)
  PROVE  Words(u, i) = Words(t, i) /\ u[i] = t[i]
<1>0. Len(t) \in Nat /\ Len(u) = Len(t)
      /\ \A j \in 1 .. Len(t) : j # l => u[j] = t[j]
  BY BasicsOfTouch, WellFormedIs DEF Touched, TouchBasics
<1>1. Offsets(u, i) = Offsets(t, i)
  BY TouchOffsets
<1>2. ASSUME NEW d \in Offsets(t, i) PROVE u[i + d] = t[i + d]
  <2>1. d \in Int /\ i + d \in 1 .. Len(t) /\ (i + d) - i = d
    BY <1>0 DEF Offsets
  <2>2. i + d \in Physical(t, i)
    BY <1>0, <2>1, OwnLines
  <2> QED
    BY <1>0, <2>1, <2>2
<1>3. Placed(u, i) = Placed(t, i)
  BY <1>1, <1>2 DEF Placed
<1>4. \A q \in Placed(t, i) : u[i + q[1]].words[q[2]] = t[i + q[1]].words[q[2]]
  BY <1>2 DEF Placed
<1>5. /\ Words(t, i) = [q \in Placed(t, i) |-> t[i + q[1]].words[q[2]]]
      /\ Words(u, i) = [q \in Placed(u, i) |-> u[i + q[1]].words[q[2]]]
  BY <1>0, WordsAre
<1>6. u[i] = t[i]
  <2>1. i \in Physical(t, i)
    BY DEF Physical
  <2> QED
    BY <1>0, <2>1
<1> QED
  BY <1>3, <1>4, <1>5, <1>6

LEMMA LinesHaveOneOwner ==
  ASSUME NEW t, Len(t) \in Nat, NEW i \in 1 .. Len(t), NEW j \in 1 .. Len(t),
         t[i].kind = "device", t[j].kind = "device", NEW l, l \in Physical(t, i), l \in Physical(t, j)
  PROVE  i = j
<1> DEFINE owns(x) == l = x \/ (l \in x + 1 .. Len(t) /\ t[l].kind = "more"
                               /\ \A k \in x + 1 .. l : t[k].kind \in {"more", "comment"})
<1>1. owns(i) /\ owns(j)
  BY DEF Physical
<1>2. ASSUME NEW x \in 1 .. Len(t), NEW y \in 1 .. Len(t), owns(x), owns(y), x < y, t[y].kind = "device"
      PROVE  FALSE
  <2>1. l \in Int /\ y <= l /\ y \in x + 1 .. l
    BY <1>2
  <2> QED
    BY <1>2, <2>1
<1> HIDE DEF owns
<1>3. ~ (i < j) /\ ~ (j < i)
  BY <1>1, <1>2
<1> QED
  BY <1>3

LEMMA PlacedIs ==
  ASSUME NEW t, NEW i
  PROVE  \A q : q \in Placed(t, i) <=> /\ q # <<0, 1>> /\ q = <<q[1], q[2]>>
                                       /\ q[1] \in Offsets(t, i) /\ q[2] \in DOMAIN t[i + q[1]].words
<1> DEFINE O == Offsets(t, i)
           W(d) == DOMAIN t[i + d].words
<1>1. \A q : q \in Placed(t, i) <=> q # <<0, 1>> /\ \E d \in O : q \in {d} \X W(d)
  BY DEF Placed
<1>2. \A q : q \in Placed(t, i) <=> q # <<0, 1>> /\ q = <<q[1], q[2]>> /\ q[1] \in O /\ q[2] \in W(q[1])
  <2> HIDE DEF O, W
  <2> QED
    BY <1>1
<1> QED
  BY <1>2

(* The component that is written says so at one place.                     *)
PutIn(line, ws, k, token) ==
  /\ k \in Int /\ DOMAIN ws = DOMAIN line.words \cup {k} /\ ws[k] = token
  /\ \A x \in DOMAIN line.words : x # k => ws[x] = line.words[x]
LEMMA TouchWords ==
  ASSUME NEW t, NEW u, NEW l, NEW ws, Touched(t, u, l, ws),
         NEW i \in 1 .. Len(t), l \in Physical(t, i),
         NEW k, NEW token, PutIn(t[l], ws, k, token), <<l - i, k>> # <<0, 1>>
  PROVE  Words(u, i) = Put(Words(t, i), <<l - i, k>>, token)
<1>0. /\ Len(t) \in Nat /\ Len(u) = Len(t) /\ l \in 1 .. Len(t)
      /\ \A j \in 1 .. Len(t) : j # l => u[j] = t[j]
      /\ u[l].words = ws
  BY BasicsOfTouch, WellFormedIs DEF Touched, TouchBasics
<1>1. Offsets(u, i) = Offsets(t, i)
  BY TouchOffsets
<1>2. PICK d \in Int : d = l - i
  BY <1>0
<1>3. d \in Offsets(t, i) /\ i + d = l
  BY <1>0, <1>2, OwnLines
<1>4. \A x \in Offsets(t, i) : x # d => u[i + x] = t[i + x]
  <2> SUFFICES ASSUME NEW x \in Offsets(t, i), x # d PROVE u[i + x] = t[i + x]
    OBVIOUS
  <2>1. x \in Int /\ i + x \in 1 .. Len(t) /\ i + x # l
    BY <1>0, <1>2 DEF Offsets
  <2> QED
    BY <1>0, <2>1
<1>5. PICK q : q = <<d, k>>
  OBVIOUS
<1>6. q[1] = d /\ q[2] = k /\ q # <<0, 1>> /\ q = <<q[1], q[2]>>
  BY <1>2, <1>5
<1>7. /\ DOMAIN ws = DOMAIN t[l].words \cup {k} /\ ws[k] = token
      /\ \A x \in DOMAIN t[l].words : x # k => ws[x] = t[l].words[x]
  BY DEF PutIn
<1>8. \A x : x \in Placed(u, i) <=> x \in Placed(t, i) \cup {q}
  <2> SUFFICES ASSUME NEW x PROVE x \in Placed(u, i) <=> x \in Placed(t, i) \cup {q}
    OBVIOUS
  <2>1. x \in Placed(u, i) <=> /\ x # <<0, 1>> /\ x = <<x[1], x[2]>>
                               /\ x[1] \in Offsets(t, i) /\ x[2] \in DOMAIN u[i + x[1]].words
    BY <1>1, PlacedIs
  <2>2. x \in Placed(t, i) <=> /\ x # <<0, 1>> /\ x = <<x[1], x[2]>>
                               /\ x[1] \in Offsets(t, i) /\ x[2] \in DOMAIN t[i + x[1]].words
    BY PlacedIs
  <2>3. CASE x[1] = d
    <3>1. u[i + x[1]].words = ws /\ t[i + x[1]] = t[l]
      BY <1>0, <1>3, <2>3
    <3>2. x = <<x[1], x[2]>> => (x = q <=> x[2] = k)
      BY <1>5, <1>6, <2>3
    <3> QED
      BY <1>3, <1>6, <1>7, <2>1, <2>2, <2>3, <3>1, <3>2
  <2>4. CASE x[1] # d
    <3>1. x # q
      BY <1>6, <2>4
    <3> QED
      BY <1>4, <2>1, <2>2, <2>4, <3>1
  <2> QED
    BY <2>3, <2>4
<1>9. /\ Words(t, i) = [x \in Placed(t, i) |-> t[i + x[1]].words[x[2]]]
      /\ Words(u, i) = [x \in Placed(u, i) |-> u[i + x[1]].words[x[2]]]
  BY <1>0, WordsAre
<1>10. \A x \in Placed(u, i) :
         u[i + x[1]].words[x[2]] = IF x = q THEN token ELSE t[i + x[1]].words[x[2]]
  <2> SUFFICES ASSUME NEW x \in Placed(u, i)
               PROVE  u[i + x[1]].words[x[2]] = IF x = q THEN token ELSE t[i + x[1]].words[x[2]]
    OBVIOUS
  <2>1. x = <<x[1], x[2]>> /\ x[1] \in Offsets(t, i)
    BY <1>1, PlacedIs
  <2>2. CASE x = q
    BY <1>0, <1>3, <1>6, <1>7, <2>2
  <2>3. CASE x # q /\ x[1] = d
    <3>1. x[2] # k
      BY <1>5, <2>1, <2>3
    <3>2. x[2] \in DOMAIN ws
      <4>1. x[2] \in DOMAIN u[i + x[1]].words
        BY PlacedIs
      <4> QED
        BY <1>0, <1>3, <2>3, <4>1
    <3> QED
      BY <1>0, <1>3, <1>7, <2>3, <3>1, <3>2
  <2>4. CASE x[1] # d
    <3>1. x # q /\ u[i + x[1]] = t[i + x[1]]
      BY <1>4, <1>6, <2>1, <2>4
    <3> QED
      BY <3>1
  <2> QED
    BY <2>2, <2>3, <2>4
<1>11. Words(u, i) = Put(Words(t, i), q, token)
  <2>1. Placed(u, i) = Placed(t, i) \cup {q}
    BY <1>8
  <2>2. DOMAIN Words(t, i) = Placed(t, i) /\ \A x \in Placed(t, i) : Words(t, i)[x] = t[i + x[1]].words[x[2]]
    BY <1>9
  <2>3. Words(u, i) = [x \in Placed(t, i) \cup {q} |-> u[i + x[1]].words[x[2]]]
    BY <1>9, <2>1
  <2>4. \A x \in Placed(t, i) \cup {q} :
          u[i + x[1]].words[x[2]] = IF x = q THEN token ELSE Words(t, i)[x]
    BY <1>10, <2>1, <2>2
  <2>5. Put(Words(t, i), q, token)
          = [x \in Placed(t, i) \cup {q} |-> IF x = q THEN token ELSE Words(t, i)[x]]
    BY <2>2 DEF Put
  <2> QED
    BY <2>3, <2>4, <2>5
<1> QED
  BY <1>2, <1>5, <1>11

(* Where a value is written is where the parse will find it last.          *)
LEMMA PhysicalLines ==
  ASSUME NEW t, WellFormed(t), NEW i \in Devices(t)
  PROVE  /\ i \in 1 .. Len(t) /\ Len(t) \in Nat /\ i \in Physical(t, i)
         /\ Physical(t, i) \in SUBSET (0 .. Len(t))
         /\ \A j \in Physical(t, i) :
              /\ j \in 1 .. Len(t) /\ j >= i /\ t[j].kind \in {"device", "more"}
              /\ t[j].words \in LineWords
<1>1. Len(t) \in Nat /\ DOMAIN t = 1 .. Len(t) /\ \A j \in 1 .. Len(t) : t[j].words \in LineWords
  BY WellFormedIs
<1>2. i \in 1 .. Len(t) /\ t[i].kind = "device"
  BY <1>1 DEF Devices
<1>3. \A j \in Physical(t, i) : j \in 1 .. Len(t) /\ j >= i /\ t[j].kind \in {"device", "more"}
  BY <1>1, <1>2 DEF Physical
<1>4. Physical(t, i) \in SUBSET (0 .. Len(t))
  BY <1>1, <1>3
<1>5. i \in Physical(t, i)
  BY DEF Physical
<1> QED
  BY <1>1, <1>2, <1>3, <1>4, <1>5

LEMMA AddressedIsKeyed ==
  ASSUME NEW t, WellFormed(t), NEW i \in Devices(t), NEW e
  PROVE  /\ \A j \in Physical(t, i) : \A k \in Addressed(t[j], e) :
              <<j - i, k>> # <<0, 1>> => <<j - i, k>> \in Keyed(Words(t, i), NewToken(e).key)
         /\ \A q \in Keyed(Words(t, i), NewToken(e).key) :
              /\ q[1] \in Nat /\ q[2] \in Nat /\ q = <<q[1], q[2]>> /\ q # <<0, 1>> /\ q[2] >= 1
              /\ i + q[1] \in Physical(t, i) /\ q[2] \in Addressed(t[i + q[1]], e)
<1>0. /\ i \in 1 .. Len(t) /\ Len(t) \in Nat
      /\ \A j \in Physical(t, i) : j \in 1 .. Len(t) /\ t[j].words \in LineWords
  BY PhysicalLines
<1>00. \A j \in Physical(t, i) : DOMAIN t[j].words = 1 .. Len(t[j].words)
  BY <1>0, LenProperties DEF LineWords
<1>1. ASSUME NEW j \in Physical(t, i), NEW k \in Addressed(t[j], e), <<j - i, k>> # <<0, 1>>
      PROVE  <<j - i, k>> \in Keyed(Words(t, i), NewToken(e).key)
  <2>1. PICK d \in Int : d = j - i
    BY <1>0
  <2>2. d \in Offsets(t, i) /\ i + d = j
    BY <1>0, <2>1, OwnLines
  <2>3. k \in 1 .. Len(t[j].words) /\ t[j].words[k].key = NewToken(e).key
    BY <1>00 DEF Addressed
  <2>4. PICK q : q = <<d, k>>
    OBVIOUS
  <2>5. q[1] = d /\ q[2] = k /\ q = <<q[1], q[2]>> /\ q # <<0, 1>>
    BY <1>1, <2>1, <2>4
  <2>6. q \in DOMAIN Words(t, i) /\ Words(t, i)[q] = t[i + q[1]].words[q[2]]
    BY <1>0, <2>2, <2>3, <2>5, PlacesAre
  <2>7. q \in Keyed(Words(t, i), NewToken(e).key)
    BY <2>2, <2>3, <2>5, <2>6 DEF Keyed
  <2> QED
    BY <2>1, <2>4, <2>7
<1>2. ASSUME NEW q \in Keyed(Words(t, i), NewToken(e).key)
      PROVE  /\ q[1] \in Nat /\ q[2] \in Nat /\ q = <<q[1], q[2]>> /\ q # <<0, 1>> /\ q[2] >= 1
             /\ i + q[1] \in Physical(t, i) /\ q[2] \in Addressed(t[i + q[1]], e)
  <2>1. q \in DOMAIN Words(t, i) /\ Words(t, i)[q].key = NewToken(e).key
    BY DEF Keyed
  <2>2. /\ q = <<q[1], q[2]>> /\ q # <<0, 1>>
        /\ q[1] \in Offsets(t, i) /\ q[2] \in 1 .. Len(t[i + q[1]].words)
        /\ q[1] \in 0 .. Len(t) - i /\ i + q[1] \in 1 .. Len(t)
        /\ Words(t, i)[q] = t[i + q[1]].words[q[2]]
        /\ Len(t[i + q[1]].words) \in Nat
    BY <1>0, <2>1, PlacesAre
  <2>3. i + q[1] \in Physical(t, i)
    <3>1. i + q[1] \in Int /\ (i + q[1]) - i = q[1]
      BY <1>0, <2>2
    <3> QED
      BY <1>0, <2>2, <3>1, OwnLines
  <2>4. q[2] \in Addressed(t[i + q[1]], e)
    BY <1>00, <2>1, <2>2, <2>3 DEF Addressed
  <2> QED
    BY <2>2, <2>3, <2>4
<1> QED
  BY <1>1, <1>2

WrittenOn(t, u, i, e, l, k, ws) ==
  /\ Touched(t, u, l, ws) /\ l \in Physical(t, i) /\ PutIn(t[l], ws, k, NewToken(e))
  /\ <<l - i, k>> # <<0, 1>> /\ (l = i => k # 1)
  /\ PutsLast(Words(t, i), <<l - i, k>>, NewToken(e))
LEMMA WriteIs ==
  ASSUME NetlistEditAssumption, NEW t, WellFormed(t), NEW i \in Devices(t), NEW e \in Edits
  PROVE  \E l, k, ws : WrittenOn(t, WriteToken(t, Physical(t, i), e), i, e, l, k, ws)
<1> DEFINE P == Physical(t, i)
           having == {j \in P : Addressed(t[j], e) # {}}
           K(r) == Keyed(Words(t, i), r)
<1>1. PICK token : token = NewToken(e)
  OBVIOUS
<1>2. /\ token \in [key : STRING \cup {None}, val : STRING]
      /\ token.key = None <=> e.param = "value"
  BY <1>1 DEF NewToken, Edits, NetlistEditAssumption
<1>3. /\ i \in 1 .. Len(t) /\ Len(t) \in Nat /\ i \in P /\ P \in SUBSET (0 .. Len(t))
      /\ \A j \in P : /\ j \in 1 .. Len(t) /\ j >= i /\ t[j].kind \in {"device", "more"}
                      /\ t[j].words \in LineWords
  BY PhysicalLines
<1>4. t[i].words # <<>> /\ t[i].words[1].key = None /\ K(None) # {}
  BY DEF WellFormed
<1>5. /\ \A j \in P : \A k \in Addressed(t[j], e) :
           <<j - i, k>> # <<0, 1>> => <<j - i, k>> \in K(token.key)
      /\ \A q \in K(token.key) :
           /\ q[1] \in Nat /\ q[2] \in Nat /\ q = <<q[1], q[2]>> /\ q # <<0, 1>> /\ q[2] >= 1
           /\ i + q[1] \in P /\ q[2] \in Addressed(t[i + q[1]], e)
  BY <1>1, AddressedIsKeyed
<1>6. \A r : K(r) # {} => LastPlace(K(r)) \in K(r)
  <2> SUFFICES ASSUME NEW r, K(r) # {} PROVE LastPlace(K(r)) \in K(r)
    OBVIOUS
  <2>1. K(r) \in SUBSET DOMAIN Words(t, i)
    BY DEF Keyed
  <2> HIDE DEF K
  <2> QED
    BY <1>3, <2>1, LastOfPlaces DEF Highest
<1>7. \A q \in K(token.key) : i + q[1] \in having
  BY <1>5
<1>8. \A j \in P : /\ Len(t[j].words) \in Nat /\ DOMAIN t[j].words = 1 .. Len(t[j].words)
                   /\ t[j].words \in Seq([key : STRING \cup {None}, val : STRING])
  BY <1>3, LenProperties DEF LineWords
<1>9. \A j \in P : \A k \in Addressed(t[j], e) : k \in 1 .. Len(t[j].words) /\ t[j].words[k].key = token.key
  BY <1>1, <1>8 DEF Addressed
<1> HIDE DEF P, K
<1>10. CASE having # {}
  <2>1. Max(having) \in having /\ \A x \in having : x <= Max(having)
    <3>1. having \in SUBSET (0 .. Len(t))
      BY <1>3
    <3> HIDE DEF having
    <3> QED
      BY <1>3, <1>10, <3>1, MaxOf
  <2>2. PICK at \in P : at = Max(having) /\ Addressed(t[at], e) # {} /\ \A x \in having : x <= at
    BY <2>1
  <2>3. at \in 1 .. Len(t) /\ at \in Int /\ at >= i
    BY <1>3
  <2>4. PICK k \in Addressed(t[at], e) : k = Max(Addressed(t[at], e)) /\ \A x \in Addressed(t[at], e) : x <= k
    <3>1. Addressed(t[at], e) \in SUBSET (0 .. Len(t[at].words)) /\ Len(t[at].words) \in Nat
      BY <1>8, <1>9
    <3> QED
      BY <2>2, <3>1, MaxOf
  <2>5. k \in 1 .. Len(t[at].words) /\ k \in Int /\ t[at].words[k].key = token.key
    BY <1>9
  <2>6. ~ (at = i /\ k = 1)
    <3> SUFFICES ASSUME at = i, k = 1 PROVE FALSE
      OBVIOUS
    <3>1. token.key = None
      BY <1>4, <2>5
    <3>2. PICK x \in K(token.key) : TRUE
      BY <1>4, <3>1
    <3>3. i + x[1] <= i /\ x[1] \in Nat /\ x[2] \in Nat /\ x[2] >= 1 /\ x = <<x[1], x[2]>> /\ x # <<0, 1>>
      BY <1>5, <1>7, <2>2
    <3>4. x[1] = 0 /\ i + x[1] = at
      BY <1>3, <3>3
    <3>5. x[2] <= 1
      BY <1>5, <2>4, <3>4
    <3> QED
      BY <3>3, <3>4, <3>5
  <2>7. PICK q : q = <<at - i, k>>
    OBVIOUS
  <2>8. q[1] = at - i /\ q[2] = k /\ q = <<q[1], q[2]>> /\ q[1] \in Int /\ q[2] \in Int /\ q # <<0, 1>>
    BY <1>3, <2>3, <2>5, <2>6, <2>7
  <2>9. q \in K(token.key)
    BY <1>5, <2>2, <2>4, <2>7, <2>8
  <2>10. Highest(q, K(token.key))
    <3> SUFFICES ASSUME NEW x \in K(token.key)
                 PROVE  x[1] <= q[1] /\ (x[1] = q[1] => x[2] <= q[2])
      BY <2>9 DEF Highest
    <3>1. /\ x[1] \in Nat /\ x[2] \in Nat /\ i + x[1] \in P /\ i + x[1] <= at
          /\ x[2] \in Addressed(t[i + x[1]], e)
      BY <1>5, <1>7, <2>2
    <3>2. x[1] <= q[1]
      BY <1>3, <2>3, <2>8, <3>1
    <3>3. ASSUME x[1] = q[1] PROVE x[2] <= q[2]
      <4>1. i + x[1] = at
        BY <1>3, <2>3, <2>8, <3>1, <3>3
      <4> QED
        BY <2>4, <2>8, <3>1, <4>1
    <3> QED
      BY <3>2, <3>3
  <2>11. LastPlace(K(token.key)) = q
    BY <1>5, <2>10, LastPlaceIs
  <2>12. PICK ws : ws = [t[at].words EXCEPT ![k] = token]
    OBVIOUS
  <2>13. /\ ws \in LineWords /\ DOMAIN ws = DOMAIN t[at].words
         /\ \A x \in 1 .. Len(t[at].words) : ws[x] = IF x = k THEN token ELSE t[at].words[x]
    <3>1. t[at].words \in Seq([key : STRING \cup {None}, val : STRING])
      BY <1>8
    <3>2. PICK old : old = t[at].words
      OBVIOUS
    <3>3. /\ [old EXCEPT ![k] = token] \in Seq([key : STRING \cup {None}, val : STRING])
          /\ Len([old EXCEPT ![k] = token]) = Len(old)
          /\ \A j \in 1 .. Len(old) : [old EXCEPT ![k] = token][j] = IF j = k THEN token ELSE old[j]
      BY <1>2, <2>5, <3>1, <3>2, ExceptSeq
    <3> QED
      BY <2>12, <3>2, <3>3 DEF LineWords
  <2>14. PutIn(t[at], ws, k, token)
    BY <1>8, <2>5, <2>13 DEF PutIn
  <2>15. WriteToken(t, P, e) = [t EXCEPT ![at] = [t[at] EXCEPT !.words = ws]]
    <3>1. WriteToken(t, P, e) = [t EXCEPT ![at].words[k] = token]
      BY <1>1, <1>10, <2>2, <2>4 DEF WriteToken
    <3> QED
      BY <2>12, <3>1
  <2>16. Touched(t, WriteToken(t, P, e), at, ws)
    BY <1>3, <2>3, <2>13, <2>15 DEF Touched
  <2>17. PutsLast(Words(t, i), q, token)
    <3>1. q \in Keyed(Words(t, i), token.key) /\ q = LastPlace(Keyed(Words(t, i), token.key))
      BY <2>9, <2>11 DEF K
    <3>2. \A r : Keyed(Words(t, i), r) # {} => LastPlace(Keyed(Words(t, i), r)) \in Keyed(Words(t, i), r)
      BY <1>6 DEF K
    <3> QED
      BY <1>2, <2>8, <3>1, <3>2 DEF PutsLast
  <2>18. <<at - i, k>> # <<0, 1>> /\ (at = i => k # 1) /\ PutsLast(Words(t, i), <<at - i, k>>, NewToken(e))
         /\ PutIn(t[at], ws, k, NewToken(e)) /\ at \in Physical(t, i)
    BY <1>1, <2>6, <2>7, <2>8, <2>14, <2>17 DEF P
  <2>19. WrittenOn(t, WriteToken(t, P, e), i, e, at, k, ws)
    BY <2>16, <2>18 DEF WrittenOn
  <2> QED
    BY <2>19 DEF P
<1>11. CASE having = {}
  <2>1. K(token.key) = {}
    BY <1>7, <1>11
  <2>2. token.key # None /\ e.param # "value"
    BY <1>2, <1>4, <2>1
  <2>3. PICK last \in P : last = Max(P)
    BY <1>3, MaxOf
  <2>4. last \in 1 .. Len(t) /\ last \in Int /\ last >= i
    BY <1>3
  <2>5. PICK k \in Nat : k = Len(t[last].words) + 1
    BY <1>8
  <2>6. last = i => k # 1
    <3> SUFFICES ASSUME last = i PROVE Len(t[i].words) # 0
      BY <1>8, <2>5
    <3>1. t[i].words \in LineWords
      BY <1>3
    <3> QED
      BY <1>4, <3>1, EmptySeq DEF LineWords
  <2>7. PICK q : q = <<last - i, k>>
    OBVIOUS
  <2>8. q[1] = last - i /\ q[2] = k /\ q = <<q[1], q[2]>> /\ q[1] \in Int /\ q[2] \in Int /\ q # <<0, 1>>
    BY <1>3, <2>4, <2>6, <2>7
  <2>9. q \notin DOMAIN Words(t, i)
    <3> SUFFICES ASSUME q \in DOMAIN Words(t, i) PROVE FALSE
      OBVIOUS
    <3>1. q[2] \in 1 .. Len(t[i + q[1]].words)
      BY <1>3, PlacesAre
    <3>2. i + q[1] = last
      BY <1>3, <2>4, <2>8
    <3> QED
      BY <1>8, <2>5, <2>8, <3>1, <3>2
  <2>10. PICK ws : ws = Append(t[last].words, token)
    OBVIOUS
  <2>11. ws \in LineWords /\ PutIn(t[last], ws, k, token)
    <3>1. PICK old : old = t[last].words
      OBVIOUS
    <3>2. old \in Seq([key : STRING \cup {None}, val : STRING]) /\ Len(old) \in Nat
          /\ DOMAIN old = 1 .. Len(old)
      BY <1>8, <3>1
    <3>3. PICK S : S = [key : STRING \cup {None}, val : STRING]
      OBVIOUS
    <3>03. /\ Append(old, token) \in Seq(S)
           /\ Append(old, token) # << >>
           /\ Len(Append(old, token)) = Len(old) + 1
           /\ \A j \in 1 .. Len(old) : Append(old, token)[j] = old[j]
           /\ Append(old, token)[Len(old) + 1] = token
      <4>1. old \in Seq(S) /\ token \in S
        BY <1>2, <3>2, <3>3
      <4> QED
        BY <4>1, AppendProperties, Zenon
    <3>4. ws = Append(old, token) /\ k = Len(old) + 1
      BY <2>5, <2>10, <3>1
    <3>5. ws \in Seq([key : STRING \cup {None}, val : STRING]) /\ Len(ws) = Len(old) + 1
      BY <3>3, <3>03, <3>4
    <3>6. DOMAIN ws = 1 .. Len(old) + 1
      BY <3>5, LenProperties
    <3>7. DOMAIN ws = DOMAIN old \cup {k}
      BY <3>2, <3>4, <3>6
    <3>8. ws[k] = token /\ \A x \in DOMAIN old : ws[x] = old[x]
      BY <3>2, <3>03, <3>4
    <3> QED
      BY <2>5, <3>1, <3>5, <3>7, <3>8 DEF PutIn, LineWords
  <2>12. WriteToken(t, P, e) = [t EXCEPT ![last] = [t[last] EXCEPT !.words = ws]]
    <3>1. WriteToken(t, P, e) = [t EXCEPT ![last].words = Append(t[last].words, token)]
      BY <1>1, <1>11, <2>2, <2>3 DEF WriteToken
    <3> QED
      BY <2>10, <3>1
  <2>13. Touched(t, WriteToken(t, P, e), last, ws)
    BY <1>3, <2>4, <2>11, <2>12 DEF Touched
  <2>14. PutsLast(Words(t, i), q, token)
    <3>1. Keyed(Words(t, i), token.key) = {}
      BY <2>1 DEF K
    <3>2. \A r : Keyed(Words(t, i), r) # {} => LastPlace(Keyed(Words(t, i), r)) \in Keyed(Words(t, i), r)
      BY <1>6 DEF K
    <3> QED
      BY <1>2, <2>2, <2>8, <2>9, <3>1, <3>2 DEF PutsLast
  <2>15. <<last - i, k>> # <<0, 1>> /\ PutsLast(Words(t, i), <<last - i, k>>, NewToken(e))
         /\ PutIn(t[last], ws, k, NewToken(e)) /\ last \in Physical(t, i)
    BY <1>1, <2>7, <2>8, <2>11, <2>14 DEF P
  <2>16. WrittenOn(t, WriteToken(t, P, e), i, e, last, k, ws)
    BY <2>6, <2>13, <2>15 DEF WrittenOn
  <2> QED
    BY <2>16 DEF P
<1> QED
  BY <1>10, <1>11

(* What a change does to the design: the shape stays, one component takes  *)
(* one value.                                                              *)
SameShape(t, u) ==
  /\ WellFormed(u) /\ Opened(u) = Opened(t) /\ Opens(u) = Opens(t) /\ Devices(u) = Devices(t)
  /\ \A x \in Devices(t) : u[x].words[1].val = t[x].words[1].val
Gives(c, e) ==
  [c EXCEPT !.value = IF e.param = "value" THEN e.new_value ELSE c.value,
            !.params = [p \in DOMAIN c.params \cup ({e.param} \ {"value"}) |->
                          IF p = e.param /\ p # "value" THEN e.new_value ELSE c.params[p]]]
LEMMA WriteGives ==
  ASSUME NetlistEditAssumption, NEW c, NEW e \in Edits, NEW path, NEW r, NEW ws, NEW us, NEW q,
         PutsLast(ws, q, NewToken(e)), us = Put(ws, q, NewToken(e)),
         c = [scope |-> path, refdes |-> r, nodes |-> NodesOf(ws), value |-> ValueOf(ws),
              params |-> ParamsOf(ws)]
  PROVE  [scope |-> path, refdes |-> r, nodes |-> NodesOf(us), value |-> ValueOf(us),
          params |-> ParamsOf(us)] = Gives(c, e)
<1>1. PICK token : token = NewToken(e)
  OBVIOUS
<1>2. /\ token.val = e.new_value /\ token.key = IF e.param = "value" THEN None ELSE e.param
      /\ e.param \in STRING /\ None \notin STRING
  BY <1>1 DEF NewToken, Edits, NetlistEditAssumption
<1>3. /\ NodesOf(us) = NodesOf(ws)
      /\ ValueOf(us) = IF token.key = None THEN token.val ELSE ValueOf(ws)
      /\ NamesOf(us) = NamesOf(ws) \cup ({token.key} \ {None})
      /\ \A p \in NamesOf(us) : ParamsOf(us)[p] = IF p = token.key THEN token.val ELSE ParamsOf(ws)[p]
  BY <1>1, PutMeans
<1>4. NodesOf(us) = c.nodes /\ c.scope = path /\ c.refdes = r /\ c.value = ValueOf(ws) /\ c.params = ParamsOf(ws)
  BY <1>3
<1>5. ValueOf(us) = IF e.param = "value" THEN e.new_value ELSE c.value
  BY <1>2, <1>3, <1>4
<1>6. NamesOf(us) = DOMAIN c.params \cup ({e.param} \ {"value"})
  <2>1. DOMAIN c.params = NamesOf(ws)
    BY <1>4 DEF ParamsOf
  <2>2. {token.key} \ {None} = {e.param} \ {"value"}
    BY <1>2
  <2> QED
    BY <1>3, <2>1, <2>2
<1>7. \A p \in NamesOf(us) :
        ParamsOf(us)[p] = IF p = e.param /\ p # "value" THEN e.new_value ELSE c.params[p]
  <2>1. \A p \in NamesOf(us) : p # None
    BY DEF NamesOf
  <2>2. \A p \in NamesOf(us) : p = token.key <=> p = e.param /\ p # "value"
    BY <1>2, <2>1
  <2> QED
    BY <1>2, <1>3, <1>4, <2>2
<1>8. PICK params : params = [p \in DOMAIN c.params \cup ({e.param} \ {"value"}) |->
                                IF p = e.param /\ p # "value" THEN e.new_value ELSE c.params[p]]
  OBVIOUS
<1>9. ParamsOf(us) = params
  <2>1. ParamsOf(us) = [p \in NamesOf(us) |-> ParamsOf(us)[p]]
    BY DEF ParamsOf
  <2> QED
    BY <1>6, <1>7, <1>8, <2>1
<1>10. PICK value : value = IF e.param = "value" THEN e.new_value ELSE c.value
  OBVIOUS
<1>11. Gives(c, e) = [c EXCEPT !.value = value, !.params = params]
  BY <1>8, <1>10 DEF Gives
<1>12. PICK nodes, value0, params0 : nodes = NodesOf(ws) /\ value0 = ValueOf(ws) /\ params0 = ParamsOf(ws)
  OBVIOUS
<1>13. c = [scope |-> path, refdes |-> r, nodes |-> nodes, value |-> value0, params |-> params0]
  BY <1>12
<1>14. [c EXCEPT !.value = value, !.params = params]
         = [scope |-> path, refdes |-> r, nodes |-> nodes, value |-> value, params |-> params]
  <2>1. PICK d : d = [c EXCEPT !.value = value]
    OBVIOUS
  <2>2. d = [scope |-> path, refdes |-> r, nodes |-> nodes, value |-> value, params |-> params0]
    BY ONLY <1>13, <2>1
  <2>3. [d EXCEPT !.params = params]
          = [scope |-> path, refdes |-> r, nodes |-> nodes, value |-> value, params |-> params]
    BY ONLY <2>2
  <2> QED
    BY <2>1, <2>3
<1> QED
  BY <1>3, <1>5, <1>9, <1>10, <1>11, <1>12, <1>14

LEMMA WriteDoes ==
  ASSUME NetlistEditAssumption, NEW t, WellFormed(t), NEW i \in Devices(t), NEW e \in Edits,
         NEW u, NEW l, NEW k, NEW ws, WrittenOn(t, u, i, e, l, k, ws)
  PROVE  /\ SameShape(t, u)
         /\ ComponentAt(u, i) = Gives(ComponentAt(t, i), e)
         /\ \A x \in Devices(t) \ {i} : ComponentAt(u, x) = ComponentAt(t, x)
<1>0. /\ Touched(t, u, l, ws) /\ l \in Physical(t, i) /\ PutIn(t[l], ws, k, NewToken(e))
      /\ <<l - i, k>> # <<0, 1>> /\ (l = i => k # 1)
      /\ PutsLast(Words(t, i), <<l - i, k>>, NewToken(e))
  BY DEF WrittenOn
<1>1. /\ Text(u) /\ Opened(u) = Opened(t) /\ Opens(u) = Opens(t) /\ Devices(u) = Devices(t)
      /\ \A x \in Opens(t) : u[x] = t[x]
  BY <1>0, TouchStacks
<1>2. /\ u \in Seq(Lines) /\ Len(u) = Len(t) /\ DOMAIN u = 1 .. Len(t)
      /\ \A j \in 1 .. Len(t) : u[j].kind = t[j].kind /\ (j # l => u[j] = t[j])
      /\ u[l].words = ws
  BY <1>0, BasicsOfTouch DEF TouchBasics
<1>3. /\ Len(t) \in Nat /\ DOMAIN t = 1 .. Len(t) /\ Opened(t)[Len(t)] = <<>>
      /\ \A x \in 1 .. Len(t) : t[x].words \in LineWords
  BY WellFormedIs
<1>4. \A x \in Devices(t) : x \in 1 .. Len(t) /\ t[x].kind = "device"
  BY <1>3 DEF Devices
<1>5. ASSUME NEW x \in Devices(t) \ {i} PROVE Words(u, x) = Words(t, x) /\ u[x] = t[x]
  <2>1. l \notin Physical(t, x)
    BY <1>0, <1>3, <1>4, LinesHaveOneOwner
  <2> QED
    BY <1>0, <1>4, <2>1, TouchElsewhere
<1>6. PICK q : q = <<l - i, k>>
  OBVIOUS
<1>7. Words(u, i) = Put(Words(t, i), q, NewToken(e)) /\ PutsLast(Words(t, i), q, NewToken(e))
  BY <1>0, <1>4, <1>6, TouchWords
<1>8. u[i].words # <<>> /\ u[i].words[1] = t[i].words[1]
  <2>1. t[i].words # <<>>
    BY DEF WellFormed
  <2>2. CASE l # i
    BY <1>2, <1>4, <2>1, <2>2
  <2>3. CASE l = i
    <3>1. t[i].words \in LineWords
      BY <1>3, <1>4
    <3>2. Len(t[i].words) \in Nat \ {0} /\ DOMAIN t[i].words = 1 .. Len(t[i].words)
      BY <2>1, <3>1, EmptySeq, LenProperties DEF LineWords
    <3>3. 1 \in DOMAIN t[i].words /\ k # 1
      BY <1>0, <2>3, <3>2
    <3>4. 1 \in DOMAIN ws /\ ws[1] = t[i].words[1]
      BY <1>0, <2>3, <3>3 DEF PutIn
    <3>5. DOMAIN <<>> = {}
      OBVIOUS
    <3> QED
      BY <1>2, <2>3, <3>4, <3>5
  <2> QED
    BY <2>2, <2>3
<1>9. Keyed(Words(u, i), None) # {}
  <2>1. Keyed(Words(t, i), None) # {}
    BY DEF WellFormed
  <2>2. PICK token : token = NewToken(e)
    OBVIOUS
  <2>3. /\ \A r : r # token.key => Keyed(Put(Words(t, i), q, token), r) = Keyed(Words(t, i), r)
        /\ Keyed(Put(Words(t, i), q, token), token.key) # {}
    BY <1>7, <2>2, PutKeyed
  <2> QED
    BY <1>7, <2>1, <2>2, <2>3
<1>10. WellFormed(u)
  <2>1. \A x \in Opens(u) : u[x].words # <<>>
    BY <1>1 DEF WellFormed
  <2>2. \A x, y \in Opens(u) : Opened(u)[x] = Opened(u)[y] => x = y
    BY <1>1 DEF WellFormed
  <2>3. Opened(u)[Len(u)] = <<>>
    BY <1>1, <1>2, <1>3
  <2>4. ASSUME NEW x \in Devices(u)
        PROVE  u[x].words # <<>> /\ u[x].words[1].key = None /\ Keyed(Words(u, x), None) # {}
    <3>1. x \in Devices(t)
      BY <1>1
    <3>2. t[x].words # <<>> /\ t[x].words[1].key = None /\ Keyed(Words(t, x), None) # {}
      BY <3>1 DEF WellFormed
    <3>3. CASE x = i
      BY <1>8, <1>9, <3>2, <3>3
    <3>4. CASE x # i
      BY <1>5, <3>1, <3>2, <3>4
    <3> QED
      BY <3>3, <3>4
  <2> QED
    BY <1>2, <2>1, <2>2, <2>3, <2>4 DEF WellFormed
<1>11. \A x \in Devices(t) : u[x].words[1].val = t[x].words[1].val
  BY <1>5, <1>8
<1>12. SameShape(t, u)
  BY <1>1, <1>10, <1>11 DEF SameShape
<1>13. \A x \in Devices(t) \ {i} : ComponentAt(u, x) = ComponentAt(t, x)
  BY <1>1, <1>5, ComponentsAgree
<1>14. ComponentAt(u, i) = Gives(ComponentAt(t, i), e)
  <2>1. PICK c, path, r, old, new :
          /\ c = ComponentAt(t, i) /\ path = Opened(t)[i] /\ r = t[i].words[1].val
          /\ old = Words(t, i) /\ new = Words(u, i)
    OBVIOUS
  <2>2. c = [scope |-> path, refdes |-> r, nodes |-> NodesOf(old), value |-> ValueOf(old),
             params |-> ParamsOf(old)]
    BY <2>1, ComponentForm
  <2>3. ComponentAt(u, i) = [scope |-> path, refdes |-> r, nodes |-> NodesOf(new),
                             value |-> ValueOf(new), params |-> ParamsOf(new)]
    BY <1>1, <1>8, <2>1, ComponentForm
  <2>4. PutsLast(old, q, NewToken(e)) /\ new = Put(old, q, NewToken(e))
    BY <1>7, <2>1
  <2>5. ComponentAt(u, i) = Gives(c, e)
    BY <2>2, <2>3, <2>4, WriteGives
  <2> QED
    BY <2>1, <2>5
<1> QED
  BY <1>12, <1>13, <1>14

(* Who is denoted, and how many.                                           *)
LEMMA AtMostOne ==
  ASSUME NEW S, IsFiniteSet(S)
  PROVE  /\ Cardinality(S) \in Nat
         /\ Cardinality(S) <= 1 <=> \A x, y \in S : x = y
         /\ Cardinality(S) = 1 <=> \E x : S = {x}
<1>1. Cardinality(S) \in Nat
  BY FS_CardinalityType
<1>2. Cardinality(S) = 0 <=> S = {}
  BY FS_EmptySet
<1>3. Cardinality(S) = 1 <=> \E x : S = {x}
  BY FS_Singleton
<1>4. ASSUME Cardinality(S) <= 1 PROVE \A x, y \in S : x = y
  <2>1. Cardinality(S) = 0 \/ Cardinality(S) = 1
    BY <1>1, <1>4
  <2> QED
    BY <1>2, <1>3, <2>1
<1>5. ASSUME \A x, y \in S : x = y PROVE Cardinality(S) <= 1
  <2>1. S = {} \/ \E x : S = {x}
    BY <1>5
  <2> QED
    BY <1>2, <1>3, <2>1
<1> QED
  BY <1>1, <1>3, <1>4, <1>5

LEMMA FewMatches ==
  ASSUME NEW t, WellFormed(t), NEW e
  PROVE  /\ Cardinality(FindMatches(t, e)) \in Nat
         /\ Cardinality(FindMatches(t, e)) <= 1 <=> \A x, y \in FindMatches(t, e) : x = y
         /\ Cardinality(FindMatches(t, e)) = 1 <=> \E x : FindMatches(t, e) = {x}
<1>1. Len(t) \in Nat /\ DOMAIN t = 1 .. Len(t)
  BY WellFormedIs
<1>2. IsFiniteSet(1 .. Len(t))
  BY <1>1, FS_Interval
<1>3. FindMatches(t, e) \subseteq 1 .. Len(t)
  BY <1>1 DEF FindMatches, Devices
<1>4. IsFiniteSet(FindMatches(t, e))
  BY <1>2, <1>3, FS_Subset
<1> QED
  BY <1>4, AtMostOne

LEMMA DenotesIs ==
  ASSUME NEW t, NEW i \in Devices(t), NEW e
  PROVE  Denotes(e, ComponentAt(t, i)) <=> i \in FindMatches(t, e)
<1>1. ComponentAt(t, i).scope = Opened(t)[i] /\ ComponentAt(t, i).refdes = t[i].words[1].val
  BY ComponentForm
<1> QED
  BY <1>1 DEF Denotes, FindMatches, ScopeAt

LEMMA ShapeTells ==
  ASSUME NEW t, NEW u, SameShape(t, u)
  PROVE  Subckts(u) = Subckts(t) /\ \A e : FindMatches(u, e) = FindMatches(t, e)
BY DEF SameShape, Subckts, FindMatches, ScopeAt

LEMMA ShapeOfItself ==
  ASSUME NEW t, WellFormed(t)
  PROVE  SameShape(t, t)
BY DEF SameShape

LEMMA ShapesFollow ==
  ASSUME NEW t, NEW u, NEW v, SameShape(t, u), SameShape(u, v)
  PROVE  SameShape(t, v)
BY DEF SameShape

(* One change: a name that several components have raises; another gives   *)
(* the one it denotes its value.                                           *)
ChangeDoes(t, u, e) ==
  /\ SameShape(t, u)
  /\ \A x \in Devices(t) :
       ComponentAt(u, x) = IF x \in FindMatches(t, e) THEN Gives(ComponentAt(t, x), e)
                           ELSE ComponentAt(t, x)
LEMMA ApplyChangeDoes ==
  ASSUME NetlistEditAssumption, NEW t, WellFormed(t), NEW e \in Edits
  PROVE  IF Cardinality(FindMatches(t, e)) > 1 THEN ApplyChange(t, e) = None
         ELSE ChangeDoes(t, ApplyChange(t, e), e)
<1> DEFINE found == FindMatches(t, e)
<1>1. /\ Cardinality(found) \in Nat
      /\ Cardinality(found) <= 1 <=> \A x, y \in found : x = y
  BY FewMatches
<1>2. CASE found = {}
  <2>2. ~ (Cardinality(found) > 1)
    BY <1>1, <1>2
  <2>1. ApplyChange(t, e) = t
    BY <1>2, <2>2 DEF ApplyChange
  <2> QED
    BY <1>2, <2>1, <2>2, ShapeOfItself DEF ChangeDoes
<1>3. CASE Cardinality(found) > 1
  <2>1. found # {}
    BY <1>1, <1>3
  <2> QED
    BY <1>3, <2>1 DEF ApplyChange
<1>4. CASE found # {} /\ ~ (Cardinality(found) > 1)
  <2>1. PICK i \in found : i = CHOOSE x \in found : TRUE
    BY <1>4
  <2>2. found = {i} /\ i \in Devices(t)
    <3>1. \A x, y \in found : x = y
      BY <1>1, <1>4
    <3> QED
      BY <3>1 DEF FindMatches
  <2>3. PICK u : u = ApplyChange(t, e)
    OBVIOUS
  <2>4. u = WriteToken(t, Physical(t, i), e)
    BY <1>4, <2>1, <2>3 DEF ApplyChange
  <2>5. PICK l, k, ws : WrittenOn(t, u, i, e, l, k, ws)
    BY <2>2, <2>4, WriteIs
  <2>6. /\ SameShape(t, u)
        /\ ComponentAt(u, i) = Gives(ComponentAt(t, i), e)
        /\ \A x \in Devices(t) \ {i} : ComponentAt(u, x) = ComponentAt(t, x)
    BY <2>2, <2>5, WriteDoes
  <2>7. ChangeDoes(t, u, e)
    BY <2>2, <2>6 DEF ChangeDoes
  <2> QED
    BY <1>4, <2>3, <2>7
<1> QED
  BY <1>2, <1>3, <1>4

(* What the first n of the changes mean.                                   *)
Mine(changes, n, c) == {k \in DOMAIN changes : k <= n /\ Denotes(changes[k], c)}
OfParam(changes, n, c, p) == {k \in Mine(changes, n, c) : changes[k].param = p}
LastOf(changes, n, c, p) == changes[Max(OfParam(changes, n, c, p))].new_value
ParamsMine(changes, n, c) == {changes[k].param : k \in Mine(changes, n, c)}
MeantBy(changes, n, c) ==
  [c EXCEPT !.value = IF "value" \in ParamsMine(changes, n, c) THEN LastOf(changes, n, c, "value")
                      ELSE c.value,
            !.params = [p \in DOMAIN c.params \cup (ParamsMine(changes, n, c) \ {"value"}) |->
                          IF p \in ParamsMine(changes, n, c) \ {"value"} THEN LastOf(changes, n, c, p)
                          ELSE c.params[p]]]
LEMMA MeantIs ==
  ASSUME NEW changes \in Seq(Edits), NEW c
  PROVE  MeantBy(changes, Len(changes), c) = Meant(changes, c)
<1>1. Len(changes) \in Nat /\ DOMAIN changes = 1 .. Len(changes)
  BY LenProperties
<1>2. Mine(changes, Len(changes), c) = {k \in DOMAIN changes : Denotes(changes[k], c)}
  BY <1>1 DEF Mine
<1> QED
  BY <1>2 DEF MeantBy, Meant, ParamsMine, LastOf, OfParam

IsComponent(c) ==
  \E scope, refdes, nodes, value, params :
    c = [scope |-> scope, refdes |-> refdes, nodes |-> nodes, value |-> value, params |-> params]
LEMMA NothingMeant ==
  ASSUME NEW changes \in Seq(Edits), NEW c, IsComponent(c), c.params = [p \in DOMAIN c.params |-> c.params[p]]
  PROVE  MeantBy(changes, 0, c) = c
<1>1. Mine(changes, 0, c) = {}
  <2>1. Len(changes) \in Nat /\ DOMAIN changes = 1 .. Len(changes)
    BY LenProperties
  <2> QED
    BY <2>1 DEF Mine
<1>2. ParamsMine(changes, 0, c) = {}
  BY <1>1 DEF ParamsMine
<1>3. MeantBy(changes, 0, c) = [c EXCEPT !.value = c.value, !.params = c.params]
  BY <1>2 DEF MeantBy
<1>4. PICK scope, refdes, nodes, value, params :
        c = [scope |-> scope, refdes |-> refdes, nodes |-> nodes, value |-> value, params |-> params]
  BY DEF IsComponent
<1>5. c.value = value /\ c.params = params
  BY <1>4
<1>6. PICK d : d = [c EXCEPT !.value = value]
  OBVIOUS
<1>7. d = [scope |-> scope, refdes |-> refdes, nodes |-> nodes, value |-> value, params |-> params]
  BY ONLY <1>4, <1>6
<1>8. [d EXCEPT !.params = params]
        = [scope |-> scope, refdes |-> refdes, nodes |-> nodes, value |-> value, params |-> params]
  BY ONLY <1>7
<1> QED
  BY <1>3, <1>4, <1>5, <1>6, <1>8

LEMMA MeansOneMore ==
  ASSUME NEW changes \in Seq(Edits), NEW c, IsComponent(c), NEW n \in Nat, n + 1 <= Len(changes)
  PROVE  MeantBy(changes, n + 1, c)
           = IF Denotes(changes[n + 1], c) THEN Gives(MeantBy(changes, n, c), changes[n + 1])
             ELSE MeantBy(changes, n, c)
<1>1. Len(changes) \in Nat /\ DOMAIN changes = 1 .. Len(changes) /\ n + 1 \in DOMAIN changes
  BY LenProperties
<1>2. PICK m \in Nat : m = n + 1
  OBVIOUS
<1>3. PICK e : e = changes[m]
  OBVIOUS
<1>4. \A k \in DOMAIN changes : k \in Nat /\ (k <= m <=> k <= n \/ k = m)
  BY <1>1, <1>2
<1>5. CASE ~ Denotes(e, c)
  <2>1. Mine(changes, m, c) = Mine(changes, n, c)
    BY <1>1, <1>3, <1>4, <1>5 DEF Mine
  <2>2. MeantBy(changes, m, c) = MeantBy(changes, n, c)
    BY <2>1 DEF MeantBy, ParamsMine, LastOf, OfParam
  <2> QED
    BY <1>2, <1>3, <1>5, <2>2
<1>6. CASE Denotes(e, c)
  <2>1. Mine(changes, m, c) = Mine(changes, n, c) \cup {m} /\ m \notin Mine(changes, n, c)
    BY <1>1, <1>2, <1>3, <1>4, <1>6 DEF Mine
  <2>2. ParamsMine(changes, m, c) = ParamsMine(changes, n, c) \cup {e.param}
    BY <1>3, <2>1 DEF ParamsMine
  <2>3. \A p : p # e.param => LastOf(changes, m, c, p) = LastOf(changes, n, c, p)
    <3>1. \A p : p # e.param => OfParam(changes, m, c, p) = OfParam(changes, n, c, p)
      BY <1>3, <2>1 DEF OfParam
    <3> QED
      BY <3>1 DEF LastOf
  <2>4. LastOf(changes, m, c, e.param) = e.new_value
    <3>1. /\ \A x \in OfParam(changes, m, c, e.param) : x \in Int /\ x <= m
          /\ m \in OfParam(changes, m, c, e.param)
      BY <1>3, <1>4, <2>1 DEF OfParam, Mine
    <3>2. Max(OfParam(changes, m, c, e.param)) = m
      BY <3>1, MaxIs
    <3> QED
      BY <1>3, <3>2 DEF LastOf
  <2>5. PICK scope, refdes, nodes, value, params :
          c = [scope |-> scope, refdes |-> refdes, nodes |-> nodes, value |-> value, params |-> params]
    BY DEF IsComponent
  <2>6. c.value = value /\ c.params = params
    BY <2>5
  <2>7. \A x, y : [c EXCEPT !.value = x, !.params = y]
                    = [scope |-> scope, refdes |-> refdes, nodes |-> nodes, value |-> x, params |-> y]
    <3> SUFFICES ASSUME NEW x, NEW y
                 PROVE  [c EXCEPT !.value = x, !.params = y]
                    = [scope |-> scope, refdes |-> refdes, nodes |-> nodes, value |-> x, params |-> y]
      OBVIOUS
    <3>1. PICK d : d = [c EXCEPT !.value = x]
      OBVIOUS
    <3>2. d = [scope |-> scope, refdes |-> refdes, nodes |-> nodes, value |-> x, params |-> params]
      BY ONLY <2>5, <3>1
    <3>3. [d EXCEPT !.params = y]
            = [scope |-> scope, refdes |-> refdes, nodes |-> nodes, value |-> x, params |-> y]
      BY ONLY <3>2
    <3> QED
      BY <3>1, <3>3
  <2> DEFINE valueAt(j) == IF "value" \in ParamsMine(changes, j, c) THEN LastOf(changes, j, c, "value")
                           ELSE c.value
             paramsAt(j) == [p \in DOMAIN c.params \cup (ParamsMine(changes, j, c) \ {"value"}) |->
                               IF p \in ParamsMine(changes, j, c) \ {"value"} THEN LastOf(changes, j, c, p)
                               ELSE c.params[p]]
  <2>8. \A j : MeantBy(changes, j, c)
                 = [scope |-> scope, refdes |-> refdes, nodes |-> nodes, value |-> valueAt(j),
                    params |-> paramsAt(j)]
    <3>1. \A j : MeantBy(changes, j, c) = [c EXCEPT !.value = valueAt(j), !.params = paramsAt(j)]
      BY DEF MeantBy
    <3> HIDE DEF valueAt, paramsAt
    <3> QED
      BY <2>7, <3>1
  <2>9. PICK d : d = MeantBy(changes, n, c)
    OBVIOUS
  <2>10. PICK v, ps : v = valueAt(n) /\ ps = paramsAt(n)
    OBVIOUS
  <2>11. d = [scope |-> scope, refdes |-> refdes, nodes |-> nodes, value |-> v, params |-> ps]
    BY <2>8, <2>9, <2>10
  <2>12. valueAt(m) = IF e.param = "value" THEN e.new_value ELSE v
    BY <2>2, <2>3, <2>4, <2>10
  <2>13. PICK given : given = [p \in DOMAIN ps \cup ({e.param} \ {"value"}) |->
                                 IF p = e.param /\ p # "value" THEN e.new_value ELSE ps[p]]
    OBVIOUS
  <2>14. paramsAt(m) = given
    <3>1. DOMAIN ps = DOMAIN c.params \cup (ParamsMine(changes, n, c) \ {"value"})
      BY <2>10
    <3>2. DOMAIN paramsAt(m) = DOMAIN ps \cup ({e.param} \ {"value"})
      BY <2>2, <3>1
    <3>3. ASSUME NEW p \in DOMAIN ps \cup ({e.param} \ {"value"})
          PROVE  paramsAt(m)[p] = IF p = e.param /\ p # "value" THEN e.new_value ELSE ps[p]
      <4>0. paramsAt(m)[p] = IF p \in ParamsMine(changes, m, c) \ {"value"} THEN LastOf(changes, m, c, p)
                             ELSE c.params[p]
        BY <3>2
      <4>1. CASE p = e.param /\ p # "value"
        BY <2>2, <2>4, <4>0, <4>1
      <4>2. CASE ~ (p = e.param /\ p # "value")
        <5>1. p \in DOMAIN ps
          BY <4>2
        <5>2. ps[p] = IF p \in ParamsMine(changes, n, c) \ {"value"} THEN LastOf(changes, n, c, p)
                      ELSE c.params[p]
          BY <2>10, <3>1, <5>1
        <5> QED
          BY <2>2, <2>3, <4>0, <4>2, <5>2
      <4> QED
        BY <4>1, <4>2
    <3>4. paramsAt(m) = [p \in DOMAIN paramsAt(m) |-> paramsAt(m)[p]]
      OBVIOUS
    <3> HIDE DEF paramsAt
    <3> QED
      BY <2>13, <3>2, <3>3, <3>4
  <2>15. Gives(d, e) = [d EXCEPT !.value = IF e.param = "value" THEN e.new_value ELSE v, !.params = given]
    BY <2>11, <2>13 DEF Gives
  <2>16. PICK w : w = IF e.param = "value" THEN e.new_value ELSE v
    OBVIOUS
  <2>17. Gives(d, e) = [scope |-> scope, refdes |-> refdes, nodes |-> nodes, value |-> w, params |-> given]
    <3>1. PICK b : b = [d EXCEPT !.value = w]
      OBVIOUS
    <3>2. b = [scope |-> scope, refdes |-> refdes, nodes |-> nodes, value |-> w, params |-> ps]
      BY ONLY <2>11, <3>1
    <3>3. [b EXCEPT !.params = given]
            = [scope |-> scope, refdes |-> refdes, nodes |-> nodes, value |-> w, params |-> given]
      BY ONLY <3>2
    <3> QED
      BY <2>15, <2>16, <3>1, <3>3
  <2>18. MeantBy(changes, m, c)
           = [scope |-> scope, refdes |-> refdes, nodes |-> nodes, value |-> w, params |-> given]
    <3> HIDE DEF valueAt, paramsAt
    <3> QED
      BY <2>8, <2>12, <2>14, <2>16
  <2> QED
    BY <1>2, <1>3, <1>6, <2>9, <2>17, <2>18
<1> QED
  BY <1>5, <1>6

(* A list of changes exists change by change.                              *)
AppliedTo(text, changes, m, f) ==
  f = [n \in 0 .. m |-> IF n = 0 THEN text
                        ELSE IF f[n - 1] = None THEN None ELSE ApplyChange(f[n - 1], changes[n])]
LEMMA AppliedExist ==
  ASSUME NEW text, NEW changes
  PROVE  \A m \in Nat : \E f : AppliedTo(text, changes, m, f)
<1> DEFINE T == {m \in Nat : \E f : AppliedTo(text, changes, m, f)}
           up(n, s) == IF s = None THEN None ELSE ApplyChange(s, changes[n])
<1>1. 0 \in T
  <2>1. PICK f : f = [n \in 0 .. 0 |-> text]
    OBVIOUS
  <2>2. f = [n \in 0 .. 0 |-> IF n = 0 THEN text ELSE up(n, f[n - 1])]
    <3> HIDE DEF up
    <3> QED
      BY <2>1
  <2> QED
    BY <2>2 DEF AppliedTo
<1>2. ASSUME NEW m \in Nat, m \in T PROVE m + 1 \in T
  <2>1. PICK f : f = [n \in 0 .. m |-> IF n = 0 THEN text ELSE up(n, f[n - 1])]
    BY <1>2 DEF AppliedTo
  <2>2. PICK g : g = [n \in 0 .. m + 1 |-> IF n = m + 1 THEN up(m + 1, f[m]) ELSE f[n]]
    OBVIOUS
  <2>3. g = [n \in 0 .. m + 1 |-> IF n = 0 THEN text ELSE up(n, g[n - 1])]
    <3> HIDE DEF up
    <3>1. \A n \in 0 .. m : g[n] = f[n]
      BY <2>2
    <3>2. \A n \in 0 .. m + 1 : g[n] = IF n = 0 THEN text ELSE up(n, g[n - 1])
      <4> SUFFICES ASSUME NEW n \in 0 .. m + 1
                   PROVE  g[n] = IF n = 0 THEN text ELSE up(n, g[n - 1])
        OBVIOUS
      <4>1. CASE n \in 0 .. m
        <5>1. f[n] = IF n = 0 THEN text ELSE up(n, f[n - 1])
          BY <2>1, <4>1
        <5>2. n # 0 => n - 1 \in 0 .. m
          BY <4>1
        <5> QED
          BY <3>1, <4>1, <5>1, <5>2
      <4>2. CASE n = m + 1
        <5>1. n - 1 = m /\ m \in 0 .. m /\ n # 0
          BY <4>2
        <5>2. g[n] = up(n, f[m])
          BY <2>2, <4>2
        <5> QED
          BY <3>1, <5>1, <5>2
      <4> QED
        BY <4>1, <4>2
    <3>3. DOMAIN g = 0 .. m + 1 /\ g = [n \in DOMAIN g |-> g[n]]
      BY <2>2
    <3> QED
      BY <3>2, <3>3
  <2>4. AppliedTo(text, changes, m + 1, g)
    BY <2>3 DEF AppliedTo
  <2> QED
    BY <2>4
<1> HIDE DEF T
<1>3. \A m \in Nat : m \in T
  BY <1>1, <1>2, Counting
<1> QED
  BY <1>3 DEF T

LEMMA AppliedInOrder ==
  ASSUME NEW text, NEW changes \in Seq(Edits)
  PROVE  \E f : /\ f[0] = text
                /\ \A n \in 1 .. Len(changes) :
                     f[n] = IF f[n - 1] = None THEN None ELSE ApplyChange(f[n - 1], changes[n])
                /\ ApplyChanges(text, changes) = f[Len(changes)]
<1> DEFINE up(n, s) == IF s = None THEN None ELSE ApplyChange(s, changes[n])
           F(f) == f = [n \in 0 .. Len(changes) |-> IF n = 0 THEN text ELSE up(n, f[n - 1])]
<1>1. Len(changes) \in Nat
  BY LenProperties
<1>2. PICK f : f = CHOOSE g : F(g)
  OBVIOUS
<1>3. \E g : F(g)
  <2>1. \E g : AppliedTo(text, changes, Len(changes), g)
    BY <1>1, AppliedExist
  <2> QED
    BY <2>1 DEF AppliedTo
<1>4. F(f)
  BY <1>2, <1>3
<1>5. ApplyChanges(text, changes) = f[Len(changes)]
  BY <1>2 DEF ApplyChanges
<1> HIDE DEF up
<1>6. f[0] = text /\ \A n \in 1 .. Len(changes) : f[n] = up(n, f[n - 1])
  BY <1>1, <1>4
<1> QED
  BY <1>5, <1>6 DEF up

(* What has become of the text after the first n of the changes.           *)
Clear(t, changes, n) == \A k \in 1 .. n : Cardinality(FindMatches(t, changes[k])) <= 1
ReachedBy(t, changes, n, u) ==
  IF Clear(t, changes, n)
  THEN /\ SameShape(t, u)
       /\ \A x \in Devices(t) : ComponentAt(u, x) = MeantBy(changes, n, ComponentAt(t, x))
  ELSE u = None
LEMMA NothingReached ==
  ASSUME NEW t, WellFormed(t), NEW changes \in Seq(Edits)
  PROVE  ReachedBy(t, changes, 0, t)
<1>1. Clear(t, changes, 0)
  BY DEF Clear
<1>2. ASSUME NEW x \in Devices(t)
      PROVE  ComponentAt(t, x) = MeantBy(changes, 0, ComponentAt(t, x))
  <2>1. PICK c : c = ComponentAt(t, x)
    OBVIOUS
  <2>2. PICK params : params = ParamsOf(Words(t, x))
    OBVIOUS
  <2>3. IsComponent(c) /\ c.params = params
    BY <2>1, <2>2, ComponentForm DEF IsComponent
  <2>4. params = [p \in DOMAIN params |-> params[p]]
    BY <2>2 DEF ParamsOf
  <2> QED
    BY <2>1, <2>3, <2>4, NothingMeant
<1> QED
  BY <1>1, <1>2, ShapeOfItself DEF ReachedBy

LEMMA ReachedNext ==
  ASSUME NetlistEditAssumption, NEW t, WellFormed(t), NEW changes \in Seq(Edits),
         NEW n \in Nat, n + 1 <= Len(changes), NEW u, ReachedBy(t, changes, n, u),
         NEW v, v = IF u = None THEN None ELSE ApplyChange(u, changes[n + 1])
  PROVE  ReachedBy(t, changes, n + 1, v)
<1>1. Len(changes) \in Nat /\ DOMAIN changes = 1 .. Len(changes) /\ n + 1 \in 1 .. Len(changes)
  BY LenProperties
<1>2. PICK e \in Edits : e = changes[n + 1]
  BY <1>1, ElementOfSeq
<1>3. Clear(t, changes, n + 1) <=> Clear(t, changes, n) /\ Cardinality(FindMatches(t, e)) <= 1
  <2>1. \A k : k \in 1 .. n + 1 <=> k \in 1 .. n \/ k = n + 1
    OBVIOUS
  <2> QED
    BY <1>2, <2>1 DEF Clear
<1>4. CASE ~ Clear(t, changes, n)
  BY <1>3, <1>4 DEF ReachedBy
<1>5. CASE Clear(t, changes, n)
  <2>1. /\ SameShape(t, u)
        /\ \A x \in Devices(t) : ComponentAt(u, x) = MeantBy(changes, n, ComponentAt(t, x))
    BY <1>5 DEF ReachedBy
  <2>2. WellFormed(u) /\ u # None /\ Devices(u) = Devices(t)
    BY <2>1 DEF SameShape, WellFormed, NetlistEditAssumption
  <2>3. FindMatches(u, e) = FindMatches(t, e) /\ Cardinality(FindMatches(t, e)) \in Nat
    BY <2>1, ShapeTells, FewMatches
  <2>4. v = ApplyChange(u, e)
    BY <1>2, <2>2
  <2>5. IF Cardinality(FindMatches(t, e)) > 1 THEN v = None ELSE ChangeDoes(u, v, e)
    BY <2>2, <2>3, <2>4, ApplyChangeDoes
  <2>6. CASE Cardinality(FindMatches(t, e)) > 1
    <3>1. v = None /\ ~ Clear(t, changes, n + 1)
      BY <1>3, <2>3, <2>5, <2>6
    <3> QED
      BY <3>1 DEF ReachedBy
  <2>7. CASE ~ (Cardinality(FindMatches(t, e)) > 1)
    <3>1. Clear(t, changes, n + 1) /\ ChangeDoes(u, v, e)
      BY <1>3, <1>5, <2>3, <2>5, <2>7
    <3>2. SameShape(t, v)
      BY <2>1, <3>1, ShapesFollow DEF ChangeDoes
    <3>3. ASSUME NEW x \in Devices(t)
          PROVE  ComponentAt(v, x) = MeantBy(changes, n + 1, ComponentAt(t, x))
      <4>1. PICK c : c = ComponentAt(t, x)
        OBVIOUS
      <4>2. IsComponent(c)
        BY <4>1, ComponentForm DEF IsComponent
      <4>3. Denotes(e, c) <=> x \in FindMatches(t, e)
        BY <4>1, DenotesIs
      <4>4. MeantBy(changes, n + 1, c) = IF Denotes(e, c) THEN Gives(MeantBy(changes, n, c), e)
                                         ELSE MeantBy(changes, n, c)
        BY <1>2, <4>2, MeansOneMore
      <4>5. ComponentAt(v, x) = IF x \in FindMatches(u, e) THEN Gives(ComponentAt(u, x), e)
                                ELSE ComponentAt(u, x)
        BY <2>2, <3>1 DEF ChangeDoes
      <4>6. ComponentAt(u, x) = MeantBy(changes, n, c)
        BY <2>1, <4>1
      <4> QED
        BY <2>3, <4>1, <4>3, <4>4, <4>5, <4>6
    <3> QED
      BY <3>1, <3>2, <3>3 DEF ReachedBy
  <2> QED
    BY <2>6, <2>7
<1> QED
  BY <1>4, <1>5

LEMMA ApplyChangesDoes ==
  ASSUME NetlistEditAssumption, NEW t, WellFormed(t), NEW changes \in Seq(Edits)
  PROVE  ReachedBy(t, changes, Len(changes), ApplyChanges(t, changes))
<1>1. PICK f : /\ f[0] = t
               /\ \A n \in 1 .. Len(changes) :
                    f[n] = IF f[n - 1] = None THEN None ELSE ApplyChange(f[n - 1], changes[n])
               /\ ApplyChanges(t, changes) = f[Len(changes)]
  BY AppliedInOrder
<1>2. Len(changes) \in Nat
  BY LenProperties
<1> DEFINE T == {n \in Nat : n <= Len(changes) => ReachedBy(t, changes, n, f[n])}
<1>3. 0 \in T
  BY <1>1, NothingReached
<1>4. ASSUME NEW n \in Nat, n \in T PROVE n + 1 \in T
  <2> SUFFICES ASSUME n + 1 <= Len(changes) PROVE ReachedBy(t, changes, n + 1, f[n + 1])
    OBVIOUS
  <2>1. n <= Len(changes) /\ n + 1 \in 1 .. Len(changes) /\ (n + 1) - 1 = n
    BY <1>2
  <2>2. ReachedBy(t, changes, n, f[n])
    BY <1>4, <2>1
  <2>3. f[n + 1] = IF f[n] = None THEN None ELSE ApplyChange(f[n], changes[n + 1])
    BY <1>1, <2>1
  <2> QED
    BY <2>2, <2>3, ReachedNext
<1> HIDE DEF T
<1>5. \A n \in Nat : n \in T
  BY <1>3, <1>4, Counting
<1> QED
  BY <1>1, <1>2, <1>5 DEF T

(* What the gates let pass, and what it does to one deck.                  *)
Told(t, changes, u) ==
  LET clear == \A e \in Range(changes) : Cardinality(FindMatches(t, e)) <= 1
  IN  /\ u = None <=> ~ clear
      /\ clear => SameShape(t, u) /\ Components(u) = {Meant(changes, c) : c \in Components(t)}
LEMMA RangeIs ==
  ASSUME NEW changes \in Seq(Edits)
  PROVE  /\ \A e : e \in Range(changes) <=> \E k \in 1 .. Len(changes) : e = changes[k]
         /\ Range(changes) \subseteq Edits
<1>1. Len(changes) \in Nat /\ DOMAIN changes = 1 .. Len(changes)
  BY LenProperties
<1>2. \A k \in 1 .. Len(changes) : changes[k] \in Edits
  BY ElementOfSeq
<1> QED
  BY <1>1, <1>2 DEF Range

LEMMA DeckIsTold ==
  ASSUME NetlistEditAssumption, NEW t, WellFormed(t), NEW changes \in Seq(Edits)
  PROVE  Told(t, changes, ApplyChanges(t, changes))
<1>1. PICK u : u = ApplyChanges(t, changes)
  OBVIOUS
<1>2. PICK n : n = Len(changes)
  OBVIOUS
<1>3. ReachedBy(t, changes, n, u)
  BY <1>1, <1>2, ApplyChangesDoes
<1>4. Clear(t, changes, n) <=> \A e \in Range(changes) : Cardinality(FindMatches(t, e)) <= 1
  BY <1>2, RangeIs DEF Clear
<1>5. CASE ~ Clear(t, changes, n)
  BY <1>1, <1>3, <1>4, <1>5 DEF ReachedBy, Told
<1>6. CASE Clear(t, changes, n)
  <2>1. /\ SameShape(t, u)
        /\ \A x \in Devices(t) : ComponentAt(u, x) = MeantBy(changes, n, ComponentAt(t, x))
    BY <1>3, <1>6 DEF ReachedBy
  <2>2. u # None /\ Devices(u) = Devices(t)
    BY <2>1 DEF SameShape, WellFormed, NetlistEditAssumption
  <2>3. \A x \in Devices(t) : ComponentAt(u, x) = Meant(changes, ComponentAt(t, x))
    BY <1>2, <2>1, MeantIs
  <2>4. Components(u) = {Meant(changes, c) : c \in Components(t)}
    BY <2>2, <2>3 DEF Components
  <2> QED
    BY <1>1, <1>4, <1>6, <2>1, <2>2, <2>4 DEF Told
<1> QED
  BY <1>5, <1>6

LEMMA GatesLetPass ==
  ASSUME NetlistEditAssumption, NEW t, NEW changes \in Seq(Edits), HardGates(t, changes) = None
  PROVE  \A e \in Range(changes) : /\ CheckRefdesResolution(t, e)
                                   /\ CheckStimulusUntouched(t, e)
<1> DEFINE A == \E k \in DOMAIN changes : ~ CheckRefdesResolution(t, changes[k])
           B == \E k \in DOMAIN changes : ~ CheckParamApplicability(t, changes[k])
           C == \E k \in DOMAIN changes : ~ CheckStimulusUntouched(t, changes[k])
<1>1. HardGates(t, changes) = CASE A -> "refdes" [] B -> "param" [] C -> "stimulus" [] OTHER -> None
  BY DEF HardGates
<1>2. "refdes" # None /\ "param" # None /\ "stimulus" # None
  BY DEF NetlistEditAssumption
<1>3. ~ A /\ ~ C
  <2> HIDE DEF A, B, C
  <2> QED
    BY <1>1, <1>2
<1>4. DOMAIN changes = 1 .. Len(changes)
  BY LenProperties
<1> QED
  BY <1>3, <1>4, RangeIs

(* In the deck the gates read, the components a change denotes are one.    *)
Moved(t, changes) == {c \in Components(t) : \E e \in Range(changes) : Denotes(e, c)}
Allowed(t, changes) ==
  /\ \A e \in Range(changes) : Cardinality(FindMatches(t, e)) <= 1
  /\ {c.scope : c \in Moved(t, changes)} \ {<<>>} = ResolveChangeScopes(t, changes)
  /\ \A c \in Moved(t, changes) : c.scope = <<>> => Letter[c.refdes] \notin {"V", "I"}
  /\ \A c, d \in Moved(t, changes) : c.scope = d.scope /\ c.refdes = d.refdes => c = d
LEMMA MovedAre ==
  ASSUME NEW t, NEW changes, NEW c
  PROVE  c \in Moved(t, changes) <=>
           \E e \in Range(changes) : \E i \in FindMatches(t, e) : c = ComponentAt(t, i)
BY DenotesIs DEF Moved, Components, FindMatches

LEMMA GatesAllow ==
  ASSUME NetlistEditAssumption, NEW t, WellFormed(t), NEW changes \in Seq(Edits),
         HardGates(t, changes) = None
  PROVE  Allowed(t, changes)
<1>1. \A e \in Range(changes) : CheckRefdesResolution(t, e) /\ CheckStimulusUntouched(t, e)
  BY GatesLetPass
<1>2. \A e \in Range(changes) : /\ e.scope = <<>> \/ e.scope \in Subckts(t)
                                /\ Cardinality(FindMatches(t, e)) <= 1
                                /\ \E x : FindMatches(t, e) = {x}
  BY <1>1, FewMatches DEF CheckRefdesResolution
<1>3. \A i : /\ ComponentAt(t, i).scope = Opened(t)[i]
             /\ ComponentAt(t, i).refdes = t[i].words[1].val
  BY ComponentForm
<1>4. {c.scope : c \in Moved(t, changes)} \ {<<>>} = ResolveChangeScopes(t, changes)
  <2> DEFINE shown(e) == IF e.scope # <<>> THEN {e.scope} \cap Subckts(t)
                         ELSE {ScopeAt(t, i) : i \in FindMatches(t, e)} \ {<<>>}
             kept(e) == {ScopeAt(t, i) : i \in FindMatches(t, e)} \ {<<>>}
  <2>1. ASSUME NEW e \in Range(changes) PROVE shown(e) = kept(e)
    <3>1. CASE e.scope = <<>>
      BY <3>1
    <3>2. CASE e.scope # <<>>
      <4>1. e.scope \in Subckts(t) /\ \E x : FindMatches(t, e) = {x}
        BY <1>2, <3>2
      <4>2. \A i \in FindMatches(t, e) : ScopeAt(t, i) = e.scope
        BY <3>2 DEF FindMatches
      <4>3. {ScopeAt(t, i) : i \in FindMatches(t, e)} = {e.scope}
        BY <4>1, <4>2
      <4> QED
        BY <3>2, <4>1, <4>3
    <3> QED
      BY <3>1, <3>2
  <2>2. ResolveChangeScopes(t, changes) = UNION {shown(e) : e \in Range(changes)}
    BY DEF ResolveChangeScopes
  <2>3. ResolveChangeScopes(t, changes) = UNION {kept(e) : e \in Range(changes)}
    <3> HIDE DEF shown, kept
    <3> QED
      BY <2>1, <2>2
  <2>4. \A s : s \in UNION {kept(e) : e \in Range(changes)} <=>
                 /\ s # <<>>
                 /\ \E e \in Range(changes) : \E i \in FindMatches(t, e) : s = Opened(t)[i]
    BY DEF ScopeAt
  <2>5. \A s : s \in {c.scope : c \in Moved(t, changes)} <=>
                 \E e \in Range(changes) : \E i \in FindMatches(t, e) : s = Opened(t)[i]
    BY <1>3, MovedAre
  <2> HIDE DEF kept
  <2> QED
    BY <2>3, <2>4, <2>5
<1>5. ASSUME NEW c \in Moved(t, changes), c.scope = <<>> PROVE Letter[c.refdes] \notin {"V", "I"}
  <2>0. PICK e \in Range(changes) : \E i \in FindMatches(t, e) : c = ComponentAt(t, i)
    BY MovedAre
  <2>1. PICK i \in FindMatches(t, e) : c = ComponentAt(t, i)
    BY <2>0
  <2>2. i \in Devices(t) /\ ScopeAt(t, i) = <<>> /\ t[i].words[1].val = e.refdes
        /\ c.refdes = e.refdes /\ (e.scope = <<>> \/ ScopeAt(t, i) = e.scope)
    BY <1>3, <1>5, <2>1 DEF FindMatches, ScopeAt
  <2> QED
    BY <1>1, <2>2 DEF CheckStimulusUntouched
<1>6. ASSUME NEW c \in Moved(t, changes), NEW d \in Moved(t, changes),
             c.scope = d.scope, c.refdes = d.refdes
      PROVE  c = d
  <2>0. PICK e \in Range(changes) : \E i \in FindMatches(t, e) : c = ComponentAt(t, i)
    BY MovedAre
  <2>1. PICK i \in FindMatches(t, e) : c = ComponentAt(t, i)
    BY <2>0
  <2>2. PICK j \in Devices(t) : d = ComponentAt(t, j)
    BY DEF Moved, Components
  <2>3. i \in Devices(t)
    BY DEF FindMatches
  <2>4. Denotes(e, c)
    BY <2>1, <2>3, DenotesIs
  <2>5. Denotes(e, d)
    BY <1>6, <2>4 DEF Denotes
  <2>6. j \in FindMatches(t, e)
    BY <2>2, <2>5, DenotesIs
  <2> QED
    BY <1>2, <2>1, <2>2, <2>6
<1> QED
  BY <1>2, <1>4, <1>5, <1>6 DEF Allowed

(***************************************************************************)
(* The decks stay decks of one design: while no name was ambiguous in one, *)
(* each parses, and they have the same subcircuits.                        *)
(***************************************************************************)
OneDesign ==
  /\ Canonical \in DOMAIN decks
  /\ ~ ApplyRaised => \A tb \in DOMAIN decks :
                        WellFormed(decks[tb]) /\ Subckts(decks[tb]) = Subckts(decks[Canonical])
NetInv == OneDesign /\ EditsLandWhereTheySay

LEMMA OneDesignAtFirst ==
  ASSUME NetlistEditAssumption, NetlistInit
  PROVE  NetInv
<1>1. decks \in Circuits /\ came.kind = "nothing"
  BY DEF NetlistInit, NothingCame
<1>2. OneDesign
  BY <1>1 DEF OneDesign, NetlistEditAssumption
<1>3. EditsLandWhereTheySay
  BY <1>1 DEF EditsLandWhereTheySay
<1> QED
  BY <1>2, <1>3 DEF NetInv

LEMMA ProposalKeepsDesign ==
  ASSUME NetlistEditAssumption, NetInv, ProposeEdits
  PROVE  NetInv'
<1>0. PICK n \in 1 .. MaxBatch : \E changes \in [1 .. n -> Edit] :
        LET reason == HardGates(decks[Canonical], changes)
        IN  /\ decks' = IF reason # None THEN decks
                        ELSE [tb \in DOMAIN decks |-> ApplyChanges(decks[tb], changes)]
            /\ came' = [kind |-> "proposal", from |-> decks, changes |-> changes,
                        reason |-> reason,
                        blocks |-> ResolveChangeScopes(decks[Canonical], changes)]
  BY DEF ProposeEdits
<1>1. PICK changes \in [1 .. n -> Edit] :
        LET reason == HardGates(decks[Canonical], changes)
        IN  /\ decks' = IF reason # None THEN decks
                        ELSE [tb \in DOMAIN decks |-> ApplyChanges(decks[tb], changes)]
            /\ came' = [kind |-> "proposal", from |-> decks, changes |-> changes,
                        reason |-> reason,
                        blocks |-> ResolveChangeScopes(decks[Canonical], changes)]
  BY <1>0
<1>2. PICK before, reason, blocks :
        /\ before = decks
        /\ reason = HardGates(before[Canonical], changes)
        /\ blocks = ResolveChangeScopes(before[Canonical], changes)
  OBVIOUS
<1>3. /\ came'.kind = "proposal" /\ came'.from = before /\ came'.changes = changes
      /\ came'.reason = reason /\ came'.blocks = blocks
  BY <1>1, <1>2
<1>4. decks' = IF reason # None THEN before
               ELSE [tb \in DOMAIN before |-> ApplyChanges(before[tb], changes)]
  BY <1>1, <1>2
<1>5. /\ Canonical \in DOMAIN before
      /\ \A tb \in DOMAIN before :
           WellFormed(before[tb]) /\ Subckts(before[tb]) = Subckts(before[Canonical])
  BY <1>2 DEF NetInv, OneDesign, ProposeEdits
<1>6. changes \in Seq(Edits)
  <2>1. n \in Nat /\ Edit \subseteq Edits
    BY DEF NetlistEditAssumption
  <2>2. changes \in [1 .. n -> Edits]
    BY <2>1
  <2> QED
    BY <2>1, <2>2
<1>7. CASE reason # None
  <2>1. decks' = before
    BY <1>4, <1>7
  <2>2. OneDesign'
    BY <1>5, <2>1 DEF OneDesign
  <2>3. EditsLandWhereTheySay'
    BY <1>3, <1>7, <2>1 DEF EditsLandWhereTheySay
  <2> QED
    BY <2>2, <2>3 DEF NetInv
<1>8. CASE reason = None
  <2>1. PICK now : now = decks'
    OBVIOUS
  <2>2. DOMAIN now = DOMAIN before /\ \A tb \in DOMAIN before : now[tb] = ApplyChanges(before[tb], changes)
    BY <1>4, <1>8, <2>1
  <2>3. \A tb \in DOMAIN before : Told(before[tb], changes, now[tb])
    BY <1>5, <1>6, <2>2, DeckIsTold
  <2>4. Allowed(before[Canonical], changes)
    BY <1>2, <1>5, <1>6, <1>8, GatesAllow
  <2>5. OneDesign'
    <3>1. ASSUME NEW tb \in DOMAIN before, now[tb] # None
          PROVE  WellFormed(now[tb]) /\ Subckts(now[tb]) = Subckts(before[tb])
      <4>1. SameShape(before[tb], now[tb])
        BY <2>3, <3>1 DEF Told
      <4> QED
        BY <4>1, ShapeTells DEF SameShape
    <3>2. ~ (\E tb \in DOMAIN now : now[tb] = None) =>
            \A tb \in DOMAIN now :
              WellFormed(now[tb]) /\ Subckts(now[tb]) = Subckts(now[Canonical])
      BY <1>5, <2>2, <3>1
    <3> QED
      BY <1>5, <2>1, <2>2, <3>2 DEF OneDesign, ApplyRaised
  <2>6. ASSUME NEW tb \in DOMAIN before
        PROVE  LET earlier == Components(before[tb])
                   moved == {c \in earlier : \E e \in Range(changes) : Denotes(e, c)}
                   clear == \A e \in Range(changes) : Cardinality(FindMatches(before[tb], e)) <= 1
               IN  /\ now[tb] = None <=> ~ clear
                   /\ clear => Components(now[tb]) = {Meant(changes, c) : c \in earlier}
                   /\ tb = Canonical =>
                        /\ clear
                        /\ {c.scope : c \in moved} \ {<<>>} = blocks
                        /\ \A c \in moved : c.scope = <<>> => Letter[c.refdes] \notin {"V", "I"}
                        /\ \A c, d \in moved : c.scope = d.scope /\ c.refdes = d.refdes => c = d
    <3>1. Told(before[tb], changes, now[tb])
      BY <2>3
    <3>2. tb = Canonical => Allowed(before[tb], changes)
      BY <2>4
    <3>3. tb = Canonical => blocks = ResolveChangeScopes(before[tb], changes)
      BY <1>2
    <3> QED
      BY <3>1, <3>2, <3>3 DEF Told, Allowed, Moved
  <2>7. ProposalLands'
    BY <1>3, <2>1, <2>2, <2>6 DEF ProposalLands
  <2>8. EditsLandWhereTheySay'
    BY <1>3, <1>8, <2>7 DEF EditsLandWhereTheySay
  <2> QED
    BY <2>5, <2>8 DEF NetInv
<1> QED
  BY <1>7, <1>8

LEMMA SwapKeepsDesign ==
  ASSUME NetlistEditAssumption, NetInv, SwapBody
  PROVE  NetInv'
<1>1. PICK path \in Subckts(decks[Canonical]), body \in Body :
        /\ decks' = [tb \in DOMAIN decks |-> ApplyTopologySwap(decks[tb], path, body)]
        /\ came' = [kind |-> "swap", from |-> decks, path |-> path, body |-> body]
  BY DEF SwapBody
<1>2. PICK before, now : before = decks /\ now = decks'
  OBVIOUS
<1>3. came'.kind = "swap" /\ came'.from = before /\ came'.path = path /\ came'.body = body
  BY <1>1, <1>2
<1>4. /\ DOMAIN now = DOMAIN before
      /\ \A tb \in DOMAIN before : now[tb] = ApplyTopologySwap(before[tb], path, body)
  BY <1>1, <1>2
<1>5. /\ Canonical \in DOMAIN before
      /\ \A tb \in DOMAIN before :
           WellFormed(before[tb]) /\ Subckts(before[tb]) = Subckts(before[Canonical])
  BY <1>2 DEF NetInv, OneDesign, SwapBody
<1>6. \A tb \in DOMAIN before : Swapped(before[tb], path, body, now[tb])
  BY <1>2, <1>4, <1>5, SwapDoes
<1>7. OneDesign'
  <2>1. \A tb \in DOMAIN before :
          WellFormed(now[tb]) /\ Subckts(now[tb]) = Subckts(now[Canonical])
    BY <1>5, <1>6 DEF Swapped
  <2> QED
    BY <1>2, <1>4, <1>5, <2>1 DEF OneDesign
<1>8. SwapLands'
  <2>1. ASSUME NEW tb \in DOMAIN before
        PROVE  LET outside(text) == {c \in Components(text) : ~ Below(path, c)}
                   inside(text) == {c \in Components(text) : Below(path, c)}
               IN  /\ ExtractSubcktBody(now[tb], path) = body
                   /\ outside(now[tb]) = outside(before[tb])
                   /\ inside(now[tb]) = {[c EXCEPT !.scope = path \o c.scope] : c \in Components(body)}
    BY <1>6 DEF Swapped
  <2> QED
    BY <1>2, <1>3, <1>4, <2>1 DEF SwapLands
<1>9. EditsLandWhereTheySay'
  BY <1>3, <1>8 DEF EditsLandWhereTheySay
<1> QED
  BY <1>7, <1>9 DEF NetInv

LEMMA StutterKeepsDesign ==
  ASSUME NetInv, UNCHANGED netlistVars
  PROVE  NetInv'
<1>1. decks' = decks /\ came' = came
  BY DEF netlistVars
<1>2. ProposalLands' <=> ProposalLands
  BY <1>1 DEF ProposalLands
<1>3. SwapLands' <=> SwapLands
  BY <1>1 DEF SwapLands
<1> QED
  BY <1>1, <1>2, <1>3 DEF NetInv, OneDesign, ApplyRaised, EditsLandWhereTheySay

(* Every edit of the text does what it says and nothing else, in every     *)
(* deck, as the next parse sees it: for every circuit of definitions that  *)
(* are closed and have a path of their own, every list of changes and      *)
(* every well-formed body (netlist.py:873-991, orchestrator.py:176-218).   *)
THEOREM EditsLand == NetlistSpec => []EditsLandWhereTheySay
<1>1. NetlistInit => NetInv
  BY NetlistEditAssumption, OneDesignAtFirst
<1>2. NetInv /\ [NetlistNext]_netlistVars => NetInv'
  BY NetlistEditAssumption, ProposalKeepsDesign, SwapKeepsDesign, StutterKeepsDesign
     DEF NetlistNext
<1>3. NetInv => EditsLandWhereTheySay
  BY DEF NetInv
<1> QED
  BY <1>1, <1>2, <1>3, PTL DEF NetlistSpec

=============================================================================
