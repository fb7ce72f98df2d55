-------------------------- MODULE CornerSweepProofs --------------------------
(***************************************************************************)
(* What the caching simulator guarantees to a sweep for every pool, every  *)
(* specification and any number of changes of the included files.          *)
(*                                                                         *)
(* Inductive invariant: a thread carries the key of the point it took,     *)
(* under the files as they were when it took it; a result that it holds or *)
(* that is kept was shown by that deck under the files as they were then   *)
(* or later; and who writes a line holds the lock.  The log of the calls   *)
(* has an invariant of its own, further down.                              *)
(***************************************************************************)
EXTENDS CornerSweep, FiniteSetTheorems, NaturalsInduction, WellFoundedInduction, TLAPS

(* The deck of a key showed this result, under the files as they were when *)
(* the key was made or at some moment since: f is how often they changed,  *)
(* t what was shown.                                                       *)
Shown(key, result, f, t) ==
  \E v \in key.files .. f :
    LET deck == [text |-> key.text, control |-> key.control, files |-> v]
    IN  deck \in DOMAIN t /\ result = ResultOf(t[deck])
Explained(key, result, how, f, t) ==
  \/ how # "hit" /\ result.failure_kind = "environment"
  \/ Shown(key, result, f, t)

KeyIsOf(key, point) ==
  /\ key = [text |-> Rendering[point], control |-> point[1], files |-> key.files]
  /\ key.files \in Nat

(* A call that has its result: what it holds is its own.                   *)
HoldsResult(c) ==
  c.at = "return" \/ (c.at \in {"log", "write"} /\ c.how \in {"hit", "miss"})

Call(c, f, t) ==
  /\ c = [at |-> c.at, how |-> c.how, point |-> c.point, key |-> c.key, result |-> c.result]
  /\ KeyIsOf(c.key, c.point)
  /\ c.key.files <= f
  /\ c.at \in {"lookup", "simulate", "store", "log", "write", "return"}
  /\ c.at = "simulate" => c.how \in {"miss", "bypass"}
  /\ c.at = "store" => c.how = "miss" /\ Shown(c.key, c.result, f, t)
  /\ c.at \in {"log", "write", "return"} => c.how \in {"hit", "miss", "bypass"}
  /\ HoldsResult(c) => Explained(c.key, c.result, c.how, f, t)

WorkersInv ==
  /\ DOMAIN worker = Worker
  /\ \A w \in Worker : worker[w] = Idle \/ Call(worker[w], files, truth)
EntriesInv == \A k \in DOMAIN entries : k.files \in Nat /\ Shown(k, entries[k], files, truth)
AnswersInv ==
  \A p \in DOMAIN answers :
    \/ answers[p].how = "raised"
    \/ /\ KeyIsOf(answers[p].key, p)
       /\ Explained(answers[p].key, answers[p].result, answers[p].how, files, truth)
LockInv == \A w \in Worker : worker[w].at = "write" => lock = w

IInv == files \in Nat /\ WorkersInv /\ EntriesInv /\ AnswersInv /\ LockInv

(* What every step leaves behind: the files only move on, and what was     *)
(* shown stays shown.                                                      *)
MovesOn ==
  /\ files \in Nat /\ files' \in Nat /\ files <= files'
  /\ \A k \in DOMAIN truth : k \in DOMAIN truth' /\ truth'[k] = truth[k]

-----------------------------------------------------------------------------
LEMMA ShownStays ==
  ASSUME MovesOn, NEW key, NEW result, key.files \in Nat, Shown(key, result, files, truth)
  PROVE  Shown(key, result, files', truth')
<1>1. PICK v \in key.files .. files :
        /\ [text |-> key.text, control |-> key.control, files |-> v] \in DOMAIN truth
        /\ result = ResultOf(truth[[text |-> key.text, control |-> key.control, files |-> v]])
  BY DEF Shown
<1>2. v \in key.files .. files'
  BY DEF MovesOn
<1> QED
  BY <1>1, <1>2 DEF Shown, MovesOn

LEMMA CallStays ==
  ASSUME MovesOn, NEW c, Call(c, files, truth)
  PROVE  Call(c, files', truth')
<1>1. c.key.files \in Nat
  BY DEF Call, KeyIsOf
<1>2. Shown(c.key, c.result, files, truth) => Shown(c.key, c.result, files', truth')
  BY <1>1, ShownStays
<1>3. c.key.files <= files'
  BY <1>1 DEF Call, MovesOn
<1> QED
  BY <1>2, <1>3 DEF Call, Explained

LEMMA KeptStays ==
  ASSUME IInv, MovesOn
  PROVE  /\ entries' = entries => EntriesInv'
         /\ answers' = answers => AnswersInv'
<1>1. \A k, r : k.files \in Nat /\ Shown(k, r, files, truth) => Shown(k, r, files', truth')
  BY ShownStays
<1>2. ASSUME entries' = entries PROVE EntriesInv'
  BY <1>1, <1>2 DEF IInv, EntriesInv
<1>3. ASSUME answers' = answers PROVE AnswersInv'
  BY <1>1, <1>3 DEF IInv, AnswersInv, Explained, KeyIsOf
<1> QED
  BY <1>2, <1>3

(* One thread moves on, to a call that is in order or to nothing.          *)
LEMMA WorkerMoves ==
  ASSUME IInv, MovesOn, NEW w \in Worker, NEW state,
         Becomes(w, state), state = Idle \/ Call(state, files', truth')
  PROVE  WorkersInv' /\ worker'[w] = state
<1>1. DOMAIN worker' = Worker /\ worker'[w] = state
  BY DEF IInv, WorkersInv, Becomes
<1>2. ASSUME NEW v \in Worker, v # w
      PROVE  worker'[v] = Idle \/ Call(worker'[v], files', truth')
  <2>1. worker'[v] = worker[v]
    BY <1>2 DEF Becomes, IInv, WorkersInv
  <2>2. CASE worker[v] = Idle
    BY <2>1, <2>2
  <2>3. CASE Call(worker[v], files, truth)
    BY <2>1, <2>3, CallStays
  <2> QED
    BY <2>2, <2>3 DEF IInv, WorkersInv
<1> QED
  BY <1>1, <1>2 DEF WorkersInv

(* The lock, when the thread that moves does not go to the log line.       *)
LEMMA LockStays ==
  ASSUME IInv, NEW w \in Worker, NEW state, Becomes(w, state), state.at # "write",
         lock' = lock
  PROVE  LockInv'
  BY DEF IInv, WorkersInv, Becomes, LockInv

-----------------------------------------------------------------------------
LEMMA InitInv == SweepInit => IInv
  BY DEF SweepInit, IInv, WorkersInv, EntriesInv, AnswersInv, LockInv, Idle, Nothing

(* The steps of the sweep itself touch neither the threads nor the cache.  *)
LEMMA SweepStep ==
  ASSUME IInv,
         Render \/ TouchFiles \/ MapRaises \/ Judged \/ SeedCorners \/ UNCHANGED sweepVars
  PROVE  IInv'
<1>1. /\ UNCHANGED <<worker, truth, entries, lock, answers>>
      /\ files' \in {files, files + 1}
  BY DEF Render, TouchFiles, MapRaises, Judged, SeedCorners, sweepVars, cache
<1>2. MovesOn
  BY <1>1 DEF MovesOn, IInv
<1>3. WorkersInv'
  BY <1>1, <1>2, CallStays DEF IInv, WorkersInv
<1>4. EntriesInv' /\ AnswersInv'
  BY <1>1, <1>2, KeptStays
<1>5. LockInv'
  BY <1>1 DEF IInv, LockInv
<1> QED
  BY <1>2, <1>3, <1>4, <1>5 DEF IInv, MovesOn

(* A step of a thread that leaves the files and what was shown alone.      *)
LEMMA Quiet ==
  ASSUME IInv, UNCHANGED <<files, truth>>
  PROVE  MovesOn
  BY DEF IInv, MovesOn

LEMMA TakeStep ==
  ASSUME IInv, NEW w \in Worker, TakePoint(w)
  PROVE  IInv'
<1> DEFINE call(at, how) ==
      [at |-> at, how |-> how, point |-> PointAt(next), key |-> KeyOf(PointAt(next)),
       result |-> None]
<1>1. UNCHANGED <<files, truth, entries, lock, answers>>
  BY DEF TakePoint, Frame, cache
<1>2. PICK state \in {call("lookup", "cache"), call("log", "bypass")} : Becomes(w, state)
  BY DEF TakePoint
<1>3. MovesOn
  BY <1>1, Quiet
<1>4. KeyIsOf(KeyOf(PointAt(next)), PointAt(next))
  BY DEF IInv, KeyIsOf, KeyOf
<1>5. Call(state, files', truth')
  BY <1>1, <1>2, <1>4 DEF Call, HoldsResult, KeyOf, IInv
<1>6. WorkersInv'
  BY <1>2, <1>3, <1>5, WorkerMoves
<1>7. LockInv'
  BY <1>1, <1>2, LockStays
<1> QED
  BY <1>1, <1>3, <1>6, <1>7, KeptStays DEF IInv

(* A thread that is somewhere is at a call.                                *)
LEMMA AtCall ==
  ASSUME IInv, NEW w \in Worker, worker[w].at # "idle"
  PROVE  Call(worker[w], files, truth)
  BY DEF IInv, WorkersInv, Idle

LEMMA LookupStep ==
  ASSUME IInv, NEW w \in Worker, Lookup(w)
  PROVE  IInv'
<1> DEFINE key == worker[w].key
           hit == At(w, "log", "hit", entries[key])
           miss == At(w, "simulate", "miss", None)
<1>1. UNCHANGED <<files, truth, entries, lock, answers>>
  BY DEF Lookup, Frame
<1>2. MovesOn
  BY <1>1, Quiet
<1>3. Call(worker[w], files, truth)
  BY AtCall DEF Lookup
<1>4. CASE key \in DOMAIN entries
  <2>1. Becomes(w, hit)
    BY <1>4 DEF Lookup
  <2>2. Shown(key, entries[key], files, truth)
    BY <1>4 DEF IInv, EntriesInv
  <2>3. hit.at = "log"
    BY DEF At
  <2>4. Call(hit, files', truth')
    BY <1>1, <1>3, <2>2 DEF At, Call, HoldsResult, Explained
  <2> QED
    BY <1>1, <1>2, <2>1, <2>3, <2>4, WorkerMoves, KeptStays, LockStays DEF IInv
<1>5. CASE key \notin DOMAIN entries
  <2>1. Becomes(w, miss)
    BY <1>5 DEF Lookup
  <2>2. miss.at = "simulate"
    BY DEF At
  <2>3. Call(miss, files', truth')
    BY <1>1, <1>3 DEF At, Call, HoldsResult
  <2> QED
    BY <1>1, <1>2, <2>1, <2>2, <2>3, WorkerMoves, KeptStays, LockStays DEF IInv
<1> QED
  BY <1>4, <1>5

(* What a simulation hands back, when it explains the result.              *)
LEMMA SimulatedCall ==
  ASSUME IInv, MovesOn, NEW w \in Worker, worker[w].at = "simulate", NEW result,
         Simulated(w, result),
         \/ result.failure_kind = "environment"
         \/ Shown(worker[w].key, result, files', truth'),
         UNCHANGED <<entries, lock, answers>>
  PROVE  IInv'
<1> DEFINE place == IF worker[w].how = "bypass" THEN "return"
                    ELSE IF Cacheable(result) THEN "store" ELSE "log"
           state == At(w, place, worker[w].how, result)
<1>1. Call(worker[w], files', truth')
  BY AtCall, CallStays
<1>2. state.at = place
  BY DEF At
<1>3. /\ place \in {"return", "store", "log"}
      /\ place = "store" => result.failure_kind # "environment" /\ worker[w].how # "bypass"
  BY DEF Cacheable
<1>4. worker[w].how \in {"miss", "bypass"}
  BY <1>1 DEF Call
<1> HIDE DEF place
<1>5. Call(state, files', truth')
  BY <1>1, <1>3, <1>4 DEF At, Call, HoldsResult, Explained
<1>6. Becomes(w, state)
  BY DEF Simulated, place
<1>7. WorkersInv'
  BY <1>5, <1>6, WorkerMoves
<1>8. LockInv'
  BY <1>2, <1>3, <1>6, LockStays
<1> QED
  BY <1>7, <1>8, KeptStays DEF IInv, MovesOn

LEMMA SimulateStep ==
  ASSUME IInv, NEW w \in Worker, Simulate(w)
  PROVE  IInv'
<1> DEFINE key == [worker[w].key EXCEPT !.files = files]
<1>1. PICK row \in IF key \in DOMAIN truth THEN {truth[key]} ELSE Showing[key.control] :
        truth' = Put(truth, key, row) /\ Simulated(w, ResultOf(row))
  BY DEF Simulate
<1>2. worker[w].at = "simulate" /\ UNCHANGED <<files, entries, lock, answers>>
  BY DEF Simulate, Frame, cache
<1>3. /\ DOMAIN truth' = DOMAIN truth \cup {key}
      /\ truth'[key] = row
      /\ \A k \in DOMAIN truth : truth'[k] = truth[k]
  BY <1>1 DEF Put
<1>4. MovesOn
  BY <1>2, <1>3 DEF MovesOn, IInv
<1>5. KeyIsOf(worker[w].key, worker[w].point) /\ worker[w].key.files \in Nat
  BY <1>2, AtCall DEF Call, KeyIsOf
<1>6. key = [text |-> worker[w].key.text, control |-> worker[w].key.control, files |-> files]
  BY <1>5 DEF KeyIsOf
<1>7. worker[w].key.files <= files
  BY <1>2, AtCall DEF Call
<1>8. Shown(worker[w].key, ResultOf(row), files', truth')
  BY <1>2, <1>3, <1>5, <1>6, <1>7 DEF Shown, IInv
<1> QED
  BY <1>1, <1>2, <1>4, <1>8, SimulatedCall
LEMMA EnvironmentStep ==
  ASSUME IInv, NEW w \in Worker, EnvironmentFails(w)
  PROVE  IInv'
<1>1. UNCHANGED <<files, truth, entries, lock, answers>>
  BY DEF EnvironmentFails, Frame, cache
<1>2. MovesOn
  BY <1>1, Quiet
<1> QED
  BY <1>1, <1>2, SimulatedCall DEF EnvironmentFails

(* A thread moves on with the result it has, or lets its point go.         *)
LEMMA RaiseStep ==
  ASSUME IInv, NEW w \in Worker, Raise(w)
  PROVE  IInv'
<1>1. /\ UNCHANGED <<files, truth, entries, lock>>
      /\ Becomes(w, Idle)
      /\ answers' = Put(answers, worker[w].point, Answer(w, "raised"))
  BY DEF Raise, Frame, cache
<1>2. MovesOn
  BY <1>1, Quiet
<1>3. AnswersInv'
  BY <1>1 DEF IInv, AnswersInv, Put, Answer
<1>4. Idle.at # "write"
  BY DEF Idle
<1> QED
  BY <1>1, <1>2, <1>3, <1>4, WorkerMoves, KeptStays, LockStays DEF IInv

LEMMA StoreStep ==
  ASSUME IInv, NEW w \in Worker, Store(w)
  PROVE  IInv'
<1> DEFINE state == At(w, "log", worker[w].how, worker[w].result)
<1>1. /\ UNCHANGED <<files, truth, lock, answers>>
      /\ Becomes(w, state)
      /\ entries' = Put(entries, worker[w].key, worker[w].result)
      /\ worker[w].at = "store"
  BY DEF Store, Frame, GoTo
<1>2. MovesOn
  BY <1>1, Quiet
<1>3. Call(worker[w], files, truth)
  BY <1>1, AtCall
<1>4. worker[w].key.files \in Nat /\ Shown(worker[w].key, worker[w].result, files, truth)
  BY <1>1, <1>3 DEF Call, KeyIsOf
<1>5. EntriesInv'
  BY <1>1, <1>4 DEF IInv, EntriesInv, Put
<1>6. Call(state, files', truth') /\ state.at = "log"
  BY <1>1, <1>3, <1>4 DEF At, Call, HoldsResult, Explained
<1> QED
  BY <1>1, <1>2, <1>5, <1>6, WorkerMoves, KeptStays, LockStays DEF IInv

LEMMA OpenStep ==
  ASSUME IInv, NEW w \in Worker, OpenLine(w)
  PROVE  IInv'
<1> DEFINE state == At(w, "write", worker[w].how, worker[w].result)
<1>1. /\ UNCHANGED <<files, truth, entries, answers>>
      /\ Becomes(w, state)
      /\ lock = None /\ lock' = w
      /\ worker[w].at = "log"
  BY DEF OpenLine, Frame, GoTo
<1>2. MovesOn
  BY <1>1, Quiet
<1>3. Call(worker[w], files, truth)
  BY <1>1, AtCall
<1>4. Call(state, files', truth')
  BY <1>1, <1>3 DEF At, Call, HoldsResult, Explained
<1>5. WorkersInv'
  BY <1>1, <1>2, <1>4, WorkerMoves
<1>6. ASSUME NEW v \in Worker, v # w PROVE worker'[v] = worker[v] /\ worker[v].at # "write"
  <2>1. worker[v].at = "write" => lock = v
    BY DEF IInv, LockInv
  <2>2. lock # v
    BY <1>1, SweepAssumption
  <2> QED
    BY <1>1, <1>6, <2>1, <2>2 DEF Becomes, IInv, WorkersInv
<1>7. LockInv'
  BY <1>1, <1>6 DEF LockInv
<1> QED
  BY <1>1, <1>2, <1>5, <1>7, KeptStays DEF IInv, MovesOn

LEMMA WriteStep ==
  ASSUME IInv, NEW w \in Worker, WriteLine(w)
  PROVE  IInv'
<1> DEFINE place == IF worker[w].how = "bypass" THEN "simulate" ELSE "return"
           state == At(w, place, worker[w].how, worker[w].result)
<1>1. /\ UNCHANGED <<files, truth, entries, answers>>
      /\ Becomes(w, state)
      /\ worker[w].at = "write"
  BY DEF WriteLine, Frame, GoTo
<1>2. MovesOn
  BY <1>1, Quiet
<1>3. Call(worker[w], files, truth)
  BY <1>1, AtCall
<1>4. Call(state, files', truth') /\ state.at # "write"
  BY <1>1, <1>3 DEF At, Call, HoldsResult, Explained
<1>5. WorkersInv' /\ worker'[w] = state
  BY <1>1, <1>2, <1>4, WorkerMoves
<1>6. ASSUME NEW v \in Worker, v # w PROVE worker'[v] = worker[v] /\ worker[v].at # "write"
  BY <1>1, <1>6 DEF Becomes, IInv, WorkersInv, LockInv
<1>7. LockInv'
  BY <1>4, <1>5, <1>6 DEF LockInv
<1> QED
  BY <1>1, <1>2, <1>5, <1>7, KeptStays DEF IInv, MovesOn

LEMMA ReturnStep ==
  ASSUME IInv, NEW w \in Worker, Return(w)
  PROVE  IInv'
<1>1. /\ UNCHANGED <<files, truth, entries, lock>>
      /\ Becomes(w, Idle)
      /\ answers' = Put(answers, worker[w].point, Answer(w, worker[w].how))
      /\ worker[w].at = "return"
  BY DEF Return, Frame, cache
<1>2. MovesOn
  BY <1>1, Quiet
<1>3. Call(worker[w], files, truth)
  BY <1>1, AtCall
<1>4. /\ KeyIsOf(worker[w].key, worker[w].point)
      /\ Explained(worker[w].key, worker[w].result, worker[w].how, files, truth)
  BY <1>1, <1>3 DEF Call, HoldsResult
<1>5. AnswersInv'
  BY <1>1, <1>4 DEF IInv, AnswersInv, Put, Answer
<1>6. Idle.at # "write"
  BY DEF Idle
<1> QED
  BY <1>1, <1>2, <1>5, <1>6, WorkerMoves, KeptStays, LockStays DEF IInv

-----------------------------------------------------------------------------
THEOREM Inductive == SweepSpec => []IInv
<1>1. SweepInit => IInv
  BY InitInv
<1>2. IInv /\ [SweepNext]_sweepVars => IInv'
  <2> SUFFICES ASSUME IInv, [SweepNext]_sweepVars PROVE IInv'
    OBVIOUS
  <2>1. ASSUME NEW w \in Worker, Work(w) PROVE IInv'
    BY <2>1, TakeStep, LookupStep, SimulateStep, EnvironmentStep, RaiseStep, StoreStep,
       OpenStep, WriteStep, ReturnStep DEF Work
  <2> QED
    BY <2>1, SweepStep DEF SweepNext
<1> QED
  BY <1>1, <1>2, PTL DEF SweepSpec

(* The result a point gets is one its own deck gives, under the files as   *)
(* they were at some moment of the call: for every pool of threads and     *)
(* every interleaving (cache.py:1-60, parallel.py:21-26).                  *)
THEOREM NoAnswerIsAnothers == SweepSpec => []AnswersAreTheirOwn
<1>1. IInv => AnswersAreTheirOwn
  BY DEF IInv, AnswersInv, AnswersAreTheirOwn, Explained, Shown, KeyIsOf
<1> QED
  BY <1>1, Inductive, PTL

(* No line of history.jsonl is begun while another is written              *)
(* (cache.py:226-234).                                                     *)
THEOREM OneWriter ==
  SweepSpec => [](\A v, w \in Worker : worker[v].at = "write" /\ worker[w].at = "write" => v = w)
<1>1. IInv => \A v, w \in Worker : worker[v].at = "write" /\ worker[w].at = "write" => v = w
  BY DEF IInv, LockInv
<1> QED
  BY <1>1, Inductive, PTL

-----------------------------------------------------------------------------
(***************************************************************************)
(* The log accounts for the calls.  A call is pending from the moment a    *)
(* thread takes its point until its line is written.  Inductive invariant: *)
(* as long as no point raised, the points taken are the lines written and  *)
(* the pending calls, and each counter is its lines and the pending calls  *)
(* of its kind; no two threads are at one point, and none at an answered   *)
(* one, so that a point that raised stays so.                              *)
(***************************************************************************)
Open(c) ==
  \/ c.at \in {"lookup", "store", "log", "write"}
  \/ c.at = "simulate" /\ c.how = "miss"
Pending == {w \in Worker : Open(worker[w])}
PendingOf(how) == {w \in Worker : Open(worker[w]) /\ worker[w].how = how}
Taken == {PointAt(n) : n \in 1 .. next - 1}

CountsInv ==
  /\ plan \in Plan /\ pool \subseteq Worker
  /\ next \in 1 .. PointCount + 1
  /\ counters \in [hits : Nat, misses : Nat]
  /\ lines \in [hit : Nat, miss : Nat, bypass : Nat]
AtPoint(w) ==
  /\ w \in pool
  /\ worker[w].point \in Taken \ DOMAIN answers
  /\ worker[w].at = "lookup" => worker[w].how = "cache"
PlaceInv ==
  /\ DOMAIN answers \subseteq Taken
  /\ \A w \in Worker : worker[w] # Idle => AtPoint(w)
  /\ \A v, w \in Worker :
       v # w /\ worker[v] # Idle /\ worker[w] # Idle => worker[v].point # worker[w].point
JudgedInv == sweeping \in {"judged", "seeded"} => Joined /\ ~ Raised
LogInv ==
  ~ Raised =>
    /\ counters.hits = lines.hit + Cardinality(PendingOf("hit"))
    /\ counters.misses = lines.miss + Cardinality(PendingOf("miss"))
    /\ next - 1 = lines.hit + lines.miss + lines.bypass + Cardinality(Pending)
CallsInv == IInv /\ CountsInv /\ PlaceInv /\ JudgedInv /\ LogInv

LEMMA DivisionBound ==
  ASSUME NEW c \in Nat, NEW l \in Nat, NEW q \in Nat, NEW r \in Nat, c * q + r < l * c
  PROVE  q < l
<1> SUFFICES ASSUME q >= l PROVE FALSE
  OBVIOUS
<1>1. PICK k \in Nat : q = l + k
  <2>1. q - l \in Nat /\ q = l + (q - l)
    OBVIOUS
  <2> QED
    BY <2>1
<1>2. c * q = l * c + c * k
  BY <1>1
<1>3. c * k \in Nat /\ l * c \in Nat /\ c * q \in Nat
  OBVIOUS
<1> QED
  BY <1>2, <1>3

(* Points are numbered testbench by testbench, one number each.            *)
LEMMA PointsAreNumbered ==
  ASSUME CountsInv, NEW m \in 1 .. PointCount, NEW n \in 1 .. PointCount
  PROVE  /\ PointAt(n) \in Points
         /\ PointAt(m) = PointAt(n) => m = n
<1> DEFINE order == plan.order
           l == Len(plan.order)
<1>1. order \in Seq(Testbenches) /\ IsInjective(order)
  BY SweepAssumption DEF CountsInv, Plans
<1>2. l \in Nat /\ DOMAIN order = 1 .. l /\ PointCount = l * CornerCount /\ CornerCount \in Nat
  BY <1>1, SweepAssumption DEF PointCount
<1> HIDE DEF order, l
<1>3. PointCount \in Nat
  BY <1>2
<1>4. CornerCount # 0
  <2>1. CornerCount = 0 => PointCount = 0
    BY <1>2
  <2> QED
    BY <2>1, <1>3
<1>5. ASSUME NEW k \in 1 .. PointCount
      PROVE  \E q \in Nat, r \in 0 .. CornerCount - 1 :
               /\ k = CornerCount * q + r + 1 /\ q + 1 \in 1 .. l
               /\ PointAt(k) = <<order[1 + q], 1 + r>>
  <2>0. k - 1 \in Nat /\ CornerCount \in Nat \ {0}
    BY <1>2, <1>3, <1>4
  <2>3. PICK j \in Nat : j = k - 1
    BY <2>0
  <2>1. PICK q : q = j \div CornerCount
    OBVIOUS
  <2>2. PICK r : r = j % CornerCount
    OBVIOUS
  <2>4. q \in Nat /\ r \in 0 .. CornerCount - 1 /\ k - 1 = CornerCount * q + r
    <3>1. q \in Int /\ q >= 0
      BY <2>0, <2>1
    <3>2. r \in 0 .. CornerCount - 1
      BY <2>0, <2>2
    <3>3. j = CornerCount * q + r
      BY <2>0, <2>1, <2>2, <3>1, <3>2
    <3> QED
      BY <2>3, <3>1, <3>2, <3>3
  <2>5. CornerCount * q + r < l * CornerCount
    BY <2>4, <1>2, <1>3
  <2>6. q < l
    BY <2>4, <2>5, <1>2, DivisionBound
  <2>7. PointAt(k) = <<order[1 + q], 1 + r>>
    BY <2>1, <2>2, <2>3 DEF PointAt, order
  <2>8. k = CornerCount * q + r + 1
    <3>1. CornerCount * q \in Nat
      BY <2>4, <1>2
    <3> QED
      BY <2>4, <3>1
  <2> QED
    BY <2>4, <2>6, <2>7, <2>8, <1>2
<1>6. PICK q \in Nat, r \in 0 .. CornerCount - 1 :
        /\ n = CornerCount * q + r + 1 /\ q + 1 \in 1 .. l
        /\ PointAt(n) = <<order[1 + q], 1 + r>>
  BY <1>5
<1>7. PICK p \in Nat, s \in 0 .. CornerCount - 1 :
        /\ m = CornerCount * p + s + 1 /\ p + 1 \in 1 .. l
        /\ PointAt(m) = <<order[1 + p], 1 + s>>
  BY <1>5
<1>8. PointAt(n) \in Points
  <2>1. order[1 + q] \in Range(order)
    BY <1>6, <1>2 DEF Range
  <2>2. 1 + r \in 1 .. CornerCount
    BY <1>2
  <2> QED
    BY <1>6, <2>1, <2>2 DEF Points, order
<1>9. ASSUME PointAt(m) = PointAt(n) PROVE m = n
  <2>1. order[1 + p] = order[1 + q] /\ 1 + s = 1 + r
    BY <1>6, <1>7, <1>9
  <2>2. p = q
    BY <2>1, <1>1, <1>2, <1>6, <1>7 DEF IsInjective
  <2>3. s = r
    BY <2>1, <1>2
  <2> QED
    BY <1>6, <1>7, <2>2, <2>3
<1> QED
  BY <1>8, <1>9

(* The next point is none that was taken.                                  *)
LEMMA NextIsNew ==
  ASSUME CountsInv, next <= PointCount
  PROVE  PointAt(next) \in Points /\ PointAt(next) \notin Taken
<1>1. PointCount \in Int /\ next \in 1 .. PointCount
  <2>1. Len(plan.order) \in Nat /\ CornerCount \in Nat
    BY SweepAssumption DEF CountsInv, Plans
  <2> QED
    BY <2>1 DEF CountsInv, PointCount
<1>2. ASSUME NEW n \in 1 .. next - 1 PROVE PointAt(n) # PointAt(next)
  BY <1>1, PointsAreNumbered
<1> QED
  BY <1>1, <1>2, PointsAreNumbered DEF Taken

(* A set of threads that changes by one thread at the most.                *)
LEMMA OneMore ==
  ASSUME NEW S \in SUBSET Worker, NEW T \in SUBSET Worker, NEW w \in Worker, S \ {w} = T \ {w}
  PROVE  /\ Cardinality(S) \in Nat /\ Cardinality(T) \in Nat
         /\ w \in S /\ w \in T => Cardinality(T) = Cardinality(S)
         /\ w \notin S /\ w \notin T => Cardinality(T) = Cardinality(S)
         /\ w \notin S /\ w \in T => Cardinality(T) = Cardinality(S) + 1
         /\ w \in S /\ w \notin T => Cardinality(T) = Cardinality(S) - 1
<1>1. IsFiniteSet(S) /\ IsFiniteSet(T)
  BY FS_Subset, SweepAssumption
<1>2. Cardinality(S) \in Nat /\ Cardinality(T) \in Nat
  BY <1>1, FS_CardinalityType
<1>3. w \in S /\ w \in T => T = S
  OBVIOUS
<1>4. w \notin S /\ w \notin T => T = S
  OBVIOUS
<1>5. ASSUME w \notin S, w \in T PROVE Cardinality(T) = Cardinality(S) + 1
  <2>1. T = S \cup {w}
    BY <1>5
  <2> QED
    BY <1>1, <1>5, <2>1, FS_AddElement
<1>6. ASSUME w \in S, w \notin T PROVE Cardinality(T) = Cardinality(S) - 1
  <2>1. S = T \cup {w}
    BY <1>6
  <2>2. Cardinality(S) = Cardinality(T) + 1
    BY <1>1, <1>6, <2>1, FS_AddElement
  <2> QED
    BY <1>2, <2>2
<1> QED
  BY <1>2, <1>3, <1>4, <1>5, <1>6

(* One thread moves: the pending calls change by its own at the most.      *)
LEMMA PendingMoves ==
  ASSUME WorkersInv, NEW w \in Worker, NEW state, Becomes(w, state)
  PROVE  LET n == Cardinality(Pending)
             was == Open(worker[w])
             is == Open(state)
         IN  /\ n \in Nat /\ n' \in Nat
             /\ (was <=> is) => n' = n
             /\ ~ was /\ is => n' = n + 1
             /\ was /\ ~ is => n' = n - 1
<1>1. w \in Pending <=> Open(worker[w])
  BY DEF Pending
<1>2. w \in Pending' <=> Open(state)
  BY DEF Pending, Becomes, WorkersInv
<1>3. Pending \ {w} = Pending' \ {w}
  BY DEF Pending, Becomes, WorkersInv
<1>4. Pending \in SUBSET Worker /\ Pending' \in SUBSET Worker
  BY DEF Pending
<1> QED
  BY <1>1, <1>2, <1>3, <1>4, OneMore

LEMMA PendingOfMoves ==
  ASSUME WorkersInv, NEW w \in Worker, NEW state, Becomes(w, state), NEW how
  PROVE  LET n == Cardinality(PendingOf(how))
             was == Open(worker[w]) /\ worker[w].how = how
             is == Open(state) /\ state.how = how
         IN  /\ n \in Nat /\ n' \in Nat
             /\ (was <=> is) => n' = n
             /\ ~ was /\ is => n' = n + 1
             /\ was /\ ~ is => n' = n - 1
<1>1. w \in PendingOf(how) <=> Open(worker[w]) /\ worker[w].how = how
  BY DEF PendingOf
<1>2. w \in PendingOf(how)' <=> Open(state) /\ state.how = how
  BY DEF PendingOf, Becomes, WorkersInv
<1>3. PendingOf(how) \ {w} = PendingOf(how)' \ {w}
  BY DEF PendingOf, Becomes, WorkersInv
<1>4. PendingOf(how) \in SUBSET Worker /\ PendingOf(how)' \in SUBSET Worker
  BY DEF PendingOf
<1> QED
  BY <1>1, <1>2, <1>3, <1>4, OneMore

(* Once the sweep is judged, no thread works.                              *)
LEMMA StillMapping ==
  ASSUME CallsInv, NEW w \in Worker, worker[w] # Idle, sweeping' = sweeping
  PROVE  JudgedInv'
  BY DEF CallsInv, JudgedInv, PlaceInv, AtPoint, Joined

(* A thread goes on with its point.                                        *)
LEMMA GoesOn ==
  ASSUME CallsInv, NEW w \in Worker, worker[w] # Idle, NEW state, Becomes(w, state),
         state # Idle, state.point = worker[w].point, state.at # "lookup",
         UNCHANGED <<plan, pool, sweeping, next, answers>>
  PROVE  PlaceInv' /\ JudgedInv' /\ (Raised' <=> Raised)
<1>1. worker' = [worker EXCEPT ![w] = state] /\ DOMAIN worker = Worker
  BY DEF Becomes, CallsInv, IInv, WorkersInv
<1>2. Taken' = Taken
  BY DEF Taken, PointAt
<1>3. PlaceInv'
  BY <1>1, <1>2 DEF CallsInv, PlaceInv, AtPoint
<1>4. JudgedInv'
  BY StillMapping
<1> QED
  BY <1>3, <1>4 DEF Raised

(* A thread hands its point back.                                          *)
LEMMA HandsBack ==
  ASSUME CallsInv, NEW w \in Worker, worker[w] # Idle, Becomes(w, Idle), NEW answer,
         answers' = Put(answers, worker[w].point, answer),
         UNCHANGED <<plan, pool, sweeping, next>>
  PROVE  /\ PlaceInv' /\ JudgedInv'
         /\ Raised => Raised'
         /\ answer.how = "raised" => Raised'
<1> DEFINE point == worker[w].point
<1>1. worker' = [worker EXCEPT ![w] = Idle] /\ DOMAIN worker = Worker
  BY DEF Becomes, CallsInv, IInv, WorkersInv
<1>2. Taken' = Taken
  BY DEF Taken, PointAt
<1>3. AtPoint(w)
  BY DEF CallsInv, PlaceInv
<1>4. /\ DOMAIN answers' = DOMAIN answers \cup {point}
      /\ answers'[point] = answer
      /\ \A p \in DOMAIN answers : answers'[p] = answers[p]
  BY <1>3 DEF Put, AtPoint
<1>5. PlaceInv'
  <2>1. DOMAIN answers' \subseteq Taken'
    BY <1>2, <1>3, <1>4 DEF CallsInv, PlaceInv, AtPoint
  <2>2. ASSUME NEW v \in Worker, worker'[v] # Idle PROVE AtPoint(v)'
    BY <1>1, <1>2, <1>4, <2>2 DEF CallsInv, PlaceInv, AtPoint
  <2>3. ASSUME NEW u \in Worker, NEW v \in Worker, u # v, worker'[u] # Idle, worker'[v] # Idle
        PROVE  worker'[u].point # worker'[v].point
    BY <1>1, <2>3 DEF CallsInv, PlaceInv
  <2> QED
    BY <2>1, <2>2, <2>3 DEF PlaceInv
<1>6. JudgedInv'
  BY StillMapping
<1> QED
  BY <1>4, <1>5, <1>6 DEF Raised

LEMMA CallsInit == SweepInit => CallsInv
<1> SUFFICES ASSUME SweepInit PROVE CallsInv
  OBVIOUS
<1>1. IInv
  BY InitInv
<1>2. /\ next = 1 /\ plan \in Plan /\ DOMAIN answers = {}
      /\ sweeping = "rendering" /\ \A w \in Worker : worker[w] = Idle
      /\ counters = [hits |-> 0, misses |-> 0] /\ lines = [hit |-> 0, miss |-> 0, bypass |-> 0]
  BY DEF SweepInit, Nothing
<1>3. pool \subseteq Worker
  BY SweepAssumption DEF SweepInit
<1>4. PointCount \in Nat
  <2>1. Len(plan.order) \in Nat /\ CornerCount \in Nat
    BY <1>2, SweepAssumption DEF Plans
  <2> QED
    BY <2>1 DEF PointCount
<1>5. CountsInv
  BY <1>2, <1>3, <1>4 DEF CountsInv
<1>6. PlaceInv /\ JudgedInv
  BY <1>2 DEF PlaceInv, JudgedInv
<1>7. Pending = {} /\ PendingOf("hit") = {} /\ PendingOf("miss") = {}
  BY <1>2 DEF Pending, PendingOf, Open, Idle
<1>8. LogInv
  <2>1. /\ Cardinality(Pending) = 0
        /\ Cardinality(PendingOf("hit")) = 0 /\ Cardinality(PendingOf("miss")) = 0
    BY <1>7, FS_EmptySet
  <2>2. /\ counters.hits = 0 /\ counters.misses = 0
        /\ lines.hit = 0 /\ lines.miss = 0 /\ lines.bypass = 0
    BY <1>2
  <2> QED
    BY <1>2, <2>1, <2>2 DEF LogInv
<1> QED
  BY <1>1, <1>5, <1>6, <1>8 DEF CallsInv

LEMMA CallsSweepStep ==
  ASSUME CallsInv,
         Render \/ TouchFiles \/ MapRaises \/ Judged \/ SeedCorners \/ UNCHANGED sweepVars
  PROVE  CallsInv'
<1>1. IInv'
  BY SweepStep DEF CallsInv
<1>2. UNCHANGED <<plan, pool, next, worker, counters, lines, answers>>
  BY DEF Render, TouchFiles, MapRaises, Judged, SeedCorners, sweepVars, cache
<1>3. (Raised' <=> Raised) /\ (Joined' <=> Joined)
  BY <1>2 DEF Raised, Joined, Points
<1>4. JudgedInv'
  BY <1>3 DEF CallsInv, JudgedInv, Render, TouchFiles, MapRaises, Judged, SeedCorners, sweepVars
<1>5. CountsInv' /\ PlaceInv'
  BY <1>2 DEF CallsInv, CountsInv, PlaceInv, AtPoint, Taken, PointAt, PointCount
<1>6. LogInv'
  BY <1>2, <1>3 DEF CallsInv, LogInv, Pending, PendingOf
<1> QED
  BY <1>1, <1>4, <1>5, <1>6 DEF CallsInv

LEMMA CallsTakeStep ==
  ASSUME CallsInv, NEW w \in Worker, TakePoint(w)
  PROVE  CallsInv'
<1> DEFINE call(at, how) ==
      [at |-> at, how |-> how, point |-> PointAt(next), key |-> KeyOf(PointAt(next)),
       result |-> None]
<1>1. PICK state \in {call("lookup", "cache"), call("log", "bypass")} : Becomes(w, state)
  BY DEF TakePoint
<1>2. /\ UNCHANGED <<plan, pool, sweeping, counters, lines, answers>>
      /\ worker[w] = Idle /\ w \in pool /\ sweeping = "mapping"
      /\ next <= PointCount /\ next' = next + 1
  BY DEF TakePoint, Frame, cache
<1>3. /\ state.point = PointAt(next) /\ state # Idle /\ Open(state)
      /\ state.how \in {"cache", "bypass"} /\ (state.at = "lookup" => state.how = "cache")
  BY <1>1 DEF Idle, Open
<1> HIDE DEF call
<1>4. next \in Nat /\ PointCount \in Int
  <2>1. Len(plan.order) \in Nat /\ CornerCount \in Nat
    BY SweepAssumption DEF CallsInv, CountsInv, Plans
  <2> QED
    BY <2>1 DEF CallsInv, CountsInv, PointCount
<1>5. Taken' = Taken \cup {PointAt(next)}
  <2>1. 1 .. next' - 1 = (1 .. next - 1) \cup {next}
    <3>1. next' - 1 = next
      BY <1>2, <1>4
    <3>2. 1 .. next \subseteq (1 .. next - 1) \cup {next}
      BY <1>4
    <3>3. (1 .. next - 1) \cup {next} \subseteq 1 .. next
      <4>1. next >= 1
        BY <1>4 DEF CallsInv, CountsInv
      <4> QED
        BY <1>4, <4>1
    <3> QED
      BY <3>1, <3>2, <3>3
  <2>2. Taken' = {PointAt(n) : n \in 1 .. next' - 1}
    BY <1>2 DEF Taken, PointAt
  <2> QED
    BY <2>1, <2>2 DEF Taken
<1>6. PointAt(next) \notin Taken
  BY <1>2, NextIsNew DEF CallsInv
<1>7. worker' = [worker EXCEPT ![w] = state] /\ DOMAIN worker = Worker
  BY <1>1 DEF Becomes, CallsInv, IInv, WorkersInv
<1>8. IInv' /\ WorkersInv
  BY TakeStep DEF CallsInv, IInv
<1>9. CountsInv'
  BY <1>2, <1>4 DEF CallsInv, CountsInv, PointCount
<1>10. PlaceInv'
  <2>1. DOMAIN answers' \subseteq Taken'
    BY <1>2, <1>5 DEF CallsInv, PlaceInv
  <2>2. AtPoint(w)'
    BY <1>2, <1>3, <1>5, <1>6, <1>7 DEF CallsInv, PlaceInv, AtPoint
  <2>3. ASSUME NEW v \in Worker, v # w, worker'[v] # Idle PROVE AtPoint(v)'
    BY <1>2, <1>5, <1>7, <2>3 DEF CallsInv, PlaceInv, AtPoint
  <2>4. ASSUME NEW v \in Worker, v # w, worker'[v] # Idle PROVE worker'[v].point # PointAt(next)
    BY <1>6, <1>7, <2>4 DEF CallsInv, PlaceInv, AtPoint
  <2>5. worker'[w].point = PointAt(next)
    BY <1>3, <1>7
  <2>6. ASSUME NEW u \in Worker, NEW v \in Worker, u # v, worker'[u] # Idle, worker'[v] # Idle
        PROVE  worker'[u].point # worker'[v].point
    BY <1>7, <2>4, <2>5, <2>6 DEF CallsInv, PlaceInv
  <2> QED
    BY <2>1, <2>2, <2>3, <2>6 DEF PlaceInv
<1>11. JudgedInv'
  BY <1>2 DEF JudgedInv
<1>12. LogInv'
  <2>1. ~ Open(worker[w])
    BY <1>2 DEF Open, Idle
  <2>2. Cardinality(Pending) \in Nat /\ Cardinality(Pending)' = Cardinality(Pending) + 1
    BY <1>1, <1>3, <1>8, <2>1, PendingMoves
  <2>3. /\ Cardinality(PendingOf("hit"))' = Cardinality(PendingOf("hit"))
        /\ Cardinality(PendingOf("miss"))' = Cardinality(PendingOf("miss"))
    BY <1>1, <1>3, <1>8, <2>1, PendingOfMoves
  <2>4. Raised' <=> Raised
    BY <1>2 DEF Raised
  <2> QED
    BY <1>2, <1>4, <2>2, <2>3, <2>4 DEF LogInv, CallsInv, CountsInv
<1> QED
  BY <1>8, <1>9, <1>10, <1>11, <1>12 DEF CallsInv

(* A thread that goes on, with its line as written or unwritten as it was. *)
LEMMA SameLines ==
  ASSUME CallsInv, NEW w \in Worker, worker[w] # Idle, NEW state, Becomes(w, state),
         state # Idle, state.point = worker[w].point, state.at # "lookup",
         Open(state) <=> Open(worker[w]),
         Open(worker[w]) => state.how = worker[w].how,
         IInv', UNCHANGED <<plan, pool, sweeping, next, answers, counters, lines>>
  PROVE  CallsInv'
<1>1. PlaceInv' /\ JudgedInv' /\ (Raised' <=> Raised)
  BY GoesOn
<1>2. WorkersInv
  BY DEF CallsInv, IInv
<1>3. Cardinality(Pending)' = Cardinality(Pending)
  BY <1>2, PendingMoves
<1>4. /\ Cardinality(PendingOf("hit"))' = Cardinality(PendingOf("hit"))
      /\ Cardinality(PendingOf("miss"))' = Cardinality(PendingOf("miss"))
  BY <1>2, PendingOfMoves
<1>5. LogInv'
  BY <1>1, <1>3, <1>4 DEF CallsInv, LogInv
<1>6. CountsInv'
  BY DEF CallsInv, CountsInv, PointCount
<1> QED
  BY <1>1, <1>5, <1>6 DEF CallsInv

LEMMA CallsLookupStep ==
  ASSUME CallsInv, NEW w \in Worker, Lookup(w)
  PROVE  CallsInv'
<1> DEFINE key == worker[w].key
           hit == At(w, "log", "hit", entries[key])
           miss == At(w, "simulate", "miss", None)
<1>1. /\ UNCHANGED <<plan, pool, sweeping, next, answers, lines>>
      /\ worker[w].at = "lookup" /\ worker[w] # Idle
  BY DEF Lookup, Frame, Idle
<1>2. worker[w].how = "cache" /\ Open(worker[w])
  BY <1>1 DEF CallsInv, PlaceInv, AtPoint, Open
<1>3. IInv' /\ WorkersInv
  BY LookupStep DEF CallsInv, IInv
<1>4. counters.hits \in Nat /\ counters.misses \in Nat
  BY DEF CallsInv, CountsInv
<1>5. CASE key \in DOMAIN entries
  <2>1. Becomes(w, hit) /\ counters' = [counters EXCEPT !.hits = @ + 1]
    BY <1>5 DEF Lookup
  <2>2. counters'.hits = counters.hits + 1 /\ counters'.misses = counters.misses
    BY <2>1 DEF CallsInv, CountsInv
  <2>3. /\ hit # Idle /\ hit.point = worker[w].point /\ hit.at = "log" /\ hit.how = "hit"
        /\ Open(hit)
    BY DEF At, Idle, Open
  <2> HIDE DEF hit, miss
  <2>4. PlaceInv' /\ JudgedInv' /\ (Raised' <=> Raised)
    BY <1>1, <2>1, <2>3, GoesOn
  <2>5. Cardinality(Pending)' = Cardinality(Pending)
    BY <1>2, <1>3, <2>1, <2>3, PendingMoves
  <2>6. /\ Cardinality(PendingOf("hit")) \in Nat
        /\ Cardinality(PendingOf("hit"))' = Cardinality(PendingOf("hit")) + 1
        /\ Cardinality(PendingOf("miss"))' = Cardinality(PendingOf("miss"))
    BY <1>2, <1>3, <2>1, <2>3, PendingOfMoves
  <2>7. CountsInv'
    BY <1>1, <2>1 DEF CallsInv, CountsInv, PointCount
  <2>8. LogInv'
    BY <1>1, <1>4, <2>2, <2>4, <2>5, <2>6 DEF CallsInv, CountsInv, LogInv
  <2> QED
    BY <1>3, <2>4, <2>7, <2>8 DEF CallsInv
<1>6. CASE key \notin DOMAIN entries
  <2>1. Becomes(w, miss) /\ counters' = [counters EXCEPT !.misses = @ + 1]
    BY <1>6 DEF Lookup
  <2>2. counters'.misses = counters.misses + 1 /\ counters'.hits = counters.hits
    BY <2>1 DEF CallsInv, CountsInv
  <2>3. /\ miss # Idle /\ miss.point = worker[w].point /\ miss.at = "simulate"
        /\ miss.how = "miss" /\ Open(miss)
    BY DEF At, Idle, Open
  <2> HIDE DEF hit, miss
  <2>4. PlaceInv' /\ JudgedInv' /\ (Raised' <=> Raised)
    BY <1>1, <2>1, <2>3, GoesOn
  <2>5. Cardinality(Pending)' = Cardinality(Pending)
    BY <1>2, <1>3, <2>1, <2>3, PendingMoves
  <2>6. /\ Cardinality(PendingOf("miss")) \in Nat
        /\ Cardinality(PendingOf("miss"))' = Cardinality(PendingOf("miss")) + 1
        /\ Cardinality(PendingOf("hit"))' = Cardinality(PendingOf("hit"))
    BY <1>2, <1>3, <2>1, <2>3, PendingOfMoves
  <2>7. CountsInv'
    BY <1>1, <2>1 DEF CallsInv, CountsInv, PointCount
  <2>8. LogInv'
    BY <1>1, <1>4, <2>2, <2>4, <2>5, <2>6 DEF CallsInv, CountsInv, LogInv
  <2> QED
    BY <1>3, <2>4, <2>7, <2>8 DEF CallsInv
<1> QED
  BY <1>5, <1>6

LEMMA CallsSimulated ==
  ASSUME CallsInv, NEW w \in Worker, worker[w].at = "simulate", NEW result,
         Simulated(w, result), IInv',
         UNCHANGED <<plan, pool, sweeping, next, answers, counters, lines>>
  PROVE  CallsInv'
<1> DEFINE place == IF worker[w].how = "bypass" THEN "return"
                    ELSE IF Cacheable(result) THEN "store" ELSE "log"
           state == At(w, place, worker[w].how, result)
<1>0. Call(worker[w], files, truth)
  BY AtCall DEF CallsInv
<1>1. worker[w].how \in {"miss", "bypass"} /\ worker[w] # Idle
  BY <1>0 DEF Call, Idle
<1>2. /\ place \in {"return", "store", "log"}
      /\ place = "return" <=> worker[w].how = "bypass"
  OBVIOUS
<1>3. Becomes(w, state)
  BY DEF Simulated
<1> HIDE DEF place
<1>4. state.at = place /\ state.how = worker[w].how /\ state.point = worker[w].point
  BY DEF At
<1>5. /\ state # Idle /\ state.at # "lookup"
      /\ Open(state) <=> Open(worker[w])
  BY <1>1, <1>2, <1>4 DEF Open, Idle
<1> HIDE DEF state
<1> QED
  BY <1>1, <1>3, <1>4, <1>5, SameLines

LEMMA CallsSimulateSteps ==
  ASSUME CallsInv, NEW w \in Worker, Simulate(w) \/ EnvironmentFails(w)
  PROVE  CallsInv'
<1>1. IInv'
  BY SimulateStep, EnvironmentStep DEF CallsInv
<1>2. /\ worker[w].at = "simulate"
      /\ UNCHANGED <<plan, pool, sweeping, next, answers, counters, lines>>
  BY DEF Simulate, EnvironmentFails, Frame, cache
<1>3. PICK result : Simulated(w, result)
  BY DEF Simulate, EnvironmentFails
<1> QED
  BY <1>1, <1>2, <1>3, CallsSimulated

LEMMA CallsStoreOpenSteps ==
  ASSUME CallsInv, NEW w \in Worker, Store(w) \/ OpenLine(w)
  PROVE  CallsInv'
<1>1. IInv'
  BY StoreStep, OpenStep DEF CallsInv
<1>2. /\ worker[w].at \in {"store", "log"} /\ worker[w] # Idle
      /\ UNCHANGED <<plan, pool, sweeping, next, answers, counters, lines>>
  BY DEF Store, OpenLine, Frame, Idle
<1>3. PICK place \in {"log", "write"} : Becomes(w, At(w, place, worker[w].how, worker[w].result))
  BY DEF Store, OpenLine, GoTo
<1> DEFINE state == At(w, place, worker[w].how, worker[w].result)
<1>4. /\ state # Idle /\ state.at = place /\ state.how = worker[w].how
      /\ state.point = worker[w].point
  BY DEF At, Idle
<1>5. Becomes(w, state)
  BY <1>3
<1> HIDE DEF state
<1>6. Open(state) /\ Open(worker[w]) /\ state.at # "lookup"
  BY <1>2, <1>4 DEF Open
<1> QED
  BY <1>1, <1>2, <1>4, <1>5, <1>6, SameLines

LEMMA CallsWriteStep ==
  ASSUME CallsInv, NEW w \in Worker, WriteLine(w)
  PROVE  CallsInv'
<1> DEFINE how == worker[w].how
           place == IF how = "bypass" THEN "simulate" ELSE "return"
           state == At(w, place, how, worker[w].result)
<1>1. /\ UNCHANGED <<plan, pool, sweeping, next, answers, counters>>
      /\ worker[w].at = "write" /\ worker[w] # Idle
      /\ Becomes(w, state)
      /\ lines' = [lines EXCEPT ![how] = @ + 1]
  BY DEF WriteLine, Frame, GoTo, Idle
<1>2. Call(worker[w], files, truth)
  BY <1>1, AtCall DEF CallsInv
<1>3. how \in {"hit", "miss", "bypass"}
  BY <1>1, <1>2 DEF Call
<1>4. IInv' /\ WorkersInv
  BY WriteStep DEF CallsInv, IInv
<1>5. /\ state # Idle /\ state.point = worker[w].point /\ state.at = place /\ state.how = how
  BY DEF At, Idle
<1> HIDE DEF state
<1>6. PlaceInv' /\ JudgedInv' /\ (Raised' <=> Raised)
  <2>1. state.at # "lookup"
    BY <1>5
  <2> QED
    BY <1>1, <1>5, <2>1, GoesOn
<1>7. Open(worker[w]) /\ ~ Open(state)
  BY <1>1, <1>3, <1>5 DEF Open
<1>8. /\ Cardinality(Pending) \in Nat
      /\ Cardinality(Pending)' = Cardinality(Pending) - 1
  BY <1>1, <1>4, <1>7, PendingMoves
<1>9. ASSUME NEW kind \in {"hit", "miss"}
      PROVE  /\ Cardinality(PendingOf(kind)) \in Nat
             /\ Cardinality(PendingOf(kind))' =
                  IF kind = how THEN Cardinality(PendingOf(kind)) - 1
                                ELSE Cardinality(PendingOf(kind))
  BY <1>1, <1>4, <1>7, PendingOfMoves
<1>10. /\ lines.hit \in Nat /\ lines.miss \in Nat /\ lines.bypass \in Nat
       /\ counters.hits \in Nat /\ counters.misses \in Nat /\ next \in Int
       /\ lines = [hit |-> lines.hit, miss |-> lines.miss, bypass |-> lines.bypass]
  <2>1. Len(plan.order) \in Nat /\ CornerCount \in Nat
    BY SweepAssumption DEF CallsInv, CountsInv, Plans
  <2> QED
    BY <2>1 DEF CallsInv, CountsInv, PointCount
<1>11. /\ lines'.hit = (IF how = "hit" THEN lines.hit + 1 ELSE lines.hit)
       /\ lines'.miss = (IF how = "miss" THEN lines.miss + 1 ELSE lines.miss)
       /\ lines'.bypass = (IF how = "bypass" THEN lines.bypass + 1 ELSE lines.bypass)
  BY <1>1, <1>3, <1>10
<1>12. CountsInv'
  <2>1. lines' \in [hit : Nat, miss : Nat, bypass : Nat]
    BY <1>1, <1>3, <1>10
  <2> QED
    BY <1>1, <2>1 DEF CallsInv, CountsInv, PointCount
<1>13. LogInv'
  <2> DEFINE hits == Cardinality(PendingOf("hit"))
             misses == Cardinality(PendingOf("miss"))
  <2>1. /\ hits \in Nat /\ misses \in Nat
        /\ hits' = (IF how = "hit" THEN hits - 1 ELSE hits)
        /\ misses' = (IF how = "miss" THEN misses - 1 ELSE misses)
    BY <1>9
  <2>2. ~ Raised => /\ counters.hits = lines.hit + hits
                    /\ counters.misses = lines.miss + misses
                    /\ next - 1 = lines.hit + lines.miss + lines.bypass + Cardinality(Pending)
    BY DEF CallsInv, LogInv
  <2>3. counters'.hits = counters.hits /\ counters'.misses = counters.misses /\ next' = next
    BY <1>1
  <2> HIDE DEF hits, misses, how
  <2>4. ~ Raised' => /\ counters'.hits = lines'.hit + hits'
                     /\ counters'.misses = lines'.miss + misses'
                     /\ next' - 1 = lines'.hit + lines'.miss + lines'.bypass + Cardinality(Pending)'
    BY <1>3, <1>6, <1>8, <1>10, <1>11, <2>1, <2>2, <2>3
  <2> QED
    BY <2>4 DEF LogInv, hits, misses
<1> QED
  BY <1>4, <1>6, <1>12, <1>13 DEF CallsInv

(* A thread that lets its point go has written its line, or the point      *)
(* raised.                                                                 *)
LEMMA CallsReturnSteps ==
  ASSUME CallsInv, NEW w \in Worker, Return(w) \/ Raise(w)
  PROVE  CallsInv'
<1>1. IInv' /\ WorkersInv
  BY ReturnStep, RaiseStep DEF CallsInv, IInv
<1>2. /\ UNCHANGED <<plan, pool, sweeping, next, counters, lines>>
      /\ worker[w] # Idle /\ Becomes(w, Idle)
      /\ worker[w].at = "return" \/ Raise(w)
  BY DEF Return, Raise, Frame, cache, Idle
<1>3. PICK how : /\ answers' = Put(answers, worker[w].point, Answer(w, how))
                 /\ how = "raised" \/ worker[w].at = "return"
  BY DEF Return, Raise
<1>4. Answer(w, how).how = how
  BY DEF Answer
<1>5. PlaceInv' /\ JudgedInv' /\ (Raised => Raised') /\ (how = "raised" => Raised')
  BY <1>2, <1>3, <1>4, HandsBack
<1>6. CountsInv'
  BY <1>2 DEF CallsInv, CountsInv, PointCount
<1>7. LogInv'
  <2>1. CASE Raised'
    BY <2>1 DEF LogInv
  <2>2. CASE ~ Raised'
    <3>1. ~ Raised /\ ~ Open(worker[w]) /\ ~ Open(Idle)
      BY <1>3, <1>5, <2>2 DEF Open, Idle
    <3>2. Cardinality(Pending)' = Cardinality(Pending)
      BY <1>1, <1>2, <3>1, PendingMoves
    <3>3. /\ Cardinality(PendingOf("hit"))' = Cardinality(PendingOf("hit"))
          /\ Cardinality(PendingOf("miss"))' = Cardinality(PendingOf("miss"))
      BY <1>1, <1>2, <3>1, PendingOfMoves
    <3> QED
      BY <1>2, <3>1, <3>2, <3>3 DEF CallsInv, LogInv
  <2> QED
    BY <2>1, <2>2
<1> QED
  BY <1>1, <1>5, <1>6, <1>7 DEF CallsInv

LEMMA CallsStep == CallsInv /\ [SweepNext]_sweepVars => CallsInv'
<1> SUFFICES ASSUME CallsInv, [SweepNext]_sweepVars PROVE CallsInv'
  OBVIOUS
<1>1. ASSUME NEW w \in Worker, Work(w) PROVE CallsInv'
  BY <1>1, CallsTakeStep, CallsLookupStep, CallsSimulateSteps, CallsStoreOpenSteps,
     CallsWriteStep, CallsReturnSteps DEF Work
<1> QED
  BY <1>1, CallsSweepStep DEF SweepNext

LEMMA CallsAreCounted == SweepSpec => []CallsInv
BY CallsInit, CallsStep, PTL DEF SweepSpec

(* When the sweep is judged, every call has one line in the log, of its    *)
(* kind, and the counters add up to the calls: for every pool of threads,  *)
(* every specification and every interleaving (cache.py:226-234, 268-317). *)
THEOREM EveryCallHasItsLine == SweepSpec => []LogAccountsForCalls
<1>1. CallsInv => LogAccountsForCalls
  <2> SUFFICES ASSUME CallsInv PROVE LogAccountsForCalls
    OBVIOUS
  <2>1. \A v, w \in Worker : worker[v].at = "write" /\ worker[w].at = "write" => v = w
    BY DEF CallsInv, IInv, LockInv
  <2>2. ASSUME sweeping \in {"judged", "seeded"}
        PROVE  /\ lines.hit = counters.hits /\ lines.miss = counters.misses
               /\ lines.hit + lines.miss + lines.bypass = PointCount
    <3>1. Joined /\ ~ Raised
      BY <2>2 DEF CallsInv, JudgedInv
    <3>2. \A w \in Worker : worker[w] = Idle
      BY <3>1 DEF CallsInv, PlaceInv, AtPoint, Joined
    <3>3. Pending = {} /\ PendingOf("hit") = {} /\ PendingOf("miss") = {}
      BY <3>2 DEF Pending, PendingOf, Open, Idle
    <3>4. /\ Cardinality(Pending) = 0
          /\ Cardinality(PendingOf("hit")) = 0 /\ Cardinality(PendingOf("miss")) = 0
      BY <3>3, FS_EmptySet
    <3>5. PointCount \in Nat
      <4>1. Len(plan.order) \in Nat /\ CornerCount \in Nat
        BY SweepAssumption DEF CallsInv, CountsInv, Plans
      <4> QED
        BY <4>1 DEF PointCount
    <3>6. ~ next <= PointCount
      BY <3>1, NextIsNew DEF CallsInv, PlaceInv, Joined
    <3>7. next - 1 = PointCount
      BY <3>5, <3>6 DEF CallsInv, CountsInv
    <3> QED
      BY <3>1, <3>4, <3>7 DEF CallsInv, CountsInv, LogInv
  <2> QED
    BY <2>1, <2>2 DEF LogAccountsForCalls
<1> QED
  BY <1>1, CallsAreCounted, PTL

-----------------------------------------------------------------------------
(* What the judge makes of the answers.  The rows of the corners are       *)
(* functions to integers, on what each corner measured.                    *)

LEMMA LeastNumber ==
  ASSUME NEW T \in SUBSET Nat, T # {}
  PROVE  \E n \in T : \A m \in T : n <= m
<1>1. PICK n \in T : \A m \in T : ~ (<<m, n>> \in OpToRel(<, Nat))
  BY WFMin, NatLessThanWellFounded
<1>2. \A m \in T : ~ (m < n)
  BY <1>1 DEF OpToRel
<1> QED
  BY <1>2

LEMMA Induction ==
  ASSUME NEW T, 0 \in T, \A n \in Nat : n \in T => n + 1 \in T
  PROVE  \A n \in Nat : n \in T
<1> SUFFICES ASSUME Nat \ T # {} PROVE FALSE
  OBVIOUS
<1>1. PICK n \in Nat \ T : \A m \in Nat \ T : n <= m
  BY LeastNumber
<1>2. n # 0 /\ n - 1 \in Nat /\ ~ (n <= n - 1)
  OBVIOUS
<1>3. n - 1 \in T
  BY <1>1, <1>2
<1> QED
  BY <1>2, <1>3

(* A finite set of numbers has a greatest and a least one.                 *)
HasEnds(S) == (\E x \in S : \A y \in S : x >= y) /\ (\E x \in S : \A y \in S : x <= y)
LEMMA EndsExist ==
  ASSUME NEW S \in SUBSET Int, IsFiniteSet(S), S # {}
  PROVE  HasEnds(S)
<1> DEFINE T == {n \in Nat : \A R \in SUBSET Int :
                   IsFiniteSet(R) /\ Cardinality(R) = n /\ R # {} => HasEnds(R)}
<1>1. 0 \in T
  BY FS_EmptySet
<1>2. ASSUME NEW n \in Nat, n \in T PROVE n + 1 \in T
  <2> SUFFICES ASSUME NEW R \in SUBSET Int, IsFiniteSet(R), Cardinality(R) = n + 1, R # {}
               PROVE  HasEnds(R)
    OBVIOUS
  <2>1. PICK x \in R : TRUE
    OBVIOUS
  <2>2. IsFiniteSet(R \ {x}) /\ Cardinality(R \ {x}) = n
    <3>1. IsFiniteSet(R \ {x}) /\ Cardinality(R \ {x}) = Cardinality(R) - 1
      BY <2>1, FS_RemoveElement
    <3> QED
      BY <3>1
  <2>3. CASE R \ {x} = {}
    <3>1. \A y \in R : x >= y /\ x <= y
      BY <2>1, <2>3
    <3> QED
      BY <2>1, <3>1 DEF HasEnds
  <2>4. CASE R \ {x} # {}
    <3>1. HasEnds(R \ {x})
      BY <1>2, <2>2, <2>4
    <3>2. PICK hi \in R \ {x} : \A y \in R \ {x} : hi >= y
      BY <3>1 DEF HasEnds
    <3>3. PICK lo \in R \ {x} : \A y \in R \ {x} : lo <= y
      BY <3>1 DEF HasEnds
    <3>4. \E z \in R : \A y \in R : z >= y
      <4>1. CASE hi >= x
        BY <4>1, <3>2
      <4>2. CASE ~ hi >= x
        <5>1. \A y \in R : x >= y
          BY <4>2, <3>2
        <5> QED
          BY <5>1
      <4> QED
        BY <4>1, <4>2
    <3>5. \E z \in R : \A y \in R : z <= y
      <4>1. CASE lo <= x
        BY <4>1, <3>3
      <4>2. CASE ~ lo <= x
        <5>1. \A y \in R : x <= y
          BY <4>2, <3>3
        <5> QED
          BY <5>1
      <4> QED
        BY <4>1, <4>2
    <3> QED
      BY <3>4, <3>5 DEF HasEnds
  <2> QED
    BY <2>3, <2>4
<1> HIDE DEF T
<1>3. \A n \in Nat : n \in T
  BY <1>1, <1>2, Induction
<1>4. Cardinality(S) \in T
  BY <1>3, FS_CardinalityType
<1> QED
  BY <1>4 DEF T

LEMMA Ends ==
  ASSUME NEW S \in SUBSET Int, IsFiniteSet(S), S # {}
  PROVE  /\ Max(S) \in S /\ \A y \in S : Max(S) >= y
         /\ Min(S) \in S /\ \A y \in S : Min(S) <= y
BY EndsExist DEF HasEnds, Max, Min

-----------------------------------------------------------------------------
(* Worst cases.                                                            *)
AreRows(rows, n) == DOMAIN rows = 1 .. n /\ \A i \in 1 .. n : IsRow(rows[i])
AllMeasured(rows, n, c) == \A i \in 1 .. n : c.measurement \in DOMAIN rows[i]
IsWorst(rows, n, c, v) ==
  /\ v \in Int /\ \E i \in 1 .. n : v = rows[i][c.measurement]
  /\ \A i \in 1 .. n : IF LowerBound(c) THEN v <= rows[i][c.measurement]
                                        ELSE rows[i][c.measurement] <= v

LEMMA MeasuredIs ==
  ASSUME NEW n \in Nat, NEW rows, AreRows(rows, n), NEW i \in 1 .. n, NEW c
  PROVE  /\ Measured(rows[i], c) # None <=> c.measurement \in DOMAIN rows[i]
         /\ c.measurement \in DOMAIN rows[i] =>
              Measured(rows[i], c) = rows[i][c.measurement] /\ rows[i][c.measurement] \in Int
BY NoneAssumption DEF AreRows, IsRow, Measured

(* A criterion has a worst value exactly if every corner measured it: that *)
(* of some corner, and no better than any other's.                         *)
LEMMA WorstIs ==
  ASSUME NEW n \in Nat \ {0}, NEW rows, AreRows(rows, n), NEW c
  PROVE  /\ AllMeasured(rows, n, c) => IsWorst(rows, n, c, Worst(rows, c).value)
         /\ ~ AllMeasured(rows, n, c) => Worst(rows, c).value = None
<1> DEFINE seen == {i \in DOMAIN rows : Measured(rows[i], c) # None}
           values == {rows[i][c.measurement] : i \in seen}
<1>1. DOMAIN rows = 1 .. n /\ n \in Nat /\ 1 \in 1 .. n
  BY DEF AreRows
<1>2. seen = DOMAIN rows <=> AllMeasured(rows, n, c)
  BY <1>1, MeasuredIs DEF AllMeasured
<1>3. CASE AllMeasured(rows, n, c)
  <2>1. seen = 1 .. n
    BY <1>1, <1>2, <1>3
  <2>2. \A i \in 1 .. n : rows[i][c.measurement] \in Int
    BY <1>1, <1>3, MeasuredIs DEF AllMeasured
  <2>3. values \in SUBSET Int /\ values # {}
    BY <1>1, <2>1, <2>2
  <2>4. IsFiniteSet(values)
    <3>1. PICK f : f = [i \in 1 .. n |-> rows[i][c.measurement]]
      OBVIOUS
    <3>2. f \in Surjection(1 .. n, values)
      BY <2>1, <3>1 DEF Surjection
    <3>3. IsFiniteSet(1 .. n)
      BY <1>1, FS_Interval
    <3> QED
      BY <3>2, <3>3, FS_Surjection
  <2>5. Worst(rows, c).value = IF LowerBound(c) THEN Min(values) ELSE Max(values)
    BY <1>1, <2>1 DEF Worst, WorstOf
  <2> HIDE DEF values
  <2>6. /\ Max(values) \in values /\ \A y \in values : Max(values) >= y
        /\ Min(values) \in values /\ \A y \in values : Min(values) <= y
    BY <2>3, <2>4, Ends
  <2>7. PICK v : v = Worst(rows, c).value
    OBVIOUS
  <2>8. v \in values /\ \A y \in values : IF LowerBound(c) THEN v <= y ELSE y <= v
    BY <2>3, <2>5, <2>6, <2>7
  <2>9. IsWorst(rows, n, c, v)
    BY <2>1, <2>2, <2>3, <2>8 DEF values, IsWorst
  <2> QED
    BY <1>3, <2>7, <2>9
<1>4. CASE ~ AllMeasured(rows, n, c)
  <2>1. Worst(rows, c).value = None
    BY <1>2, <1>4 DEF Worst, NoWorst
  <2> QED
    BY <1>4, <2>1
<1> QED
  BY <1>3, <1>4

(* A value that no corner is worse than passes exactly if all corners do.  *)
LEMMA PassesAtWorst ==
  ASSUME NEW n \in Nat \ {0}, NEW rows, AreRows(rows, n), NEW c, IsCriterion(c),
         AllMeasured(rows, n, c), NEW v, IsWorst(rows, n, c, v)
  PROVE  Passes(c, v) <=> \A i \in 1 .. n : MeetsByValue(c, rows[i][c.measurement])
<1>1. \A i \in 1 .. n : rows[i][c.measurement] \in Int
  BY MeasuredIs DEF AllMeasured
<1>2. v \in Int /\ v # None /\ c.threshold \in Int
  BY NoneAssumption DEF IsWorst, IsCriterion
<1>3. PICK j \in 1 .. n : v = rows[j][c.measurement]
  BY DEF IsWorst
<1>4. CASE c.operator = ">="
  BY <1>1, <1>2, <1>3, <1>4 DEF IsWorst, LowerBound, Passes, MeetsByValue
<1>5. CASE c.operator = ">"
  BY <1>1, <1>2, <1>3, <1>5 DEF IsWorst, LowerBound, Passes, MeetsByValue
<1>6. CASE c.operator = "<="
  BY <1>1, <1>2, <1>3, <1>6 DEF IsWorst, LowerBound, Passes, MeetsByValue
<1>7. CASE c.operator = "<"
  BY <1>1, <1>2, <1>3, <1>7 DEF IsWorst, LowerBound, Passes, MeetsByValue
<1> QED
  BY <1>4, <1>5, <1>6, <1>7 DEF IsCriterion

LEMMA WorstDecides ==
  ASSUME NEW n \in Nat \ {0}, NEW rows, AreRows(rows, n), NEW c, IsCriterion(c)
  PROVE  Passes(c, Worst(rows, c).value) <=> \A i \in 1 .. n : Passes(c, Measured(rows[i], c))
<1>1. CASE AllMeasured(rows, n, c)
  <2>1. IsWorst(rows, n, c, Worst(rows, c).value)
    BY <1>1, WorstIs
  <2>2. \A i \in 1 .. n :
          Passes(c, Measured(rows[i], c)) <=> MeetsByValue(c, rows[i][c.measurement])
    BY <1>1, MeasuredIs DEF AllMeasured, Passes
  <2> QED
    BY <1>1, <2>1, <2>2, PassesAtWorst
<1>2. CASE ~ AllMeasured(rows, n, c)
  <2>1. ~ Passes(c, Worst(rows, c).value)
    BY <1>2, WorstIs DEF Passes
  <2>2. PICK i \in 1 .. n : Measured(rows[i], c) = None
    BY <1>2, MeasuredIs DEF AllMeasured
  <2> QED
    BY <2>1, <2>2 DEF Passes
<1> QED
  BY <1>1, <1>2

(* The one value that the loop judges: what it is of, and that it is no    *)
(* less severe than all of them together.                                  *)
LEMMA SlotDecides ==
  ASSUME NEW n \in Nat \ {0}, NEW rows, AreRows(rows, n),
         NEW criteria, DOMAIN criteria \subseteq Nat, IsFiniteSet(DOMAIN criteria),
         \A k \in DOMAIN criteria : IsCriterion(criteria[k])
  PROVE  (\A k \in DOMAIN criteria : Passes(criteria[k], Worst(rows, criteria[k]).value))
         <=> \A k \in DOMAIN criteria :
               Passes(criteria[k], Slot(rows, criteria, criteria[k].measurement))
<1> DEFINE worst(k) == Worst(rows, criteria[k]).value
           all(k) == Candidates(rows, criteria, criteria[k].measurement)
           violating(k) == {j \in all(k) : ~Passes(criteria[j], worst(j))}
           slot(k) == Slot(rows, criteria, criteria[k].measurement)
<1>1. ASSUME NEW k \in DOMAIN criteria
      PROVE  /\ all(k) = {} => slot(k) = None
             /\ violating(k) # {} => Min(violating(k)) \in violating(k)
                                    /\ slot(k) = worst(Min(violating(k)))
             /\ all(k) # {} => Max(all(k)) \in all(k)
             /\ all(k) # {} /\ violating(k) = {} => slot(k) = worst(Max(all(k)))
  <2>1. all(k) \in SUBSET DOMAIN criteria /\ violating(k) \in SUBSET DOMAIN criteria
    BY DEF Candidates
  <2>2. /\ all(k) \in SUBSET Int /\ IsFiniteSet(all(k))
        /\ violating(k) \in SUBSET Int /\ IsFiniteSet(violating(k))
    BY <2>1, FS_Subset
  <2>3. all(k) # {} => Max(all(k)) \in all(k)
    BY <2>2, Ends
  <2>4. violating(k) # {} => Min(violating(k)) \in violating(k)
    BY <2>2, Ends
  <2>5. slot(k) = IF all(k) = {} THEN None
                  ELSE worst(IF violating(k) # {} THEN Min(violating(k)) ELSE Max(all(k)))
    BY DEF Slot
  <2>6. violating(k) # {} => all(k) # {}
    OBVIOUS
  <2> HIDE DEF all, violating, slot, worst
  <2> QED
    BY <2>3, <2>4, <2>5, <2>6
<1>2. \A k \in DOMAIN criteria : \A j : j \in all(k) <=>
        /\ j \in DOMAIN criteria /\ criteria[j].measurement = criteria[k].measurement
        /\ worst(j) # None
  BY DEF Candidates
<1>3. ASSUME NEW k \in DOMAIN criteria, ~ Passes(criteria[k], worst(k))
      PROVE  \E j \in DOMAIN criteria : ~ Passes(criteria[j], slot(j))
  <2>1. CASE worst(k) = None
    <3>1. ~ AllMeasured(rows, n, criteria[k])
      BY <2>1, WorstIs, NoneAssumption DEF IsWorst
    <3>2. \A j \in DOMAIN criteria : criteria[j].measurement = criteria[k].measurement =>
             worst(j) = None
      <4>1. \A j \in DOMAIN criteria : criteria[j].measurement = criteria[k].measurement =>
               ~ AllMeasured(rows, n, criteria[j])
        BY <3>1 DEF AllMeasured
      <4> QED
        BY <4>1, WorstIs
    <3>3. all(k) = {}
      BY <1>2, <3>2
    <3>4. slot(k) = None
      BY <1>1, <3>3
    <3> QED
      BY <3>4 DEF Passes
  <2>2. CASE worst(k) # None
    <3>1. k \in violating(k)
      BY <1>2, <1>3, <2>2
    <3>2. PICK j : j = Min(violating(k))
      OBVIOUS
    <3>3. j \in violating(k) /\ slot(k) = worst(j)
      BY <1>1, <3>1, <3>2
    <3>4. /\ j \in DOMAIN criteria /\ criteria[j].measurement = criteria[k].measurement
          /\ ~ Passes(criteria[j], worst(j))
      BY <1>2, <3>3
    <3>5. slot(j) = slot(k)
      BY <3>4
    <3> QED
      BY <3>3, <3>4, <3>5
  <2> QED
    BY <2>1, <2>2
<1>4. ASSUME \A j \in DOMAIN criteria : Passes(criteria[j], worst(j)), NEW k \in DOMAIN criteria
      PROVE  Passes(criteria[k], slot(k))
  <2>1. PICK j : j = Max(all(k))
    OBVIOUS
  <2>2. k \in all(k) /\ violating(k) = {}
    BY <1>2, <1>4 DEF Passes
  <2>3. j \in all(k) /\ slot(k) = worst(j)
    BY <1>1, <2>1, <2>2
  <2>4. /\ j \in DOMAIN criteria /\ criteria[j].measurement = criteria[k].measurement
        /\ worst(j) # None /\ worst(k) # None
    BY <1>2, <2>2, <2>3
  <2>5. AllMeasured(rows, n, criteria[j]) /\ AllMeasured(rows, n, criteria[k])
    BY <2>4, WorstIs
  <2>6. PICK v : v = worst(j)
    OBVIOUS
  <2>7. PICK i \in 1 .. n : v = rows[i][criteria[k].measurement] /\ v \in Int
    BY <2>4, <2>5, <2>6, WorstIs DEF IsWorst
  <2>8. IsWorst(rows, n, criteria[k], worst(k))
    BY <2>5, WorstIs
  <2>9. MeetsByValue(criteria[k], v)
    BY <1>4, <2>5, <2>7, <2>8, PassesAtWorst
  <2> QED
    BY <2>3, <2>6, <2>7, <2>9, NoneAssumption DEF Passes
<1> HIDE DEF worst, all, violating, slot
<1>5. (\A k \in DOMAIN criteria : Passes(criteria[k], worst(k)))
      <=> \A k \in DOMAIN criteria : Passes(criteria[k], slot(k))
  BY <1>3, <1>4
<1> QED
  BY <1>5 DEF worst, slot

-----------------------------------------------------------------------------
(* The coverage seed.                                                      *)

(* Within epsilon of the worst value is within epsilon of every value.     *)
LEMMA NearTheWorst ==
  ASSUME NEW eps \in 0 .. 100, NEW w \in Int, NEW r \in Int, NEW v \in Int,
         100 * Magnitude(r - w) <= eps * Magnitude(w), w <= v
  PROVE  100 * (r - v) <= eps * Magnitude(v)
<1>1. PICK d \in Nat : v = w + d
  <2>1. v - w \in Nat /\ v = w + (v - w)
    OBVIOUS
  <2> QED
    BY <2>1
<1>2. PICK a \in Nat : a = Magnitude(w)
  BY DEF Magnitude
<1>3. PICK b \in Nat : b = Magnitude(v)
  BY DEF Magnitude
<1>4. PICK e \in Nat : a + e = b + d
  <2>1. a <= b + d
    BY <1>1, <1>2, <1>3 DEF Magnitude
  <2>2. b + d - a \in Nat /\ a + (b + d - a) = b + d
    BY <2>1
  <2> QED
    BY <2>2
<1>5. eps * a + eps * e = eps * b + eps * d
  <2>1. eps * (a + e) = eps * (b + d)
    BY <1>4
  <2>2. eps * (a + e) = eps * a + eps * e /\ eps * (b + d) = eps * b + eps * d
    OBVIOUS
  <2> QED
    BY <2>1, <2>2
<1>6. eps * e >= 0 /\ eps * d <= 100 * d
  <2>1. (100 - eps) * d >= 0 /\ (100 - eps) * d = 100 * d - eps * d
    OBVIOUS
  <2>2. eps * e >= 0
    OBVIOUS
  <2> QED
    BY <2>1, <2>2
<1>7. r - w <= Magnitude(r - w) /\ Magnitude(r - w) \in Int
  BY DEF Magnitude
<1>8. 100 * (r - w) <= eps * a
  BY <1>2, <1>7
<1>9. 100 * (r - v) = 100 * (r - w) - 100 * d
  BY <1>1
<1> QED
  BY <1>3, <1>5, <1>6, <1>8, <1>9

(* The same, where the worst value is the greatest.                        *)
LEMMA NearTheGreatest ==
  ASSUME NEW eps \in 0 .. 100, NEW w \in Int, NEW r \in Int, NEW v \in Int,
         100 * Magnitude(r - w) <= eps * Magnitude(w), v <= w
  PROVE  100 * (v - r) <= eps * Magnitude(v)
<1>1. /\ Magnitude(-r - (-w)) = Magnitude(r - w)
      /\ Magnitude(-w) = Magnitude(w) /\ Magnitude(-v) = Magnitude(v)
  BY DEF Magnitude
<1>2. PICK s \in Int, x \in Int, u \in Int : s = -r /\ x = -w /\ u = -v
  OBVIOUS
<1>3. 100 * (s - u) <= eps * Magnitude(u)
  <2>1. x <= u
    BY <1>2
  <2>2. Magnitude(s - x) = Magnitude(r - w) /\ Magnitude(x) = Magnitude(w)
    BY <1>1, <1>2
  <2>3. 100 * Magnitude(s - x) <= eps * Magnitude(x)
    BY <2>2
  <2> QED
    BY <1>2, <2>1, <2>3, NearTheWorst
<1>4. s - u = v - r
  BY <1>2
<1> QED
  BY <1>1, <1>2, <1>3, <1>4

AreCriteria(criteria) ==
  IsFiniteSet(DOMAIN criteria) /\ \A k \in DOMAIN criteria : IsCriterion(criteria[k])

(* Every criterion is covered by some corner.                              *)
LEMMA CoveredSomewhere ==
  ASSUME NEW n \in Nat \ {0}, NEW rows, AreRows(rows, n), NEW criteria, NEW k \in DOMAIN criteria
  PROVE  \E i \in 1 .. n : k \in Covered(rows, criteria, i)
<1> DEFINE c == criteria[k]
<1>1. CASE AllMeasured(rows, n, c)
  <2>1. PICK v : v = Worst(rows, c).value
    OBVIOUS
  <2>2. IsWorst(rows, n, c, v)
    BY <1>1, <2>1, WorstIs
  <2>3. PICK i \in 1 .. n : v = rows[i][c.measurement]
    BY <2>2 DEF IsWorst
  <2>4. v \in Int /\ v # None
    BY <2>2, NoneAssumption DEF IsWorst
  <2>5. 100 * Magnitude(v - v) <= Epsilon * Magnitude(v)
    <3>1. PICK m \in Nat : m = Magnitude(v)
      BY <2>4 DEF Magnitude
    <3>2. Epsilon * m >= 0
      BY CoverageAssumption
    <3>3. Magnitude(v - v) = 0
      BY <2>4 DEF Magnitude
    <3> QED
      BY <3>1, <3>2, <3>3
  <2>6. k \in Covered(rows, criteria, i)
    BY <2>1, <2>3, <2>4, <2>5 DEF Covered
  <2> QED
    BY <2>6
<1>2. CASE ~ AllMeasured(rows, n, c)
  <2>1. PICK i \in 1 .. n : Measured(rows[i], c) = None
    BY <1>2, MeasuredIs DEF AllMeasured
  <2>2. Worst(rows, c).value = None
    BY <1>2, WorstIs
  <2>3. k \in Covered(rows, criteria, i)
    BY <2>1, <2>2 DEF Covered
  <2> QED
    BY <2>3
<1> QED
  BY <1>1, <1>2

(* While some corner covers more, the one that is picked does.             *)
LEMMA PickedGains ==
  ASSUME NEW n \in Nat \ {0}, NEW rows, AreRows(rows, n), NEW criteria, AreCriteria(criteria),
         NEW covered, \E i \in 1 .. n : ~ Covered(rows, criteria, i) \subseteq covered
  PROVE  /\ Pick(rows, criteria, covered) \in 1 .. n
         /\ ~ Covered(rows, criteria, Pick(rows, criteria, covered)) \subseteq covered
<1> DEFINE gain(i) == Cardinality(Covered(rows, criteria, i) \ covered)
           best == {i \in 1 .. n : \A j \in 1 .. n : gain(j) <= gain(i)}
           gains == {gain(i) : i \in 1 .. n}
<1>1. \A i \in 1 .. n : /\ IsFiniteSet(Covered(rows, criteria, i) \ covered)
                        /\ gain(i) \in Nat
  <2>1. \A i \in 1 .. n : Covered(rows, criteria, i) \ covered \in SUBSET DOMAIN criteria
    BY DEF Covered
  <2> QED
    BY <2>1, FS_Subset, FS_CardinalityType DEF AreCriteria
<1>2. \A i \in 1 .. n : gain(i) = 0 <=> Covered(rows, criteria, i) \subseteq covered
  BY <1>1, FS_EmptySet
<1> HIDE DEF gain
<1>3. gains \in SUBSET Int /\ gains # {} /\ IsFiniteSet(gains)
  <2>1. PICK f : f = [i \in 1 .. n |-> gain(i)]
    OBVIOUS
  <2>2. f \in Surjection(1 .. n, gains)
    BY <2>1 DEF Surjection
  <2>3. IsFiniteSet(1 .. n) /\ 1 \in 1 .. n
    BY FS_Interval
  <2>4. gains # {} /\ gains \subseteq Int
    <3>1. \A i \in 1 .. n : gain(i) \in Int
      <4>1. Nat \subseteq Int
        OBVIOUS
      <4> QED
        BY <1>1, <4>1
    <3>2. gain(1) \in gains
      BY <2>3
    <3> QED
      BY <3>1, <3>2
  <2> HIDE DEF gains
  <2>5. IsFiniteSet(gains)
    BY <2>2, <2>3, FS_Surjection
  <2> QED
    BY <2>4, <2>5
<1>4. PICK i \in 1 .. n : \A j \in 1 .. n : gain(j) <= gain(i)
  <2>1. Max(gains) \in gains /\ \A y \in gains : Max(gains) >= y
    BY <1>3, Ends
  <2>2. PICK m \in gains : \A y \in gains : m >= y
    BY <2>1
  <2>3. PICK i \in 1 .. n : m = gain(i)
    OBVIOUS
  <2>4. \A j \in 1 .. n : gain(j) <= gain(i)
    BY <1>1, <2>2, <2>3
  <2> QED
    BY <2>4
<1>5. Min(best) \in best
  <2>1. best \in SUBSET Int /\ best # {} /\ IsFiniteSet(best)
    <3>1. IsFiniteSet(1 .. n)
      BY FS_Interval
    <3>2. best \in SUBSET (1 .. n)
      OBVIOUS
    <3> QED
      BY <1>4, <3>1, <3>2, FS_Subset
  <2> QED
    BY <2>1, Ends
<1>6. Pick(rows, criteria, covered) = Min(best)
  BY DEF Pick, AreRows, gain
<1> HIDE DEF best
<1>7. PICK p : p = Pick(rows, criteria, covered)
  OBVIOUS
<1>8. p \in 1 .. n /\ \A j \in 1 .. n : gain(j) <= gain(p)
  BY <1>5, <1>6, <1>7 DEF best
<1>9. gain(p) # 0
  <2>1. PICK j \in 1 .. n : ~ Covered(rows, criteria, j) \subseteq covered
    OBVIOUS
  <2>2. gain(j) # 0 /\ gain(j) \in Nat /\ gain(p) \in Nat /\ gain(j) <= gain(p)
    BY <1>1, <1>2, <1>8, <2>1
  <2> QED
    BY <2>2
<1> QED
  BY <1>2, <1>7, <1>8, <1>9

(* After m rounds every covered criterion is shown by a chosen corner, and *)
(* m corners are chosen unless they are enough.                            *)
Greedy(rows, n, criteria, s, m) ==
  /\ s.chosen \subseteq 1 .. n /\ IsFiniteSet(s.chosen)
  /\ s.covered \subseteq DOMAIN criteria
  /\ \A k \in s.covered : \E i \in s.chosen : k \in Covered(rows, criteria, i)
  /\ \A i \in s.chosen : Covered(rows, criteria, i) \subseteq s.covered
  /\ Enough(rows, criteria, s.covered) \/ Cardinality(s.chosen) = m

LEMMA GrownIsGreedy ==
  ASSUME NEW n \in Nat \ {0}, NEW rows, AreRows(rows, n), NEW criteria, AreCriteria(criteria),
         NEW m \in Nat, NEW s, Greedy(rows, n, criteria, s, m)
  PROVE  Greedy(rows, n, criteria, Grown(rows, criteria, s), m + 1)
<1>1. CASE Enough(rows, criteria, s.covered)
  BY <1>1 DEF Greedy, Grown
<1>2. CASE ~ Enough(rows, criteria, s.covered)
  <2>1. PICK i : i = Pick(rows, criteria, s.covered)
    OBVIOUS
  <2>2. i \in 1 .. n /\ ~ Covered(rows, criteria, i) \subseteq s.covered
    <3>1. \E j \in 1 .. n : ~ Covered(rows, criteria, j) \subseteq s.covered
      BY <1>2 DEF Enough, AreRows
    <3> QED
      BY <2>1, <3>1, PickedGains
  <2>3. i \notin s.chosen
    BY <2>2 DEF Greedy
  <2>4. PICK t : t = Grown(rows, criteria, s)
    OBVIOUS
  <2>5. /\ t.chosen = s.chosen \cup {i}
        /\ t.covered = s.covered \cup Covered(rows, criteria, i)
    BY <1>2, <2>1, <2>4 DEF Grown
  <2>6. IsFiniteSet(t.chosen) /\ Cardinality(t.chosen) = m + 1
    <3>1. IsFiniteSet(s.chosen) /\ Cardinality(s.chosen) = m
      BY <1>2 DEF Greedy
    <3> QED
      BY <2>3, <2>5, <3>1, FS_AddElement
  <2>7. Covered(rows, criteria, i) \subseteq DOMAIN criteria
    BY DEF Covered
  <2>8. \A k \in t.covered : \E j \in t.chosen : k \in Covered(rows, criteria, j)
    BY <2>5 DEF Greedy
  <2>9. \A j \in t.chosen : Covered(rows, criteria, j) \subseteq t.covered
    BY <2>5 DEF Greedy
  <2>10. t.chosen \subseteq 1 .. n /\ t.covered \subseteq DOMAIN criteria
    BY <2>2, <2>5, <2>7 DEF Greedy
  <2> QED
    BY <2>4, <2>6, <2>8, <2>9, <2>10 DEF Greedy
<1> QED
  BY <1>1, <1>2

(* The rounds of the seed.                                                 *)
Rounds(rows, criteria, f, m) ==
  f = [i \in 0 .. m |-> IF i = 0 THEN [chosen |-> {}, covered |-> {}]
                        ELSE Grown(rows, criteria, f[i - 1])]
LEMMA RoundsExist ==
  ASSUME NEW rows, NEW criteria
  PROVE  \A m \in Nat : \E f : Rounds(rows, criteria, f, m)
<1> DEFINE T == {m \in Nat : \E f : Rounds(rows, criteria, f, m)}
           start == [chosen |-> {}, covered |-> {}]
           next1(s) == Grown(rows, criteria, s)
<1>1. 0 \in T
  <2>1. PICK f : f = [i \in 0 .. 0 |-> start]
    OBVIOUS
  <2>2. f = [i \in 0 .. 0 |-> IF i = 0 THEN start ELSE next1(f[i - 1])]
    <3> HIDE DEF start, next1
    <3> QED
      BY <2>1
  <2>3. Rounds(rows, criteria, f, 0)
    BY <2>2 DEF Rounds
  <2> QED
    BY <2>3
<1>2. ASSUME NEW m \in Nat, m \in T PROVE m + 1 \in T
  <2>1. PICK f : Rounds(rows, criteria, f, m)
    BY <1>2
  <2>2. f = [i \in 0 .. m |-> IF i = 0 THEN start ELSE next1(f[i - 1])]
    BY <2>1 DEF Rounds
  <2>3. PICK g : g = [i \in 0 .. m + 1 |-> IF i = m + 1 THEN next1(f[m]) ELSE f[i]]
    OBVIOUS
  <2>4. g = [i \in 0 .. m + 1 |-> IF i = 0 THEN start ELSE next1(g[i - 1])]
    <3> HIDE DEF start, next1
    <3>1. \A i \in 0 .. m : g[i] = f[i]
      BY <2>3
    <3>2. \A i \in 0 .. m : g[i] = IF i = 0 THEN start ELSE next1(g[i - 1])
      <4> SUFFICES ASSUME NEW i \in 0 .. m
                   PROVE  g[i] = IF i = 0 THEN start ELSE next1(g[i - 1])
        OBVIOUS
      <4>1. f[i] = IF i = 0 THEN start ELSE next1(f[i - 1])
        BY <2>2
      <4>2. i # 0 => i - 1 \in 0 .. m
        OBVIOUS
      <4> QED
        BY <3>1, <4>1, <4>2
    <3>3. g[m + 1] = next1(g[m]) /\ m + 1 # 0
      BY <2>3, <3>1
    <3>4. \A i \in 0 .. m + 1 : g[i] = IF i = 0 THEN start ELSE next1(g[i - 1])
      <4> SUFFICES ASSUME NEW i \in 0 .. m + 1
                   PROVE  g[i] = IF i = 0 THEN start ELSE next1(g[i - 1])
        OBVIOUS
      <4>1. CASE i \in 0 .. m
        BY <3>2, <4>1
      <4>2. CASE i = m + 1
        <5>1. i - 1 = m
          BY <4>2
        <5> QED
          BY <3>3, <4>2, <5>1
      <4> QED
        BY <4>1, <4>2
    <3>5. g = [i \in 0 .. m + 1 |-> g[i]]
      BY <2>3
    <3> QED
      BY <3>4, <3>5
  <2>5. Rounds(rows, criteria, g, m + 1)
    BY <2>4 DEF Rounds
  <2> QED
    BY <2>5
<1> HIDE DEF T
<1>3. \A m \in Nat : m \in T
  BY <1>1, <1>2, Induction
<1> QED
  BY <1>3 DEF T

LEMMA RoundsAreGreedy ==
  ASSUME NEW n \in Nat \ {0}, NEW rows, AreRows(rows, n), NEW criteria, AreCriteria(criteria),
         NEW f, Rounds(rows, criteria, f, n)
  PROVE  Greedy(rows, n, criteria, f[n], n)
<1> DEFINE T == {m \in Nat : m <= n => Greedy(rows, n, criteria, f[m], m)}
<1>1. 0 \in T
  <2>1. f[0] = [chosen |-> {}, covered |-> {}]
    BY DEF Rounds
  <2> QED
    BY <2>1, FS_EmptySet DEF Greedy
<1>2. ASSUME NEW m \in Nat, m \in T PROVE m + 1 \in T
  <2> SUFFICES ASSUME m + 1 <= n PROVE Greedy(rows, n, criteria, f[m + 1], m + 1)
    OBVIOUS
  <2>1. Greedy(rows, n, criteria, f[m], m)
    BY <1>2
  <2>2. f[m + 1] = Grown(rows, criteria, f[m])
    <3>1. m + 1 \in 0 .. n /\ m + 1 # 0 /\ (m + 1) - 1 = m
      OBVIOUS
    <3> QED
      BY <3>1 DEF Rounds
  <2> QED
    BY <2>1, <2>2, GrownIsGreedy
<1> HIDE DEF T
<1>3. n \in T
  BY <1>1, <1>2, Induction
<1> QED
  BY <1>3 DEF T

LEMMA ChosenIsGreedy ==
  ASSUME NEW n \in Nat \ {0}, NEW rows, AreRows(rows, n), Len(rows) = n,
         NEW criteria, AreCriteria(criteria)
  PROVE  Greedy(rows, n, criteria, Chosen(rows, criteria), n)
<1> DEFINE f == CHOOSE f : Rounds(rows, criteria, f, n)
<1>1. Rounds(rows, criteria, f, n)
  BY RoundsExist
<1>2. Chosen(rows, criteria) = f[n]
  BY DEF Chosen, Rounds
<1> HIDE DEF f
<1> QED
  BY <1>1, <1>2, RoundsAreGreedy

(* The seed reaches its target, and a criterion that it covers is covered  *)
(* by one of its corners.                                                  *)
LEMMA SeedCovers ==
  ASSUME NEW n \in Nat \ {0}, NEW rows, AreRows(rows, n), Len(rows) = n,
         NEW criteria, AreCriteria(criteria)
  PROVE  LET s == CoverageSeed(rows, criteria)
         IN  /\ s.reached_target
             /\ s.chosen \subseteq 1 .. n /\ s.covered \subseteq DOMAIN criteria
             /\ \A k \in s.covered : \E i \in s.chosen : k \in Covered(rows, criteria, i)
<1> DEFINE end == Chosen(rows, criteria)
<1>1. Greedy(rows, n, criteria, end, n)
  BY ChosenIsGreedy
<1> HIDE DEF end
<1>2. Enough(rows, criteria, end.covered)
  <2> SUFFICES ASSUME Cardinality(end.chosen) = n PROVE Enough(rows, criteria, end.covered)
    BY <1>1 DEF Greedy
  <2>1. IsFiniteSet(1 .. n) /\ Cardinality(1 .. n) = n
    BY FS_Interval
  <2>2. end.chosen = 1 .. n
    BY <1>1, <2>1, FS_Subset DEF Greedy
  <2> QED
    BY <1>1, <2>2 DEF Greedy, Enough, AreRows
<1>3. Cardinality(end.covered) >= Target(criteria)
  <2> SUFFICES ASSUME \A i \in 1 .. n : Covered(rows, criteria, i) \subseteq end.covered
               PROVE  Cardinality(end.covered) >= Target(criteria)
    BY <1>2 DEF Enough, AreRows
  <2>1. end.covered = DOMAIN criteria
    BY <1>1, CoveredSomewhere DEF Greedy
  <2>2. PICK c \in Nat : c = Cardinality(DOMAIN criteria)
    BY FS_CardinalityType DEF AreCriteria
  <2>3. Tau * c + 99 < 100 * (c + 1)
    <3>1. (100 - Tau) * c >= 0 /\ (100 - Tau) * c = 100 * c - Tau * c
      BY CoverageAssumption
    <3> QED
      BY <3>1, CoverageAssumption
  <2>4. Tau * c \in Nat
    BY CoverageAssumption
  <2>5. (Tau * c + 99) \div 100 <= c
    BY <2>3, <2>4
  <2> QED
    BY <2>1, <2>2, <2>5 DEF Target
<1> QED
  BY <1>1, <1>3 DEF CoverageSeed, Greedy, end

(* What a corner that covers a criterion shows of it.                      *)
Shows(rows, n, c, i) ==
  IF \E j \in 1 .. n : Measured(rows[j], c) = None THEN Measured(rows[i], c) = None
  ELSE \A j \in 1 .. n :
         LET worst == rows[j][c.measurement]
             gap == IF LowerBound(c) THEN rows[i][c.measurement] - worst
                                     ELSE worst - rows[i][c.measurement]
         IN  100 * gap <= Epsilon * Magnitude(worst)

LEMMA CoveredShows ==
  ASSUME NEW n \in Nat \ {0}, NEW rows, AreRows(rows, n), NEW criteria,
         NEW k \in DOMAIN criteria, NEW i \in 1 .. n, k \in Covered(rows, criteria, i)
  PROVE  Shows(rows, n, criteria[k], i)
<1> DEFINE c == criteria[k]
<1>1. PICK w : w = Worst(rows, c).value
  OBVIOUS
<1>2. IF w = None THEN Measured(rows[i], c) = None
      ELSE 100 * Magnitude(rows[i][c.measurement] - w) <= Epsilon * Magnitude(w)
  BY <1>1 DEF Covered
<1>3. CASE AllMeasured(rows, n, c)
  <2>1. IsWorst(rows, n, c, w)
    BY <1>1, <1>3, WorstIs
  <2>2. w \in Int /\ w # None
    BY <2>1, NoneAssumption DEF IsWorst
  <2>3. \A j \in 1 .. n : Measured(rows[j], c) # None /\ rows[j][c.measurement] \in Int
    BY <1>3, MeasuredIs DEF AllMeasured
  <2>4. ASSUME NEW j \in 1 .. n
        PROVE  100 * (IF LowerBound(c) THEN rows[i][c.measurement] - rows[j][c.measurement]
                                       ELSE rows[j][c.measurement] - rows[i][c.measurement])
               <= Epsilon * Magnitude(rows[j][c.measurement])
    <3>1. PICK r \in Int, v \in Int : r = rows[i][c.measurement] /\ v = rows[j][c.measurement]
      BY <2>3
    <3>2. 100 * Magnitude(r - w) <= Epsilon * Magnitude(w)
      BY <1>2, <2>2, <3>1
    <3>3. IF LowerBound(c) THEN w <= v ELSE v <= w
      BY <2>1, <3>1 DEF IsWorst
    <3>4. CASE LowerBound(c)
      BY <2>2, <3>1, <3>2, <3>3, <3>4, NearTheWorst, CoverageAssumption
    <3>5. CASE ~ LowerBound(c)
      BY <2>2, <3>1, <3>2, <3>3, <3>5, NearTheGreatest, CoverageAssumption
    <3> QED
      BY <3>4, <3>5
  <2> QED
    BY <2>3, <2>4 DEF Shows
<1>4. CASE ~ AllMeasured(rows, n, c)
  <2>1. PICK j \in 1 .. n : Measured(rows[j], c) = None
    BY <1>4, MeasuredIs DEF AllMeasured
  <2>2. w = None
    BY <1>1, <1>4, WorstIs
  <2> QED
    BY <1>2, <2>1, <2>2 DEF Shows
<1> QED
  BY <1>3, <1>4

-----------------------------------------------------------------------------
(* Whatever is shown, kept, held or answered is a row.                     *)
HasResult(c) == c.at = "store" \/ HoldsResult(c)
TruthInv == \A k \in DOMAIN truth : IsRow(truth[k])
HeldInv == \A w \in Worker : HasResult(worker[w]) => IsRow(worker[w].result.row)
GivenInv == \A p \in DOMAIN answers : answers[p].how = "raised" \/ IsRow(answers[p].result.row)
RowsInv == TruthInv /\ HeldInv /\ GivenInv

LEMMA ShownIsRow ==
  ASSUME TruthInv, NEW key, NEW result, NEW f, Shown(key, result, f, truth)
  PROVE  IsRow(result.row)
BY DEF TruthInv, Shown, ResultOf

LEMMA RowsMove ==
  ASSUME CallsInv, RowsInv, NEW w \in Worker, NEW state, Becomes(w, state),
         HasResult(state) => IsRow(state.result.row)
  PROVE  HeldInv'
<1>1. worker' = [worker EXCEPT ![w] = state] /\ DOMAIN worker = Worker
  BY DEF Becomes, CallsInv, IInv, WorkersInv
<1> QED
  BY <1>1 DEF RowsInv, HeldInv

LEMMA RowsTakeLookup ==
  ASSUME CallsInv, RowsInv, NEW w \in Worker, TakePoint(w) \/ Lookup(w)
  PROVE  RowsInv'
<1>1. UNCHANGED <<truth, answers>>
  BY DEF TakePoint, Lookup
<1>2. CASE TakePoint(w)
  <2>1. PICK state : Becomes(w, state) /\ ~ HasResult(state)
    <3> DEFINE call(at, how) ==
           [at |-> at, how |-> how, point |-> PointAt(next), key |-> KeyOf(PointAt(next)),
            result |-> None]
    <3>1. Becomes(w, call("lookup", "cache")) \/ Becomes(w, call("log", "bypass"))
      BY <1>2 DEF TakePoint
    <3> QED
      BY <3>1 DEF HasResult, HoldsResult
  <2> QED
    BY <1>1, <2>1, RowsMove DEF RowsInv, TruthInv, GivenInv
<1>3. CASE Lookup(w)
  <2>1. CASE worker[w].key \in DOMAIN entries
    <3>1. PICK result : result = entries[worker[w].key]
      OBVIOUS
    <3>2. IsRow(result.row)
      BY <2>1, <3>1, ShownIsRow DEF CallsInv, IInv, EntriesInv, RowsInv
    <3>3. Becomes(w, At(w, "log", "hit", result)) /\ At(w, "log", "hit", result).result = result
      BY <1>3, <2>1, <3>1 DEF Lookup, At
    <3> QED
      BY <1>1, <3>2, <3>3, RowsMove DEF RowsInv, TruthInv, GivenInv
  <2>2. CASE worker[w].key \notin DOMAIN entries
    <3>1. /\ Becomes(w, At(w, "simulate", "miss", None))
          /\ ~ HasResult(At(w, "simulate", "miss", None))
      BY <1>3, <2>2 DEF Lookup, At, HasResult, HoldsResult
    <3> QED
      BY <1>1, <3>1, RowsMove DEF RowsInv, TruthInv, GivenInv
  <2> QED
    BY <2>1, <2>2
<1> QED
  BY <1>2, <1>3

LEMMA RowsSimulate ==
  ASSUME CallsInv, RowsInv, NEW w \in Worker, Simulate(w) \/ EnvironmentFails(w)
  PROVE  RowsInv'
<1>1. worker[w].at = "simulate" /\ UNCHANGED answers
  BY DEF Simulate, EnvironmentFails
<1>2. IsRow(NothingMeasured)
  BY DEF IsRow, NothingMeasured
<1>3. ASSUME NEW result, Simulated(w, result), IsRow(result.row) PROVE HeldInv'
  <2>1. PICK state : Becomes(w, state) /\ state.result = result
    BY <1>3 DEF Simulated, At
  <2> QED
    BY <1>3, <2>1, RowsMove
<1>4. CASE Simulate(w)
  <2> DEFINE key == [worker[w].key EXCEPT !.files = files]
  <2>1. PICK row \in IF key \in DOMAIN truth THEN {truth[key]} ELSE Showing[key.control] :
          truth' = Put(truth, key, row) /\ Simulated(w, ResultOf(row))
    BY <1>4 DEF Simulate
  <2>2. key.control \in Testbenches
    <3>1. KeyIsOf(worker[w].key, worker[w].point)
      BY <1>1, AtCall DEF CallsInv, Call
    <3>2. key.control = worker[w].point[1]
      BY <3>1 DEF KeyIsOf
    <3>3. worker[w] # Idle
      BY <1>1 DEF Idle
    <3>4. PICK n \in 1 .. next - 1 : worker[w].point = PointAt(n)
      BY <3>3 DEF CallsInv, PlaceInv, AtPoint, Taken
    <3>5. n \in 1 .. PointCount
      <4>1. Len(plan.order) \in Nat /\ CornerCount \in Nat
        BY SweepAssumption DEF CallsInv, CountsInv, Plans
      <4> QED
        BY <4>1 DEF CallsInv, CountsInv, PointCount
    <3>6. worker[w].point \in Points
      BY <3>4, <3>5, PointsAreNumbered DEF CallsInv
    <3>7. Range(plan.order) \subseteq Testbenches
      BY SweepAssumption DEF CallsInv, CountsInv, Plans, Range
    <3> QED
      BY <3>2, <3>6, <3>7 DEF Points
  <2> HIDE DEF key
  <2>3. IsRow(row)
    BY <2>1, <2>2, SweepAssumption DEF RowsInv, TruthInv
  <2>4. TruthInv'
    BY <2>1, <2>3 DEF RowsInv, TruthInv, Put
  <2>5. HeldInv'
    BY <1>3, <2>1, <2>3 DEF ResultOf
  <2> QED
    BY <1>1, <2>4, <2>5 DEF RowsInv, GivenInv
<1>5. CASE EnvironmentFails(w)
  <2>1. UNCHANGED truth /\ Simulated(w, [row |-> NothingMeasured, failure_kind |-> "environment"])
    BY <1>5 DEF EnvironmentFails
  <2>2. HeldInv'
    BY <1>2, <1>3, <2>1
  <2> QED
    BY <1>1, <2>1, <2>2 DEF RowsInv, GivenInv, TruthInv
<1> QED
  BY <1>4, <1>5

LEMMA RowsGoOn ==
  ASSUME CallsInv, RowsInv, NEW w \in Worker, Store(w) \/ OpenLine(w) \/ WriteLine(w)
  PROVE  RowsInv'
<1>1. worker[w].at \in {"store", "log", "write"} /\ UNCHANGED <<truth, answers>>
  BY DEF Store, OpenLine, WriteLine
<1>2. Call(worker[w], files, truth)
  BY <1>1, AtCall DEF CallsInv
<1>3. PICK place : /\ Becomes(w, At(w, place, worker[w].how, worker[w].result))
                   /\ place = "return" => worker[w].at = "write" /\ worker[w].how # "bypass"
                   /\ place \in {"log", "write", "simulate", "return"}
  BY DEF Store, OpenLine, WriteLine, GoTo
<1> DEFINE state == At(w, place, worker[w].how, worker[w].result)
<1>4. /\ state.at = place /\ state.how = worker[w].how /\ state.result = worker[w].result
  BY DEF At
<1>5. Becomes(w, state)
  BY <1>3
<1> HIDE DEF state
<1>6. HasResult(state) => HasResult(worker[w])
  BY <1>1, <1>2, <1>3, <1>4 DEF HasResult, HoldsResult, Call
<1>7. HasResult(state) => IsRow(state.result.row)
  BY <1>4, <1>6 DEF RowsInv, HeldInv
<1>8. HeldInv'
  BY <1>5, <1>7, RowsMove
<1> QED
  BY <1>1, <1>8 DEF RowsInv, TruthInv, GivenInv

LEMMA RowsReturn ==
  ASSUME CallsInv, RowsInv, NEW w \in Worker, Return(w) \/ Raise(w)
  PROVE  RowsInv'
<1>1. Becomes(w, Idle) /\ UNCHANGED truth
  BY DEF Return, Raise
<1>2. ~ HasResult(Idle)
  BY DEF HasResult, HoldsResult, Idle
<1>3. HeldInv'
  BY <1>1, <1>2, RowsMove
<1>4. PICK how : /\ answers' = Put(answers, worker[w].point, Answer(w, how))
                 /\ how = "raised" \/ worker[w].at = "return"
  BY DEF Return, Raise
<1>5. worker[w].at = "return" => IsRow(worker[w].result.row)
  BY DEF RowsInv, HeldInv, HasResult, HoldsResult
<1>6. GivenInv'
  BY <1>4, <1>5 DEF RowsInv, GivenInv, Put, Answer
<1> QED
  BY <1>1, <1>3, <1>6 DEF RowsInv, TruthInv

(* Nothing that the report is made of changes once it is made.             *)
MergedRows == [i \in 1 .. CornerCount |-> report.per_corner[i].row]
ReportInv ==
  /\ sweeping \in {"judged", "seeded"} => report = Report
  /\ sweeping = "seeded" => seed = CoverageSeed(MergedRows, AllCriteria)

LEMMA ReportStays ==
  ASSUME CallsInv, ReportInv, NEW w \in Worker, Work(w)
  PROVE  ReportInv'
<1>1. UNCHANGED <<plan, sweeping, report, seed>>
  BY DEF Work, Frame, TakePoint, Lookup, Simulate, EnvironmentFails, Raise, Store, OpenLine,
         WriteLine, Return
<1>2. CASE sweeping \in {"judged", "seeded"}
  <2>1. worker[w] = Idle
    BY <1>2 DEF CallsInv, JudgedInv, PlaceInv, AtPoint, Joined
  <2>2. Idle.at = "idle" /\ sweeping # "mapping"
    BY <1>2 DEF Idle
  <2> QED
    BY <2>1, <2>2 DEF Work, TakePoint, Lookup, Simulate, EnvironmentFails, Raise, Store, OpenLine,
       WriteLine, Return
<1>3. CASE sweeping \notin {"judged", "seeded"}
  BY <1>1, <1>3 DEF ReportInv
<1> QED
  BY <1>2, <1>3

LEMMA ReportSteps ==
  ASSUME CallsInv, RowsInv, ReportInv,
         Render \/ TouchFiles \/ MapRaises \/ Judged \/ SeedCorners \/ UNCHANGED sweepVars
  PROVE  RowsInv' /\ ReportInv'
<1>1. UNCHANGED <<plan, worker, truth, answers>>
  BY DEF Render, TouchFiles, MapRaises, Judged, SeedCorners, sweepVars, cache
<1>2. RowsInv'
  BY <1>1 DEF RowsInv, TruthInv, HeldInv, GivenInv
<1>3. Report' = Report /\ AllCriteria' = AllCriteria
  BY <1>1 DEF Report, Verdicts, Verdict, RowsOf, Merged, AllCriteria
<1>4. report' = report => MergedRows' = MergedRows
  BY DEF MergedRows
<1>5. CASE Render \/ TouchFiles \/ MapRaises \/ UNCHANGED sweepVars
  BY <1>2, <1>3, <1>4, <1>5 DEF ReportInv, Render, TouchFiles, MapRaises, sweepVars
<1>6. CASE Judged
  BY <1>2, <1>3, <1>6 DEF ReportInv, Judged
<1>7. CASE SeedCorners
  BY <1>2, <1>3, <1>4, <1>7 DEF ReportInv, SeedCorners, MergedRows
<1> QED
  BY <1>2, <1>5, <1>6, <1>7

SweepInv == CallsInv /\ RowsInv /\ ReportInv
LEMMA SweepIsKept == SweepSpec => []SweepInv
<1>1. SweepInit => SweepInv
  <2> SUFFICES ASSUME SweepInit PROVE SweepInv
    OBVIOUS
  <2>1. CallsInv
    BY CallsInit
  <2>2. RowsInv /\ ReportInv
    BY DEF SweepInit, RowsInv, TruthInv, HeldInv, GivenInv, ReportInv, HasResult, HoldsResult,
           Idle, Nothing
  <2> QED
    BY <2>1, <2>2 DEF SweepInv
<1>2. CallsInv /\ [SweepNext]_sweepVars => CallsInv'
  BY CallsStep
<1>3. SweepInv /\ [SweepNext]_sweepVars => SweepInv'
  <2> SUFFICES ASSUME SweepInv, [SweepNext]_sweepVars PROVE SweepInv'
    OBVIOUS
  <2>1. ASSUME NEW w \in Worker, Work(w) PROVE RowsInv' /\ ReportInv'
    BY <2>1, RowsTakeLookup, RowsSimulate, RowsGoOn, RowsReturn, ReportStays DEF Work, SweepInv
  <2> QED
    BY <1>2, <2>1, ReportSteps DEF SweepNext, SweepInv
<1> QED
  BY <1>1, <1>3, PTL DEF SweepSpec

(* The criteria of the testbenches of the plan, under one name each.       *)
LEMMA TestbenchesAre ==
  ASSUME plan \in Plan
  PROVE  /\ plan.order \in Seq(Testbenches) /\ Len(plan.order) \in Nat
         /\ DOMAIN plan.order = 1 .. Len(plan.order)
         /\ Range(plan.order) \subseteq Testbenches /\ IsFiniteSet(Range(plan.order))
<1>1. plan.order \in Seq(Testbenches)
  BY SweepAssumption DEF Plans
<1>2. PICK l \in Nat : l = Len(plan.order) /\ DOMAIN plan.order = 1 .. l
  BY <1>1
<1>3. \A j \in 1 .. l : plan.order[j] \in Testbenches
  BY <1>1, <1>2
<1>4. plan.order \in Surjection(1 .. l, Range(plan.order))
  <2>1. plan.order = [j \in 1 .. l |-> plan.order[j]]
    BY <1>1, <1>2
  <2> QED
    BY <1>2, <2>1 DEF Surjection, Range
<1>5. IsFiniteSet(Range(plan.order))
  BY <1>4, FS_Interval, FS_Surjection
<1>6. Range(plan.order) \subseteq Testbenches
  BY <1>2, <1>3 DEF Range
<1> QED
  BY <1>1, <1>2, <1>5, <1>6

LEMMA CriteriaAre ==
  ASSUME plan \in Plan
  PROVE  /\ AreCriteria(AllCriteria)
         /\ \A p \in DOMAIN AllCriteria :
              /\ p[1] \in Range(plan.order) /\ p[2] \in DOMAIN Criteria[p[1]]
              /\ AllCriteria[p] = Criteria[p[1]][p[2]]
         /\ \A t \in Range(plan.order) : \A k \in DOMAIN Criteria[t] :
              <<t, k>> \in DOMAIN AllCriteria /\ AllCriteria[<<t, k>>] = Criteria[t][k]
<1> DEFINE of(t) == {t} \X DOMAIN Criteria[t]
           parts == {of(t) : t \in Range(plan.order)}
<1>1. DOMAIN AllCriteria = UNION parts
  BY DEF AllCriteria
<1>2. Range(plan.order) \subseteq Testbenches /\ IsFiniteSet(Range(plan.order))
  BY TestbenchesAre
<1>3. \A p \in DOMAIN AllCriteria :
        /\ p[1] \in Range(plan.order) /\ p[2] \in DOMAIN Criteria[p[1]]
        /\ AllCriteria[p] = Criteria[p[1]][p[2]]
  BY DEF AllCriteria
<1>4. \A t \in Range(plan.order) : \A k \in DOMAIN Criteria[t] :
        <<t, k>> \in DOMAIN AllCriteria /\ AllCriteria[<<t, k>>] = Criteria[t][k]
  <2> SUFFICES ASSUME NEW t \in Range(plan.order), NEW k \in DOMAIN Criteria[t]
               PROVE  <<t, k>> \in DOMAIN AllCriteria /\ AllCriteria[<<t, k>>] = Criteria[t][k]
    OBVIOUS
  <2>1. <<t, k>> \in of(t) /\ of(t) \in parts
    OBVIOUS
  <2>2. <<t, k>> \in DOMAIN AllCriteria
    BY <1>1, <2>1
  <2> QED
    BY <2>2 DEF AllCriteria
<1>5. IsFiniteSet(parts)
  <2>1. PICK f : f = [t \in Range(plan.order) |-> of(t)]
    OBVIOUS
  <2>2. f \in Surjection(Range(plan.order), parts)
    BY <2>1 DEF Surjection
  <2> HIDE DEF parts
  <2> QED
    BY <1>2, <2>2, FS_Surjection
<1>6. \A q \in parts : IsFiniteSet(q)
  <2>1. ASSUME NEW t \in Range(plan.order) PROVE IsFiniteSet(of(t))
    <3>1. IsFiniteSet({t})
      BY FS_Singleton
    <3>2. IsFiniteSet(DOMAIN Criteria[t])
      BY <1>2, SweepAssumption
    <3> QED
      BY <3>1, <3>2, FS_Product
  <2> QED
    BY <2>1
<1> HIDE DEF parts
<1>7. IsFiniteSet(DOMAIN AllCriteria)
  BY <1>1, <1>5, <1>6, FS_UNION
<1>8. \A p \in DOMAIN AllCriteria : IsCriterion(AllCriteria[p])
  BY <1>2, <1>3, SweepAssumption
<1> QED
  BY <1>3, <1>4, <1>7, <1>8 DEF AreCriteria

(* Once judged, every point has its row, and so has every corner.          *)
LEMMA JudgedRows ==
  ASSUME SweepInv, sweeping \in {"judged", "seeded"}
  PROVE  /\ \A t \in Range(plan.order) : AreRows(RowsOf(t), CornerCount)
         /\ \A i \in 1 .. CornerCount : IsRow(Merged(i))
<1>1. DOMAIN answers = Points /\ ~ Raised
  BY DEF SweepInv, CallsInv, JudgedInv, Joined
<1>2. \A p \in Points : IsRow(answers[p].result.row)
  BY <1>1 DEF Raised, SweepInv, RowsInv, GivenInv
<1>3. \A t \in Range(plan.order) : \A i \in 1 .. CornerCount :
        IsRow(answers[<<t, i>>].result.row)
  BY <1>2 DEF Points
<1>4. plan \in Plan
  BY DEF SweepInv, CallsInv, CountsInv
<1>5. ASSUME NEW i \in 1 .. CornerCount PROVE IsRow(Merged(i))
  <2> DEFINE row(j) == answers[<<plan.order[j], i>>].result.row
             measuring(m) == {j \in DOMAIN plan.order : m \in DOMAIN row(j)}
             measured == UNION {DOMAIN row(j) : j \in DOMAIN plan.order}
  <2>1. \A j \in DOMAIN plan.order : IsRow(row(j))
    BY <1>3 DEF Range
  <2>2. Merged(i) = [m \in measured |-> row(Max(measuring(m)))[m]]
    BY DEF Merged
  <2>3. ASSUME NEW m \in measured PROVE row(Max(measuring(m)))[m] \in Int
    <3>1. measuring(m) # {}
      OBVIOUS
    <3>2. measuring(m) \in SUBSET Int /\ IsFiniteSet(measuring(m))
      <4>1. PICK l \in Nat : DOMAIN plan.order = 1 .. l
        BY <1>4, TestbenchesAre
      <4>2. measuring(m) \in SUBSET (1 .. l)
        BY <4>1
      <4>3. IsFiniteSet(1 .. l)
        BY FS_Interval
      <4> HIDE DEF measuring
      <4>4. IsFiniteSet(measuring(m))
        BY <4>2, <4>3, FS_Subset
      <4>5. measuring(m) \subseteq Int
        BY <4>2
      <4> QED
        BY <4>4, <4>5
    <3>3. Max(measuring(m)) \in measuring(m)
      BY <3>1, <3>2, Ends
    <3>4. PICK j : j = Max(measuring(m))
      OBVIOUS
    <3>5. j \in DOMAIN plan.order /\ m \in DOMAIN row(j)
      BY <3>3, <3>4
    <3>6. row(j)[m] \in Int
      BY <2>1, <3>5 DEF IsRow
    <3> QED
      BY <3>4, <3>6
  <2> HIDE DEF row, measuring, measured
  <2> QED
    BY <2>2, <2>3 DEF IsRow
<1> QED
  BY <1>3, <1>5 DEF RowsOf, AreRows

(* A sweep passes exactly when every corner measured, and met, every       *)
(* criterion of its testbench, and the loop's judge, which sees one value  *)
(* per measurement, would say the same: for every specification, whatever  *)
(* criteria share a measurement (pvt.py:307-396, 508-526).                 *)
THEOREM PassingIsEveryCorner == SweepSpec => []SweepPassesEveryCorner
<1>1. SweepInv => SweepPassesEveryCorner
  <2> SUFFICES ASSUME SweepInv, sweeping \in {"judged", "seeded"}
               PROVE  SweepPassesEveryCorner
    BY DEF SweepPassesEveryCorner
  <2>1. report = Report /\ plan \in Plan
    BY DEF SweepInv, ReportInv, CallsInv, CountsInv
  <2>2. CornerCount \in Nat \ {0} /\ Range(plan.order) \subseteq Testbenches
    BY <2>1, TestbenchesAre, SweepAssumption
  <2> DEFINE worst(t, k) == Worst(RowsOf(t), Criteria[t][k]).value
             c(t, k) == Criteria[t][k]
  <2>3. report.overall_pass <=>
          \A t \in Range(plan.order) : \A k \in DOMAIN Criteria[t] : Passes(c(t, k), worst(t, k))
    <3>1. report.overall_pass <=> \A p \in DOMAIN AllCriteria : Verdict(p[1], AllCriteria[p]).pass
      BY <2>1 DEF Report, Verdicts
    <3>2. \A p \in DOMAIN AllCriteria :
            Verdict(p[1], AllCriteria[p]).pass
            <=> Passes(AllCriteria[p], Worst(RowsOf(p[1]), AllCriteria[p]).value)
      BY DEF Verdict
    <3>3. \A p \in DOMAIN AllCriteria :
            /\ p[1] \in Range(plan.order) /\ p[2] \in DOMAIN Criteria[p[1]]
            /\ AllCriteria[p] = Criteria[p[1]][p[2]]
      BY <2>1, CriteriaAre
    <3>4. \A t \in Range(plan.order) : \A k \in DOMAIN Criteria[t] :
            <<t, k>> \in DOMAIN AllCriteria /\ AllCriteria[<<t, k>>] = Criteria[t][k]
      BY <2>1, CriteriaAre
    <3>5. ASSUME report.overall_pass, NEW t \in Range(plan.order), NEW k \in DOMAIN Criteria[t]
          PROVE  Passes(c(t, k), worst(t, k))
      <4>1. <<t, k>> \in DOMAIN AllCriteria /\ AllCriteria[<<t, k>>] = Criteria[t][k]
        BY <3>4
      <4>2. <<t, k>>[1] = t
        OBVIOUS
      <4>3. Passes(AllCriteria[<<t, k>>], Worst(RowsOf(<<t, k>>[1]), AllCriteria[<<t, k>>]).value)
        BY <3>1, <3>2, <3>5, <4>1
      <4> QED
        BY <4>1, <4>2, <4>3
    <3>6. ASSUME \A t \in Range(plan.order) : \A k \in DOMAIN Criteria[t] :
                   Passes(c(t, k), worst(t, k))
          PROVE  report.overall_pass
      BY <3>1, <3>2, <3>3, <3>6
    <3> QED
      BY <3>5, <3>6
  <2>4. ASSUME NEW t \in Range(plan.order)
        PROVE  /\ AreRows(RowsOf(t), CornerCount) /\ DOMAIN Criteria[t] \subseteq Nat
               /\ IsFiniteSet(DOMAIN Criteria[t])
               /\ \A k \in DOMAIN Criteria[t] : IsCriterion(Criteria[t][k])
               /\ \A i \in 1 .. CornerCount : RowsOf(t)[i] = answers[<<t, i>>].result.row
    BY <2>2, JudgedRows, SweepAssumption DEF RowsOf
  <2>5. ASSUME NEW t \in Range(plan.order), NEW k \in DOMAIN Criteria[t]
        PROVE  Passes(c(t, k), worst(t, k))
               <=> \A i \in 1 .. CornerCount :
                     Passes(c(t, k), Measured(answers[<<t, i>>].result.row, c(t, k)))
    BY <2>2, <2>4, WorstDecides
  <2>6. ASSUME NEW t \in Range(plan.order)
        PROVE  (\A k \in DOMAIN Criteria[t] : Passes(c(t, k), worst(t, k)))
               <=> \A k \in DOMAIN Criteria[t] :
                     Passes(c(t, k), Slot(RowsOf(t), Criteria[t], c(t, k).measurement))
    BY <2>2, <2>4, SlotDecides
  <2> HIDE DEF worst
  <2>7. report.overall_pass <=>
          \A t \in Range(plan.order) : \A k \in DOMAIN Criteria[t] : \A i \in 1 .. CornerCount :
            Passes(c(t, k), Measured(answers[<<t, i>>].result.row, c(t, k)))
    BY <2>3, <2>5
  <2>8. report.overall_pass <=>
          \A t \in Range(plan.order) : \A k \in DOMAIN Criteria[t] :
            Passes(c(t, k), Slot(RowsOf(t), Criteria[t], c(t, k).measurement))
    BY <2>3, <2>6
  <2> QED
    BY <2>7, <2>8 DEF SweepPassesEveryCorner
<1> QED
  BY <1>1, SweepIsKept, PTL

(* The corners that the seed chose show what the sweep showed, and as much *)
(* of it as the specification asks for: for every set of corners and of    *)
(* criteria, every epsilon and every tau (corner_selection.py:170-191).    *)
THEOREM SeedIsFaithful == SweepSpec => []SeedShowsTheWorst
<1>1. SweepInv => SeedShowsTheWorst
  <2> SUFFICES ASSUME SweepInv, sweeping = "seeded" PROVE SeedShowsTheWorst
    BY DEF SeedShowsTheWorst
  <2>1. /\ report = Report /\ plan \in Plan
        /\ seed = CoverageSeed(MergedRows, AllCriteria)
    BY DEF SweepInv, ReportInv, CallsInv, CountsInv
  <2>2. PICK n \in Nat \ {0} : n = CornerCount
    BY SweepAssumption
  <2>3. \A i \in 1 .. n : MergedRows[i] = report.per_corner[i].row /\ IsRow(MergedRows[i])
    <3>1. \A i \in 1 .. n : MergedRows[i] = report.per_corner[i].row
      BY <2>2 DEF MergedRows
    <3>2. \A i \in 1 .. n : report.per_corner[i].row = Merged(i)
      BY <2>1, <2>2 DEF Report
    <3>3. \A i \in 1 .. n : IsRow(Merged(i))
      BY <2>2, JudgedRows
    <3> QED
      BY <3>1, <3>2, <3>3
  <2>4. AreRows(MergedRows, n) /\ Len(MergedRows) = n
    <3>1. MergedRows = [i \in 1 .. n |-> MergedRows[i]]
      BY <2>2 DEF MergedRows
    <3>2. MergedRows \in Seq({MergedRows[i] : i \in 1 .. n})
      BY <3>1
    <3>3. Len(MergedRows) = n
      BY <3>1, <3>2
    <3> QED
      BY <2>3, <3>1, <3>3 DEF AreRows
  <2>5. AreCriteria(AllCriteria)
    BY <2>1, CriteriaAre
  <2>6. /\ seed.reached_target
        /\ seed.chosen \subseteq 1 .. n /\ seed.covered \subseteq DOMAIN AllCriteria
        /\ \A k \in seed.covered : \E i \in seed.chosen : k \in Covered(MergedRows, AllCriteria, i)
    BY <2>1, <2>4, <2>5, SeedCovers
  <2>7. ASSUME NEW k \in seed.covered
        PROVE  \E i \in seed.chosen : Shows(MergedRows, n, AllCriteria[k], i)
    BY <2>4, <2>6, CoveredShows
  <2> QED
    BY <2>2, <2>3, <2>6, <2>7 DEF SeedShowsTheWorst, Shows
<1> QED
  BY <1>1, SweepIsKept, PTL
=============================================================================
