--------------------------- MODULE CommandsProofs ---------------------------
(***************************************************************************)
(* The invariants of Commands.  A state of the store is well formed when   *)
(* the nodes and the slabs are, and are linked: every collection is held   *)
(* by one node and every node of a collection holds a slot.  What a        *)
(* command does to the store is made of few changes: a key goes with its   *)
(* slot, a text or a number is bound to a key that is not there, an empty  *)
(* collection is created for such a key, a collection or an expiry is      *)
(* replaced.  Each keeps the store well formed.                            *)
(*                                                                         *)
(* First come the loops over the arguments of a command, with what every   *)
(* operation on a hash or a sorted set preserves.  A loop is a FoldLeft.   *)
(* The function that FoldLeft chooses is shown to exist, and to stay in    *)
(* every set that the body of the loop stays in, by induction over an      *)
(* interval of numbers: a set that holds 0 and, with each number below n,  *)
(* the next one, holds all of 0 .. n, since otherwise adding one would     *)
(* inject a finite set into a proper part of it.                           *)
(***************************************************************************)
EXTENDS Commands, FiniteSetTheorems, FunctionTheorems, SequenceTheorems, TLAPS

-----------------------------------------------------------------------------
(* Induction over an interval.                                              *)

LEMMA IntervalInduction ==
  ASSUME NEW n \in Nat, NEW S, 0 \in S, \A i \in 0 .. n - 1 : i \in S => i + 1 \in S
  PROVE  \A i \in 0 .. n : i \in S
  <1> SUFFICES ASSUME NEW m \in 0 .. n, m \notin S PROVE FALSE
    OBVIOUS
  <1>1. PICK T : T = {i \in 0 .. m : i \in S}
    OBVIOUS
  <1>2. m \in Nat /\ T \in SUBSET (0 .. m) /\ 0 \in T
    BY <1>1
  <1>3. IsFiniteSet(0 .. m)
    BY <1>2, FS_Interval
  <1>4. IsFiniteSet(T)
    BY <1>2, <1>3, FS_Subset
  <1>5. \A i \in T : i + 1 \in T \ {0}
    <2> SUFFICES ASSUME NEW i \in T PROVE i + 1 \in T \ {0}
      OBVIOUS
    <2>1. i \in 0 .. m /\ i \in S /\ i # m
      BY <1>1
    <2>2. i \in 0 .. n - 1 /\ i + 1 \in 0 .. m /\ i + 1 # 0
      BY <2>1
    <2> QED BY <1>1, <2>1, <2>2
  <1>6. PICK f : f = [i \in T |-> i + 1]
    OBVIOUS
  <1>7. f \in [T -> T \ {0}]
    BY <1>5, <1>6
  <1>8. \A i, j \in T : f[i] = f[j] => i = j
    <2>1. \A i, j \in T : i \in Int /\ j \in Int
      BY <1>2
    <2> QED BY <1>6, <2>1
  <1>9. f \in Injection(T, T \ {0})
    BY <1>7, <1>8, Fun_IsInj
  <1>11. /\ IsFiniteSet(T \ {0}) /\ Cardinality(T \ {0}) = Cardinality(T) - 1
    BY <1>2, <1>4, FS_RemoveElement
  <1>12. Cardinality(T) <= Cardinality(T \ {0})
    BY <1>9, <1>11, FS_Injection
  <1>13. Cardinality(T) \in Nat
    BY <1>4, FS_CardinalityType
  <1> QED BY <1>11, <1>12, <1>13

\* A set of numbers from 1 to n that is not empty has a greatest element.
LEMMA MaxIsGreatest ==
  ASSUME NEW n \in Nat, NEW t \in SUBSET (1 .. n), t # {}
  PROVE  Max(t) \in t /\ \A y \in t : y <= Max(t)
  <1>1. PICK S : S = {i \in 0 .. n : \A u \in SUBSET (1 .. i) :
                        u # {} => \E x \in u : \A y \in u : x >= y}
    OBVIOUS
  <1>2. 0 \in S
    <2>1. 0 \in 0 .. n /\ 1 .. 0 = {}
      OBVIOUS
    <2>2. \A u \in SUBSET (1 .. 0) : u = {}
      BY <2>1
    <2> QED BY <1>1, <2>1, <2>2
  <1>3. ASSUME NEW i \in 0 .. n - 1, i \in S PROVE i + 1 \in S
    <2> SUFFICES ASSUME NEW u \in SUBSET (1 .. i + 1), u # {}
                 PROVE  \E x \in u : \A y \in u : x >= y
      BY <1>1
    <2>1. CASE i + 1 \in u
      BY <2>1
    <2>2. CASE i + 1 \notin u
      <3>1. u \in SUBSET (1 .. i)
        BY <2>2
      <3> QED BY <1>1, <1>3, <3>1
    <2> QED BY <2>1, <2>2
  <1>4. n \in 0 .. n /\ \A i \in 0 .. n : i \in S
    BY <1>2, <1>3, IntervalInduction
  <1>5. \E x \in t : \A y \in t : x >= y
    BY <1>1, <1>4
  <1>6. PICK x : x = Max(t)
    OBVIOUS
  <1>7. x \in t /\ \A y \in t : x >= y
    BY <1>5, <1>6 DEF Max
  <1> QED BY <1>6, <1>7

-----------------------------------------------------------------------------
(* Folds.                                                                   *)

\* g gives for every set of positions of ms the state in X that the loop
\* over these positions, whose elements are in Y, reaches from base.
Loop(g, X, Y, base, ms, step) ==
  /\ ms \in Seq(Y)
  /\ g \in [SUBSET DOMAIN ms -> X]
  /\ g[{}] = base
  /\ \A t \in SUBSET DOMAIN ms :
       t # {} => g[t] = step[<<g[t \ {Max(t)}], ms[Max(t)]>>]

\* There is such a function when the body stays in X.
LEMMA LoopExists ==
  ASSUME NEW X, NEW Y, NEW base \in X, NEW ms \in Seq(Y), NEW step \in [X \X Y -> X]
  PROVE  \E g : Loop(g, X, Y, base, ms, step)
  <1> DEFINE Part(g, i) == /\ g \in [SUBSET (1 .. i) -> X]
                           /\ g[{}] = base
                           /\ \A t \in SUBSET (1 .. i) :
                                t # {} => g[t] = step[<<g[t \ {Max(t)}], ms[Max(t)]>>]
  <1>1. PICK n \in Nat : n = Len(ms) /\ DOMAIN ms = 1 .. n
    OBVIOUS
  <1>2. PICK S : S = {i \in 0 .. n : \E g : Part(g, i)}
    OBVIOUS
  <1>3. 0 \in S
    <2>1. PICK g : g = [t \in SUBSET (1 .. 0) |-> base]
      OBVIOUS
    <2>2. 0 \in 0 .. n /\ 1 .. 0 = {}
      OBVIOUS
    <2>3. \A t \in SUBSET (1 .. 0) : t = {}
      BY <2>2
    <2>4. Part(g, 0)
      BY <2>1, <2>3
    <2> QED BY <1>2, <2>2, <2>4
  <1>4. ASSUME NEW i \in 0 .. n - 1, i \in S PROVE i + 1 \in S
    <2>1. PICK g : Part(g, i)
      BY <1>2, <1>4
    <2>2. PICK j : j = i + 1
      OBVIOUS
    <2>3. j \in 1 .. n /\ i \in Nat /\ j \notin 1 .. i /\ 1 .. j = (1 .. i) \cup {j} /\ ms[j] \in Y
      BY <1>1, <2>2
    <2>4. PICK h : h = [t \in SUBSET (1 .. j) |->
                          IF j \in t THEN step[<<g[t \ {j}], ms[j]>>] ELSE g[t]]
      OBVIOUS
    <2>5. \A t \in SUBSET (1 .. j) : /\ t \ {j} \in SUBSET (1 .. i)
                                     /\ j \notin t => t \in SUBSET (1 .. i)
      BY <2>3
    <2>6. h \in [SUBSET (1 .. j) -> X]
      BY <2>1, <2>3, <2>4, <2>5
    <2>7. h[{}] = base
      BY <2>1, <2>4
    <2>8. \A t \in SUBSET (1 .. i) : t \in SUBSET (1 .. j) /\ h[t] = g[t]
      BY <2>3, <2>4
    <2>9. ASSUME NEW t \in SUBSET (1 .. j), t # {}
          PROVE  h[t] = step[<<h[t \ {Max(t)}], ms[Max(t)]>>]
      <3>1. PICK x : x = Max(t)
        OBVIOUS
      <3>2. x \in t /\ \A y \in t : y <= x
        <4>1. j \in Nat
          BY <2>3
        <4> QED BY <2>9, <3>1, <4>1, MaxIsGreatest
      <3>3. CASE j \in t
        <4>1. x = j
          BY <2>3, <3>2, <3>3
        <4>2. h[t \ {j}] = g[t \ {j}]
          BY <2>5, <2>8
        <4>3. h[t] = step[<<g[t \ {j}], ms[j]>>]
          BY <2>4, <3>3
        <4> QED BY <3>1, <4>1, <4>2, <4>3
      <3>4. CASE j \notin t
        <4>1. t \in SUBSET (1 .. i) /\ t \ {x} \in SUBSET (1 .. i)
          BY <2>5, <3>4
        <4>2. g[t] = step[<<g[t \ {x}], ms[x]>>]
          BY <2>1, <2>9, <3>1, <4>1
        <4> QED BY <2>8, <3>1, <4>1, <4>2
      <3> QED BY <3>3, <3>4
    <2>10. Part(h, j)
      BY <2>6, <2>7, <2>9
    <2>11. i + 1 \in 0 .. n
      OBVIOUS
    <2> QED BY <1>2, <2>2, <2>10, <2>11
  <1>5. n \in 0 .. n /\ \A i \in 0 .. n : i \in S
    <2> HIDE DEF Part
    <2> QED BY <1>3, <1>4, IntervalInduction
  <1>6. PICK g : Part(g, n)
    BY <1>2, <1>5
  <1> QED BY <1>1, <1>6 DEF Loop

\* h agrees with g on the empty set of positions and on every set that it
\* agrees on without the last position.
Tracks(h, g, ms) ==
  /\ h[{}] = g[{}]
  /\ \A t \in SUBSET DOMAIN ms :
       t # {} /\ h[t \ {Max(t)}] = g[t \ {Max(t)}] => h[t] = g[t]

LEMMA LoopIsUnique ==
  ASSUME NEW X, NEW Y, NEW base, NEW ms, NEW step, NEW g, NEW h,
         Loop(g, X, Y, base, ms, step), Tracks(h, g, ms)
  PROVE  h[DOMAIN ms] = g[DOMAIN ms]
  <1>1. PICK n \in Nat : n = Len(ms) /\ DOMAIN ms = 1 .. n
    BY DEF Loop
  <1>2. PICK S : S = {i \in 0 .. n : \A t \in SUBSET (1 .. i) : h[t] = g[t]}
    OBVIOUS
  <1>3. 0 \in S
    <2>1. 0 \in 0 .. n /\ 1 .. 0 = {}
      OBVIOUS
    <2>2. \A t \in SUBSET (1 .. 0) : t = {}
      BY <2>1
    <2> QED BY <1>2, <2>1, <2>2 DEF Loop, Tracks
  <1>4. ASSUME NEW i \in 0 .. n - 1, i \in S PROVE i + 1 \in S
    <2>0. i + 1 \in 0 .. n
      OBVIOUS
    <2> SUFFICES ASSUME NEW t \in SUBSET (1 .. i + 1) PROVE h[t] = g[t]
      BY <1>2, <2>0
    <2>1. CASE t = {}
      BY <2>1 DEF Loop, Tracks
    <2>2. CASE t # {}
      <3>1. PICK x : x = Max(t)
        OBVIOUS
      <3>2. x \in t /\ \A y \in t : y <= x
        <4>1. i + 1 \in Nat
          OBVIOUS
        <4> QED BY <2>2, <3>1, <4>1, MaxIsGreatest
      <3>3. t \ {x} \in SUBSET (1 .. i)
        BY <3>2
      <3>4. t \in SUBSET DOMAIN ms
        BY <1>1
      <3>5. h[t \ {Max(t)}] = g[t \ {Max(t)}]
        BY <1>2, <1>4, <3>1, <3>3
      <3> QED BY <2>2, <3>4, <3>5 DEF Tracks
    <2> QED BY <2>1, <2>2
  <1>5. n \in 0 .. n /\ \A i \in 0 .. n : i \in S
    BY <1>3, <1>4, IntervalInduction
  <1> QED BY <1>1, <1>2, <1>5

Position(t, ms) == t \in SUBSET DOMAIN ms /\ t # {}

\* g takes the step of the loop at the last position of t.
StepAt(g, X, Y, ms, step, t) ==
  /\ g[t \ {Max(t)}] \in X /\ ms[Max(t)] \in Y
  /\ g[t] = step[<<g[t \ {Max(t)}], ms[Max(t)]>>]

LEMMA LoopSteps ==
  ASSUME NEW X, NEW Y, NEW base, NEW ms, NEW step, NEW g,
         Loop(g, X, Y, base, ms, step), NEW t, Position(t, ms)
  PROVE  StepAt(g, X, Y, ms, step, t)
  <1>1. PICK n \in Nat : n = Len(ms) /\ DOMAIN ms = 1 .. n
    BY DEF Loop
  <1>2. PICK m : m = Max(t)
    OBVIOUS
  <1>3. m \in t
    BY <1>1, <1>2, MaxIsGreatest DEF Position
  <1> QED BY <1>2, <1>3 DEF Loop, Position, StepAt

\* f takes the steps of the loop wherever they stay in X.
Follows(f, X, Y, base, ms, step) ==
  /\ f[{}] = base
  /\ \A t \in SUBSET DOMAIN ms :
       t # {} /\ f[t \ {Max(t)}] \in X /\ ms[Max(t)] \in Y
         => f[t] = step[<<f[t \ {Max(t)}], ms[Max(t)]>>]

\* r is in X, and comes from a step if there are elements.
Ends(r, X, Y, ms, step) ==
  r \in X /\ (ms # <<>> => \E x \in X, y \in Y : r = step[<<x, y>>])

\* A function that follows the loop ends in X, after a step of the body.
LEMMA LoopResult ==
  ASSUME NEW X, NEW Y, NEW base, NEW ms, NEW step, NEW g,
         Loop(g, X, Y, base, ms, step), NEW f, Follows(f, X, Y, base, ms, step)
  PROVE  Ends(f[DOMAIN ms], X, Y, ms, step)
  <1>1. ASSUME NEW t \in SUBSET DOMAIN ms, t # {}, f[t \ {Max(t)}] = g[t \ {Max(t)}]
        PROVE  f[t] = g[t]
    <2>1. Position(t, ms)
      BY <1>1 DEF Position
    <2>2. StepAt(g, X, Y, ms, step, t)
      BY <2>1, LoopSteps
    <2> QED BY <1>1, <2>2 DEF Follows, StepAt
  <1>2. Tracks(f, g, ms)
    BY <1>1 DEF Loop, Follows, Tracks
  <1>3. f[DOMAIN ms] = g[DOMAIN ms]
    BY <1>2, LoopIsUnique
  <1>4. g[DOMAIN ms] \in X
    BY DEF Loop
  <1>5. ASSUME ms # <<>> PROVE \E x \in X, y \in Y : g[DOMAIN ms] = step[<<x, y>>]
    <2>1. Position(DOMAIN ms, ms)
      <3>1. ms \in Seq(Y)
        BY DEF Loop
      <3>2. Len(ms) # 0 /\ Len(ms) \in Nat /\ DOMAIN ms = 1 .. Len(ms)
        BY <1>5, <3>1, EmptySeq
      <3>3. 1 \in DOMAIN ms
        BY <3>2
      <3> QED BY <3>3 DEF Position
    <2>2. StepAt(g, X, Y, ms, step, DOMAIN ms)
      BY <2>1, LoopSteps
    <2> QED BY <2>2 DEF StepAt
  <1> QED BY <1>3, <1>4, <1>5 DEF Ends
-----------------------------------------------------------------------------
(* Well-formed collections.                                                 *)

\* The component c of the pairs of a vector is never the same twice.
EachOnce(vec, c) == \A i, j \in DOMAIN vec : vec[i][c] = vec[j][c] => i = j

FiniteInts == {S \in SUBSET Int : IsFiniteSet(S)}
Maps(V) == UNION {[S -> V] : S \in FiniteInts}

\* A hash whose values are in V: a short vector with each field once, or a map.
HashVecs(V) == {vec \in Seq(Int \X V) : Len(vec) <= THRESHOLD /\ EachOnce(vec, 1)}
Hashes(V) == [kind : {"Small"}, vec : HashVecs(V)] \cup [kind : {"Large"}, map : Maps(V)]

\* The pairs are in strict order.
Ascending(vec) == \A i, j \in DOMAIN vec : i < j => Before(vec[i], vec[j])

\* A sorted set: a short vector in strict order with each member once, or
\* two indices of the same members and scores.
ZVecs == {vec \in Seq(Int \X Int) : /\ Len(vec) <= THRESHOLD
                                    /\ EachOnce(vec, 2) /\ Ascending(vec)}
Graph(scores) == {<<scores[m], m>> : m \in DOMAIN scores}
ZLarge == {z \in [kind : {"Large"}, sorted : SUBSET (Int \X Int), scores : Maps(Int)] :
             z.sorted = Graph(z.scores)}
ZSets == [kind : {"Small"}, vec : ZVecs] \cup ZLarge

-----------------------------------------------------------------------------
(* Maps.                                                                    *)

LEMMA BindKeeps ==
  ASSUME NEW V, NEW map \in Maps(V), NEW x \in Int, NEW y \in V
  PROVE  Bind(map, x, y) \in Maps(V)
  <1>1. PICK S \in FiniteInts : map \in [S -> V]
    BY DEF Maps
  <1>2. PICK T : T = S \cup {x}
    OBVIOUS
  <1>3. T \in FiniteInts
    BY <1>2, FS_AddElement DEF FiniteInts
  <1>4. Bind(map, x, y) \in [T -> V] /\ DOMAIN Bind(map, x, y) = T
    BY <1>1, <1>2 DEF Bind
  <1> QED BY <1>1, <1>2, <1>3, <1>4 DEF Maps

LEMMA EmptyMap ==
  ASSUME NEW V, NEW map \in Maps(V)
  PROVE  Cardinality(DOMAIN map) = 0 <=> DOMAIN map = {}
  <1>1. IsFiniteSet(DOMAIN map)
    BY DEF Maps, FiniteInts
  <1> QED BY <1>1, FS_EmptySet

LEMMA UnbindKeeps ==
  ASSUME NEW V, NEW map \in Maps(V), NEW x
  PROVE  Unbind(map, x) \in Maps(V)
  <1>1. PICK S \in FiniteInts : map \in [S -> V]
    BY DEF Maps
  <1>2. PICK T : T = S \ {x}
    OBVIOUS
  <1>3. T \in FiniteInts
    BY <1>2, FS_Subset DEF FiniteInts
  <1>4. Unbind(map, x) \in [T -> V] /\ DOMAIN Unbind(map, x) = T
    BY <1>1, <1>2 DEF Unbind
  <1> QED BY <1>1, <1>2, <1>3, <1>4 DEF Maps

\* The map that a promotion builds from the pairs of a vector.
Indexed(vec, c, d) ==
  [x \in {vec[i][c] : i \in DOMAIN vec} |-> vec[CHOOSE i \in At(vec, c, x) : TRUE][d]]

LEMMA IndexedAt ==
  ASSUME NEW vec, NEW c, NEW d, NEW x \in {vec[i][c] : i \in DOMAIN vec}
  PROVE  \E i \in DOMAIN vec : vec[i][c] = x /\ Indexed(vec, c, d)[x] = vec[i][d]
  <1>1. PICK i : i = (CHOOSE j \in At(vec, c, x) : TRUE)
    OBVIOUS
  <1>2. i \in DOMAIN vec /\ vec[i][c] = x
    BY <1>1 DEF At
  <1>3. Indexed(vec, c, d)[x] = vec[CHOOSE j \in At(vec, c, x) : TRUE][d]
    BY Zenon DEF Indexed
  <1>4. Indexed(vec, c, d)[x] = vec[i][d]
    BY <1>1, <1>3, Zenon
  <1> QED BY <1>2, <1>4

LEMMA IndexedAgrees ==
  ASSUME NEW vec, NEW c, NEW d, EachOnce(vec, c), NEW i \in DOMAIN vec
  PROVE  Indexed(vec, c, d)[vec[i][c]] = vec[i][d]
  <1>1. PICK j \in DOMAIN vec : /\ vec[j][c] = vec[i][c]
                                /\ Indexed(vec, c, d)[vec[i][c]] = vec[j][d]
    BY IndexedAt
  <1>2. j = i
    BY <1>1 DEF EachOnce
  <1> QED BY <1>1, <1>2

LEMMA IndexedIsMap ==
  ASSUME NEW V, NEW vec, NEW c, NEW d, NEW n \in Nat, DOMAIN vec = 1 .. n,
         \A i \in 1 .. n : vec[i][c] \in Int /\ vec[i][d] \in V
  PROVE  Indexed(vec, c, d) \in Maps(V)
  <1>1. PICK S : S = {vec[i][c] : i \in DOMAIN vec}
    OBVIOUS
  <1>2. S \in FiniteInts
    <2>1. IsFiniteSet(1 .. n)
      BY FS_Interval
    <2>2. PICK f : f = [i \in 1 .. n |-> vec[i][c]]
      OBVIOUS
    <2>3. f \in Surjection(1 .. n, S)
      <3>1. f \in [1 .. n -> S]
        BY <1>1, <2>2
      <3>2. \A x \in S : \E i \in 1 .. n : f[i] = x
        BY <1>1, <2>2
      <3> QED BY <3>1, <3>2, Fun_IsSurj
    <2>4. IsFiniteSet(S)
      BY <2>1, <2>3, FS_Surjection
    <2> QED BY <1>1, <2>4 DEF FiniteInts
  <1>3. ASSUME NEW x \in S PROVE Indexed(vec, c, d)[x] \in V
    BY <1>1, IndexedAt
  <1>4. Indexed(vec, c, d) = [x \in S |-> Indexed(vec, c, d)[x]]
    BY <1>1 DEF Indexed
  <1>5. Indexed(vec, c, d) \in [S -> V]
    BY <1>3, <1>4
  <1> QED BY <1>2, <1>5 DEF Maps

-----------------------------------------------------------------------------
(* Hashes.                                                                  *)

LEMMA NewHash == ASSUME NEW V PROVE HNew \in Hashes(V) /\ HFields(HNew) = {}
  <1>1. PICK none : none = <<>>
    OBVIOUS
  <1>2. none \in Seq(Int \X V) /\ Len(none) = 0 /\ DOMAIN none = {}
    BY <1>1, EmptySeq
  <1>3. none \in HashVecs(V)
    BY <1>2, ThresholdAssumption DEF HashVecs, EachOnce
  <1>4. HNew = [kind |-> "Small", vec |-> none]
    BY <1>1 DEF HNew
  <1> QED BY <1>2, <1>3, <1>4 DEF Hashes, HFields

\* The length is that of the set of fields, at least when it is zero.
LEMMA EmptyHash ==
  ASSUME NEW V, NEW h \in Hashes(V)
  PROVE  HLen(h) = 0 <=> HFields(h) = {}
  <1>1. CASE h.kind = "Large"
    <2>1. PICK map \in Maps(V) : h = [kind |-> "Large", map |-> map]
      BY <1>1 DEF Hashes
    <2> QED BY <2>1, EmptyMap DEF HLen, HFields
  <1>2. CASE h.kind # "Large"
    <2>1. PICK vec \in HashVecs(V) : h = [kind |-> "Small", vec |-> vec]
      BY <1>2 DEF Hashes
    <2>2. PICK n \in Nat : n = Len(vec) /\ DOMAIN vec = 1 .. n
      BY DEF HashVecs
    <2>3. HLen(h) = n /\ HFields(h) = {vec[i][1] : i \in 1 .. n}
      BY <2>1, <2>2 DEF HLen, HFields
    <2>4. CASE n = 0
      <3>1. 1 .. n = {}
        BY <2>4
      <3> QED BY <2>3, <2>4, <3>1
    <2>5. CASE n # 0
      <3>1. 1 \in 1 .. n
        BY <2>5
      <3>2. vec[1][1] \in HFields(h)
        BY <2>3, <3>1
      <3> QED BY <2>3, <2>5, <3>2
    <2> QED BY <2>4, <2>5
  <1> QED BY <1>1, <1>2

\* An insertion leaves a hash that is well formed and not empty.
LEMMA HInsertKeeps ==
  ASSUME NEW V, NEW h \in Hashes(V), NEW f \in Int, NEW v \in V
  PROVE  HInsert(h, f, v) \in Hashes(V) /\ f \in HFields(HInsert(h, f, v))
  <1>1. CASE h.kind = "Large"
    <2>1. PICK map \in Maps(V) : h = [kind |-> "Large", map |-> map]
      BY <1>1 DEF Hashes
    <2>2. PICK new : new = Bind(map, f, v)
      OBVIOUS
    <2>3. new \in Maps(V)
      BY <2>2, BindKeeps
    <2>5. f \in DOMAIN new
      BY <2>2 DEF Bind
    <2>4. HInsert(h, f, v) = [kind |-> "Large", map |-> new]
      BY <2>1, <2>2 DEF HInsert
    <2> QED BY <2>3, <2>4, <2>5 DEF Hashes, HFields
  <1>2. CASE h.kind # "Large"
    <2>1. PICK vec \in HashVecs(V) : h = [kind |-> "Small", vec |-> vec]
      BY <1>2 DEF Hashes
    <2>2. PICK n \in Nat : n = Len(vec) /\ DOMAIN vec = 1 .. n /\ vec \in Seq(Int \X V)
      BY DEF HashVecs
    <2>3. \A i \in 1 .. n : vec[i] \in Int \X V /\ vec[i][1] \in Int /\ vec[i][2] \in V
      BY <2>2
    <2>4. CASE At(vec, 1, f) # {}
      <3>1. PICK new : new = [i \in 1 .. n |-> IF i \in At(vec, 1, f) THEN <<f, v>> ELSE vec[i]]
        OBVIOUS
      <3>2. HInsert(h, f, v) = [kind |-> "Small", vec |-> new]
        BY <2>1, <2>2, <2>4, <3>1 DEF HInsert
      <3>3. new \in Seq(Int \X V) /\ Len(new) = n /\ DOMAIN new = 1 .. n
        BY <2>2, <2>3, <3>1
      <3>4. \A i \in 1 .. n : new[i][1] = vec[i][1]
        BY <2>2, <3>1 DEF At
      <3>5. EachOnce(new, 1)
        BY <2>2, <3>3, <3>4 DEF HashVecs, EachOnce
      <3>6. \E i \in 1 .. n : new[i][1] = f
        BY <2>2, <2>4, <3>4 DEF At
      <3>7. new \in HashVecs(V)
        BY <2>2, <3>3, <3>5 DEF HashVecs
      <3>8. f \in {new[i][1] : i \in DOMAIN new}
        BY <3>3, <3>6
      <3> QED BY <3>2, <3>7, <3>8 DEF Hashes, HFields
    <2>5. CASE At(vec, 1, f) = {} /\ n >= THRESHOLD
      <3>1. PICK map : map = Indexed(vec, 1, 2)
        OBVIOUS
      <3>2. map \in Maps(V)
        BY <2>2, <2>3, <3>1, IndexedIsMap
      <3>3. PICK new : new = Bind(map, f, v)
        OBVIOUS
      <3>4. new \in Maps(V)
        BY <3>2, <3>3, BindKeeps
      <3>7. f \in DOMAIN new
        BY <3>3 DEF Bind
      <3>5. HInsert(h, f, v) = HPromote(vec, f, v)
        BY <2>1, <2>2, <2>5 DEF HInsert
      <3>6. HPromote(vec, f, v) = [kind |-> "Large", map |-> new]
        BY <3>1, <3>3 DEF HPromote, Indexed
      <3> QED BY <3>4, <3>5, <3>6, <3>7 DEF Hashes, HFields
    <2>6. CASE At(vec, 1, f) = {} /\ ~(n >= THRESHOLD)
      <3>1. PICK new : new = Append(vec, <<f, v>>)
        OBVIOUS
      <3>2. HInsert(h, f, v) = [kind |-> "Small", vec |-> new]
        BY <2>1, <2>2, <2>6, <3>1 DEF HInsert
      <3>3. /\ new \in Seq(Int \X V) /\ Len(new) = n + 1 /\ DOMAIN new = 1 .. n + 1
            /\ \A i \in 1 .. n : new[i] = vec[i]
            /\ new[n + 1] = <<f, v>>
        BY <2>2, <3>1, AppendProperties
      <3>4. \A i \in 1 .. n : new[i][1] # f
        BY <2>2, <2>6, <3>3 DEF At
      <3>5. EachOnce(new, 1)
        <4> SUFFICES ASSUME NEW i \in 1 .. n + 1, NEW j \in 1 .. n + 1, new[i][1] = new[j][1]
                     PROVE  i = j
          BY <3>3 DEF EachOnce
        <4>1. new[n + 1][1] = f
          BY <3>3
        <4>2. CASE i = n + 1 \/ j = n + 1
          BY <3>4, <4>1, <4>2
        <4>3. CASE i \in 1 .. n /\ j \in 1 .. n
          BY <2>2, <3>3, <4>3 DEF HashVecs, EachOnce
        <4> QED BY <4>2, <4>3
      <3>6. n + 1 <= THRESHOLD /\ n + 1 \in 1 .. n + 1 /\ new[n + 1][1] = f
        BY <2>6, <3>3, ThresholdAssumption
      <3>7. new \in HashVecs(V)
        BY <3>3, <3>5, <3>6 DEF HashVecs
      <3>8. f \in {new[i][1] : i \in DOMAIN new}
        BY <3>3, <3>6
      <3> QED BY <3>2, <3>7, <3>8 DEF Hashes, HFields
    <2> QED BY <2>4, <2>5, <2>6
  <1> QED BY <1>1, <1>2

\* The vector without its pair i: the last pair in its place.
LEMMA SwapRemoveKeeps ==
  ASSUME NEW V, NEW vec \in HashVecs(V), NEW i \in DOMAIN vec
  PROVE  SwapRemove(vec, i) \in HashVecs(V)
  <1>1. PICK n \in Nat : n = Len(vec) /\ DOMAIN vec = 1 .. n /\ vec \in Seq(Int \X V)
    BY DEF HashVecs
  <1>2. PICK new : new = SwapRemove(vec, i)
    OBVIOUS
  <1>3. new = [j \in 1 .. n - 1 |-> IF j = i THEN vec[n] ELSE vec[j]]
    BY <1>1, <1>2 DEF SwapRemove
  <1>4. n - 1 \in Nat /\ n \in 1 .. n /\ \A j \in 1 .. n - 1 : j \in 1 .. n /\ j # n
    BY <1>1
  <1>5. new \in Seq(Int \X V) /\ Len(new) = n - 1 /\ DOMAIN new = 1 .. n - 1
    BY <1>1, <1>3, <1>4
  <1>6. EachOnce(new, 1)
    <2> SUFFICES ASSUME NEW j \in 1 .. n - 1, NEW k \in 1 .. n - 1, new[j][1] = new[k][1]
                 PROVE  j = k
      BY <1>5 DEF EachOnce
    <2>1. \A p, q \in 1 .. n : vec[p][1] = vec[q][1] => p = q
      BY <1>1 DEF HashVecs, EachOnce
    <2> QED BY <1>3, <1>4, <2>1
  <1> QED BY <1>1, <1>2, <1>5, <1>6, ThresholdAssumption DEF HashVecs

LEMMA HDelKeeps ==
  ASSUME NEW V, NEW h \in Hashes(V), NEW f \in Int
  PROVE  HDel(h, f) \in Hashes(V)
  <1>1. CASE f \notin HFields(h)
    BY <1>1 DEF HDel
  <1>2. CASE f \in HFields(h) /\ h.kind = "Large"
    <2>1. PICK map \in Maps(V) : h = [kind |-> "Large", map |-> map]
      BY <1>2 DEF Hashes
    <2>2. PICK new : new = Unbind(map, f)
      OBVIOUS
    <2>3. new \in Maps(V)
      BY <2>2, UnbindKeeps
    <2>4. HDel(h, f) = [kind |-> "Large", map |-> new]
      BY <1>2, <2>1, <2>2 DEF HDel
    <2> QED BY <2>3, <2>4 DEF Hashes
  <1>3. CASE f \in HFields(h) /\ h.kind # "Large"
    <2>1. PICK vec \in HashVecs(V) : h = [kind |-> "Small", vec |-> vec]
      BY <1>3 DEF Hashes
    <2>2. PICK i : i = (CHOOSE x \in At(vec, 1, f) : TRUE)
      OBVIOUS
    <2>3. At(vec, 1, f) # {}
      BY <1>3, <2>1 DEF HFields, At
    <2>4. i \in DOMAIN vec
      BY <2>2, <2>3 DEF At
    <2>5. PICK new : new = SwapRemove(vec, i)
      OBVIOUS
    <2>6. new \in HashVecs(V)
      BY <2>4, <2>5, SwapRemoveKeeps
    <2>7. HDel(h, f) = [kind |-> "Small", vec |-> new]
      BY <1>3, <2>1, <2>2, <2>5 DEF HDel
    <2> QED BY <2>6, <2>7 DEF Hashes
  <1> QED BY <1>1, <1>2, <1>3
-----------------------------------------------------------------------------
(* Vectors of pairs in order.                                               *)

\* The elements of a vector with e put in after the first q, and without
\* element q.
Inserted(vec, n, q, e) ==
  [i \in 1 .. n + 1 |-> IF i <= q THEN vec[i] ELSE IF i = q + 1 THEN e ELSE vec[i - 1]]
Removed(vec, n, q) == [i \in 1 .. n - 1 |-> IF i < q THEN vec[i] ELSE vec[i + 1]]

LEMMA InsertAtIs ==
  ASSUME NEW S, NEW vec \in Seq(S), NEW e \in S, NEW n \in Nat, n = Len(vec), NEW q \in 0 .. n
  PROVE  InsertAt(vec, q + 1, e) = Inserted(vec, n, q, e)
  <1>1. PICK a, b, c : a = SubSeq(vec, 1, q) /\ b = <<e>> /\ c = SubSeq(vec, q + 1, n)
    OBVIOUS
  <1>2. /\ a \in Seq(S) /\ Len(a) = q
        /\ \A i \in 1 .. q : a[i] = vec[i]
    BY <1>1
  <1>3. b \in Seq(S) /\ Len(b) = 1 /\ b[1] = e
    BY <1>1
  <1>4. /\ c \in Seq(S) /\ Len(c) = n - q
        /\ \A i \in 1 .. n - q : c[i] = vec[q + i]
    BY <1>1
  <1>5. PICK d : d = a \o b
    OBVIOUS
  <1>6. /\ d \in Seq(S) /\ Len(d) = q + 1
        /\ \A i \in 1 .. q : d[i] = vec[i]
        /\ d[q + 1] = e
    <2>1. /\ d \in Seq(S) /\ Len(d) = Len(a) + Len(b)
          /\ \A i \in 1 .. Len(a) + Len(b) : d[i] = IF i <= Len(a) THEN a[i] ELSE b[i - Len(a)]
      BY <1>2, <1>3, <1>5, ConcatProperties
    <2>2. \A i \in 1 .. q + 1 : d[i] = IF i <= q THEN a[i] ELSE b[i - q]
      BY <1>2, <1>3, <2>1
    <2>3. q + 1 \in 1 .. q + 1 /\ (q + 1) - q = 1 /\ ~(q + 1 <= q) /\ Len(d) = q + 1
      BY <1>2, <1>3, <2>1
    <2>4. d[q + 1] = b[1]
      BY <2>2, <2>3
    <2> QED BY <1>2, <1>3, <2>1, <2>2, <2>3, <2>4
  <1>7. PICK r : r = d \o c
    OBVIOUS
  <1>8. /\ r \in Seq(S) /\ Len(r) = n + 1
        /\ \A i \in 1 .. q + 1 : r[i] = d[i]
        /\ \A i \in q + 2 .. n + 1 : r[i] = c[i - (q + 1)]
    BY <1>4, <1>6, <1>7
  <1>9. InsertAt(vec, q + 1, e) = r
    <2>1. (q + 1) - 1 = q
      OBVIOUS
    <2> QED BY <1>1, <1>5, <1>7, <2>1 DEF InsertAt
  <1>10. \A i \in 1 .. n + 1 :
           r[i] = IF i <= q THEN vec[i] ELSE IF i = q + 1 THEN e ELSE vec[i - 1]
    <2> SUFFICES ASSUME NEW i \in 1 .. n + 1
                 PROVE  r[i] = IF i <= q THEN vec[i] ELSE IF i = q + 1 THEN e ELSE vec[i - 1]
      OBVIOUS
    <2>1. CASE i <= q + 1
      BY <1>6, <1>8, <2>1
    <2>2. CASE ~(i <= q + 1)
      <3>1. i \in q + 2 .. n + 1 /\ i - (q + 1) \in 1 .. n - q /\ q + (i - (q + 1)) = i - 1
        BY <2>2
      <3>2. r[i] = c[i - (q + 1)]
        BY <1>8, <3>1
      <3>3. c[i - (q + 1)] = vec[i - 1]
        BY <1>4, <3>1
      <3>4. ~(i <= q) /\ i # q + 1
        BY <2>2
      <3> QED BY <3>2, <3>3, <3>4
    <2> QED BY <2>1, <2>2
  <1> QED BY <1>8, <1>9, <1>10 DEF Inserted

LEMMA RemoveAtIs ==
  ASSUME NEW S, NEW vec \in Seq(S), NEW n \in Nat, n = Len(vec), NEW q \in 1 .. n
  PROVE  RemoveAt(vec, q) = Removed(vec, n, q)
  <1>1. PICK a, c : a = SubSeq(vec, 1, q - 1) /\ c = SubSeq(vec, q + 1, n)
    OBVIOUS
  <1>2. /\ a \in Seq(S) /\ Len(a) = q - 1
        /\ \A i \in 1 .. q - 1 : a[i] = vec[i]
    BY <1>1
  <1>3. /\ c \in Seq(S) /\ Len(c) = n - q
        /\ \A i \in 1 .. n - q : c[i] = vec[q + i]
    BY <1>1
  <1>4. PICK r : r = a \o c
    OBVIOUS
  <1>5. /\ r \in Seq(S) /\ Len(r) = n - 1
        /\ \A i \in 1 .. q - 1 : r[i] = a[i]
        /\ \A i \in q .. n - 1 : r[i] = c[i - (q - 1)]
    <2>1. /\ r \in Seq(S) /\ Len(r) = Len(a) + Len(c)
          /\ \A i \in 1 .. Len(a) + Len(c) : r[i] = IF i <= Len(a) THEN a[i] ELSE c[i - Len(a)]
      BY <1>2, <1>3, <1>4, ConcatProperties
    <2>2. Len(a) + Len(c) = n - 1
      BY <1>2, <1>3
    <2>3. \A i \in 1 .. n - 1 : r[i] = IF i <= q - 1 THEN a[i] ELSE c[i - (q - 1)]
      BY <1>2, <2>1, <2>2
    <2>4. \A i \in 1 .. q - 1 : i \in 1 .. n - 1 /\ i <= q - 1
      OBVIOUS
    <2>5. \A i \in q .. n - 1 : i \in 1 .. n - 1 /\ ~(i <= q - 1)
      OBVIOUS
    <2> QED BY <2>1, <2>2, <2>3, <2>4, <2>5
  <1>6. RemoveAt(vec, q) = r
    BY <1>1, <1>4 DEF RemoveAt
  <1>7. \A i \in 1 .. n - 1 : r[i] = IF i < q THEN vec[i] ELSE vec[i + 1]
    <2> SUFFICES ASSUME NEW i \in 1 .. n - 1
                 PROVE  r[i] = IF i < q THEN vec[i] ELSE vec[i + 1]
      OBVIOUS
    <2>1. CASE i < q
      BY <1>2, <1>5, <2>1
    <2>2. CASE ~(i < q)
      <3>1. i \in q .. n - 1 /\ i - (q - 1) \in 1 .. n - q /\ q + (i - (q - 1)) = i + 1
        BY <2>2
      <3> QED BY <1>3, <1>5, <2>2, <3>1
    <2> QED BY <2>1, <2>2
  <1> QED BY <1>5, <1>6, <1>7 DEF Removed

\* Where a pair belongs: all pairs up to there are before it, the next is not.
LEMMA PointIsFound ==
  ASSUME NEW vec, NEW n \in Nat, n = Len(vec), NEW p
  PROVE  \E q \in 0 .. n : /\ q = PartitionPoint(vec, p)
                           /\ \A i \in 1 .. q : Before(vec[i], p)
                           /\ q < n => ~Before(vec[q + 1], p)
  <1>1. PICK B : B = {q \in 1 .. n : \A i \in 1 .. q : Before(vec[i], p)}
    OBVIOUS
  <1>2. \E q \in 0 .. n : /\ \A i \in 1 .. q : Before(vec[i], p)
                          /\ q < n => ~Before(vec[q + 1], p)
    <2>1. CASE B = {}
      <3>1. n > 0 => ~Before(vec[1], p)
        <4> SUFFICES ASSUME n > 0, Before(vec[1], p) PROVE FALSE
          OBVIOUS
        <4>1. 1 \in 1 .. n /\ \A i \in 1 .. 1 : i = 1
          OBVIOUS
        <4>2. 1 \in B
          BY <1>1, <4>1
        <4> QED BY <2>1, <4>2
      <3>2. 0 \in 0 .. n /\ 1 .. 0 = {} /\ 0 + 1 = 1
        OBVIOUS
      <3> QED BY <3>1, <3>2
    <2>2. CASE B # {}
      <3>1. PICK q : q = Max(B)
        OBVIOUS
      <3>2. q \in B /\ \A y \in B : y <= q
        <4>1. B \in SUBSET (1 .. n)
          BY <1>1
        <4> QED BY <2>2, <3>1, <4>1, MaxIsGreatest
      <3>3. q \in 0 .. n /\ \A i \in 1 .. q : Before(vec[i], p)
        BY <1>1, <3>2
      <3>4. q < n => ~Before(vec[q + 1], p)
        <4> SUFFICES ASSUME q < n, Before(vec[q + 1], p) PROVE FALSE
          OBVIOUS
        <4>1. q + 1 \in 1 .. n /\ \A i \in 1 .. q + 1 : i = q + 1 \/ i \in 1 .. q
          BY <3>3
        <4>2. q + 1 \in B
          BY <1>1, <3>3, <4>1
        <4> QED BY <3>2, <3>3, <4>2
      <3> QED BY <3>3, <3>4
    <2> QED BY <2>1, <2>2
  <1>3. PICK q : q = PartitionPoint(vec, p)
    OBVIOUS
  <1>4. /\ q \in 0 .. n
        /\ \A i \in 1 .. q : Before(vec[i], p)
        /\ q < n => ~Before(vec[q + 1], p)
    BY <1>2, <1>3 DEF PartitionPoint
  <1> QED BY <1>3, <1>4

\* A pair of a new member goes in order into a vector in order.
LEMMA SortedInsertKeeps ==
  ASSUME NEW vec \in Seq(Int \X Int), EachOnce(vec, 2), Ascending(vec),
         NEW s \in Int, NEW m \in Int, At(vec, 2, m) = {}
  PROVE  \E new \in Seq(Int \X Int) :
           /\ new = SortedInsert(vec, <<s, m>>) /\ Len(new) = Len(vec) + 1
           /\ EachOnce(new, 2) /\ Ascending(new)
           /\ \E i \in DOMAIN new : new[i][2] = m
  <1>1. PICK n \in Nat : n = Len(vec) /\ DOMAIN vec = 1 .. n
    OBVIOUS
  <1>2. PICK P, p : P = Int \X Int /\ p = <<s, m>>
    OBVIOUS
  <1>0. p \in P /\ p[1] = s /\ p[2] = m /\ vec \in Seq(P)
    BY <1>2
  <1>3. PICK q \in 0 .. n : /\ q = PartitionPoint(vec, p)
                            /\ \A i \in 1 .. q : Before(vec[i], p)
                            /\ q < n => ~Before(vec[q + 1], p)
    BY <1>1, PointIsFound
  <1>4. PICK new : new = [i \in 1 .. n + 1 |-> IF i <= q THEN vec[i]
                                               ELSE IF i = q + 1 THEN p ELSE vec[i - 1]]
    OBVIOUS
  <1>5. new = SortedInsert(vec, p)
    <2>1. vec \in Seq(P) /\ p \in P /\ n \in Nat /\ n = Len(vec) /\ q \in 0 .. n
      BY <1>0, <1>1, <1>3
    <2>2. InsertAt(vec, q + 1, p) = Inserted(vec, n, q, p)
      BY <2>1, InsertAtIs
    <2>3. InsertAt(vec, q + 1, p) = new
      BY <1>4, <2>2, Zenon DEF Inserted
    <2> QED BY <1>3, <2>3 DEF SortedInsert
  <1>6. \A i \in 1 .. n : vec[i] \in P /\ vec[i][1] \in Int /\ vec[i][2] \in Int
    BY <1>1, <1>2
  <1>7. \A i \in 1 .. n : vec[i][2] # m
    BY <1>1 DEF At
  \* Where the pairs of new come from.
  <1>8. PICK o : o = [i \in 1 .. n + 1 |-> IF i <= q THEN i ELSE i - 1]
    OBVIOUS
  <1>9. \A i \in 1 .. n + 1 : i # q + 1 => o[i] \in 1 .. n /\ new[i] = vec[o[i]]
    BY <1>4, <1>8
  <1>10. /\ \A i, j \in 1 .. n + 1 : i # q + 1 /\ j # q + 1 /\ i < j => o[i] < o[j]
         /\ \A i, j \in 1 .. n + 1 : i # q + 1 /\ j # q + 1 /\ o[i] = o[j] => i = j
         /\ \A i \in 1 .. n + 1 : i < q + 1 => o[i] \in 1 .. q
         /\ \A i \in 1 .. n + 1 : q + 1 < i => o[i] \in q + 1 .. n
    BY <1>8
  <1>11. q + 1 \in 1 .. n + 1 /\ new[q + 1] = p
    BY <1>4
  <1>12. new \in Seq(Int \X Int) /\ Len(new) = n + 1 /\ DOMAIN new = 1 .. n + 1
    <2>1. \A i \in 1 .. n + 1 : new[i] \in P
      BY <1>0, <1>6, <1>9, <1>11
    <2> QED BY <1>2, <1>4, <2>1
  <1>13. EachOnce(new, 2)
    <2> SUFFICES ASSUME NEW i \in 1 .. n + 1, NEW j \in 1 .. n + 1, new[i][2] = new[j][2]
                 PROVE  i = j
      BY <1>12 DEF EachOnce
    <2>1. \A c, d \in 1 .. n : vec[c][2] = vec[d][2] => c = d
      BY <1>1 DEF EachOnce
    <2>2. CASE i = q + 1
      BY <1>0, <1>7, <1>9, <1>11, <2>2
    <2>3. CASE j = q + 1
      BY <1>0, <1>7, <1>9, <1>11, <2>3
    <2>4. CASE i # q + 1 /\ j # q + 1
      <3>1. o[i] \in 1 .. n /\ o[j] \in 1 .. n /\ vec[o[i]][2] = vec[o[j]][2]
        BY <1>9, <2>4
      <3>2. o[i] = o[j]
        BY <2>1, <3>1
      <3> QED BY <1>10, <2>4, <3>2
    <2> QED BY <2>2, <2>3, <2>4
  <1>14. Ascending(new)
    <2>1. \A c, d \in 1 .. n : c < d => Before(vec[c], vec[d])
      BY <1>1 DEF Ascending
    <2>2. ASSUME NEW c \in q + 1 .. n PROVE Before(p, vec[c])
      <3>1. c \in 1 .. n /\ q < n /\ q + 1 \in 1 .. n
        OBVIOUS
      <3>2. Before(p, vec[q + 1])
        <4>1. /\ vec[q + 1][1] \in Int /\ vec[q + 1][2] \in Int /\ vec[q + 1][2] # m
              /\ ~Before(vec[q + 1], p)
          BY <1>3, <1>6, <1>7, <3>1
        <4> QED BY <1>0, <4>1 DEF Before
      <3>3. CASE c = q + 1
        BY <3>2, <3>3
      <3>4. CASE c # q + 1
        <4>1. Before(vec[q + 1], vec[c])
          BY <2>1, <3>1, <3>4
        <4>2. /\ vec[q + 1][1] \in Int /\ vec[q + 1][2] \in Int
              /\ vec[c][1] \in Int /\ vec[c][2] \in Int
          BY <1>6, <3>1
        <4>3. PICK x \in Int, y \in Int, u \in Int, z \in Int :
                x = vec[q + 1][1] /\ y = vec[q + 1][2] /\ u = vec[c][1] /\ z = vec[c][2]
          BY <4>2
        <4>4. p[1] < x \/ (p[1] = x /\ p[2] < y)
          BY <3>2, <4>3 DEF Before
        <4>5. x < u \/ (x = u /\ y < z)
          BY <4>1, <4>3 DEF Before
        <4>6. p[1] < u \/ (p[1] = u /\ p[2] < z)
          BY <1>0, <4>4, <4>5
        <4> QED BY <4>3, <4>6 DEF Before
      <3> QED BY <3>3, <3>4
    <2> SUFFICES ASSUME NEW i \in 1 .. n + 1, NEW j \in 1 .. n + 1, i < j
                 PROVE  Before(new[i], new[j])
      BY <1>12 DEF Ascending
    <2>3. CASE i = q + 1
      <3>1. o[j] \in q + 1 .. n /\ new[j] = vec[o[j]]
        BY <1>9, <1>10, <2>3
      <3> QED BY <1>11, <2>2, <2>3, <3>1
    <2>4. CASE j = q + 1
      <3>1. o[i] \in 1 .. q /\ new[i] = vec[o[i]]
        <4>1. i # q + 1 /\ i < q + 1
          BY <2>4
        <4>2. new[i] = vec[o[i]]
          BY <1>9, <4>1
        <4>3. o[i] \in 1 .. q
          BY <1>10, <4>1
        <4> QED BY <4>2, <4>3
      <3> QED BY <1>3, <1>11, <2>4, <3>1
    <2>5. CASE i # q + 1 /\ j # q + 1
      <3>1. o[i] \in 1 .. n /\ o[j] \in 1 .. n /\ new[i] = vec[o[i]] /\ new[j] = vec[o[j]]
        BY <1>9, <2>5
      <3>2. o[i] < o[j]
        BY <1>10, <2>5
      <3> QED BY <2>1, <3>1, <3>2
    <2> QED BY <2>3, <2>4, <2>5
  <1>15. new = SortedInsert(vec, <<s, m>>) /\ Len(new) = Len(vec) + 1
    BY <1>1, <1>2, <1>5, <1>12
  <1>16. \E i \in DOMAIN new : new[i][2] = m
    BY <1>0, <1>11, <1>12
  <1> QED BY <1>12, <1>13, <1>14, <1>15, <1>16

LEMMA RemoveAtKeeps ==
  ASSUME NEW vec \in ZVecs, NEW q \in DOMAIN vec
  PROVE  \E new \in ZVecs : /\ new = RemoveAt(vec, q) /\ Len(new) = Len(vec) - 1
                            /\ At(new, 2, vec[q][2]) = {}
  <1>1. PICK n \in Nat : n = Len(vec) /\ DOMAIN vec = 1 .. n /\ vec \in Seq(Int \X Int)
    BY DEF ZVecs
  <1>2. q \in 1 .. n
    BY <1>1
  <1>3. PICK new : new = [i \in 1 .. n - 1 |-> IF i < q THEN vec[i] ELSE vec[i + 1]]
    OBVIOUS
  <1>4. new = RemoveAt(vec, q)
    <2>1. PICK P : P = Int \X Int
      OBVIOUS
    <2>2. vec \in Seq(P)
      BY <1>1, <2>1
    <2>3. RemoveAt(vec, q) = Removed(vec, n, q)
      BY <1>1, <1>2, <2>2, RemoveAtIs
    <2> QED BY <1>3, <2>3, Zenon DEF Removed
  <1>5. PICK o : o = [i \in 1 .. n - 1 |-> IF i < q THEN i ELSE i + 1]
    OBVIOUS
  <1>6. /\ \A i \in 1 .. n - 1 : o[i] \in 1 .. n /\ o[i] # q
        /\ \A i, j \in 1 .. n - 1 : (i < j => o[i] < o[j]) /\ (o[i] = o[j] => i = j)
    BY <1>2, <1>5
  <1>7. \A i \in 1 .. n - 1 : new[i] = vec[o[i]]
    BY <1>3, <1>5
  <1>8. new \in Seq(Int \X Int) /\ Len(new) = n - 1 /\ DOMAIN new = 1 .. n - 1
    <2>0. \A i \in 1 .. n : vec[i] \in Int \X Int
      BY <1>1
    <2>1. \A i \in 1 .. n - 1 : new[i] \in Int \X Int
      BY <1>6, <1>7, <2>0
    <2>2. n - 1 \in Nat
      BY <1>2
    <2> QED BY <1>3, <2>1, <2>2
  <1>9. \A a, b \in 1 .. n : /\ vec[a][2] = vec[b][2] => a = b
                             /\ a < b => Before(vec[a], vec[b])
    BY <1>1 DEF ZVecs, EachOnce, Ascending
  <1>10. EachOnce(new, 2)
    <2> SUFFICES ASSUME NEW i \in 1 .. n - 1, NEW j \in 1 .. n - 1, new[i][2] = new[j][2]
                 PROVE  i = j
      BY <1>8 DEF EachOnce
    <2>1. o[i] \in 1 .. n /\ o[j] \in 1 .. n /\ vec[o[i]][2] = vec[o[j]][2]
      BY <1>6, <1>7
    <2>2. o[i] = o[j]
      BY <1>9, <2>1
    <2> QED BY <1>6, <2>2
  <1>11. Ascending(new)
    <2> SUFFICES ASSUME NEW i \in 1 .. n - 1, NEW j \in 1 .. n - 1, i < j
                 PROVE  Before(new[i], new[j])
      BY <1>8 DEF Ascending
    <2>1. o[i] \in 1 .. n /\ o[j] \in 1 .. n /\ o[i] < o[j]
      BY <1>6
    <2> QED BY <1>7, <1>9, <2>1
  <1>12. At(new, 2, vec[q][2]) = {}
    <2>1. ASSUME NEW i \in 1 .. n - 1 PROVE new[i][2] # vec[q][2]
      <3>1. o[i] \in 1 .. n /\ o[i] # q /\ new[i] = vec[o[i]]
        BY <1>6, <1>7
      <3> QED BY <1>2, <1>9, <3>1
    <2> QED BY <1>8, <2>1 DEF At
  <1>13. n - 1 <= THRESHOLD
    BY <1>1, ThresholdAssumption DEF ZVecs
  <1>14. new \in ZVecs
    BY <1>8, <1>10, <1>11, <1>13 DEF ZVecs
  <1> QED BY <1>1, <1>4, <1>8, <1>12, <1>14

-----------------------------------------------------------------------------
(* Sorted sets.                                                             *)

LEMMA NewZSet == ZNew \in ZSets
  <1>1. PICK none : none = <<>>
    OBVIOUS
  <1>2. none \in Seq(Int \X Int) /\ Len(none) = 0 /\ DOMAIN none = {}
    BY <1>1, EmptySeq
  <1>3. none \in ZVecs
    BY <1>2, ThresholdAssumption DEF ZVecs, EachOnce, Ascending
  <1>4. ZNew = [kind |-> "Small", vec |-> none]
    BY <1>1 DEF ZNew
  <1> QED BY <1>3, <1>4 DEF ZSets

\* A sorted set is one or the other.
LEMMA ZSetIs ==
  ASSUME NEW z \in ZSets
  PROVE  \/ \E vec \in ZVecs : z = [kind |-> "Small", vec |-> vec]
         \/ \E scores \in Maps(Int) :
              z = [kind |-> "Large", sorted |-> Graph(scores), scores |-> scores]
  <1>1. CASE z \in [kind : {"Small"}, vec : ZVecs]
    BY <1>1
  <1>2. CASE z \in ZLarge
    BY <1>2 DEF ZLarge
  <1> QED BY <1>1, <1>2 DEF ZSets

LEMMA SmallZSet == ASSUME NEW vec \in ZVecs PROVE [kind |-> "Small", vec |-> vec] \in ZSets
  BY DEF ZSets

LEMMA LargeZSet ==
  ASSUME NEW scores \in Maps(Int)
  PROVE  [kind |-> "Large", sorted |-> Graph(scores), scores |-> scores] \in ZSets
  <1>1. \A m \in DOMAIN scores : m \in Int /\ scores[m] \in Int
    BY DEF Maps, FiniteInts
  <1>2. Graph(scores) \in SUBSET (Int \X Int)
    BY <1>1 DEF Graph
  <1> QED BY <1>2 DEF ZSets, ZLarge

LEMMA EmptyZSet ==
  ASSUME NEW z \in ZSets
  PROVE  ZLen(z) = 0 <=> ZMembers(z) = {}
  <1>1. CASE \E scores \in Maps(Int) :
               z = [kind |-> "Large", sorted |-> Graph(scores), scores |-> scores]
    <2>1. PICK scores \in Maps(Int) :
                z = [kind |-> "Large", sorted |-> Graph(scores), scores |-> scores]
      BY <1>1
    <2> QED BY <2>1, EmptyMap DEF ZLen, ZMembers
  <1>2. CASE \E vec \in ZVecs : z = [kind |-> "Small", vec |-> vec]
    <2>1. PICK vec \in ZVecs : z = [kind |-> "Small", vec |-> vec]
      BY <1>2
    <2>2. PICK n \in Nat : n = Len(vec) /\ DOMAIN vec = 1 .. n
      BY DEF ZVecs
    <2>3. ZLen(z) = n /\ ZMembers(z) = {vec[i][2] : i \in 1 .. n}
      BY <2>1, <2>2 DEF ZLen, ZMembers
    <2>4. CASE n = 0
      <3>1. 1 .. n = {}
        BY <2>4
      <3> QED BY <2>3, <2>4, <3>1
    <2>5. CASE n # 0
      <3>1. 1 \in 1 .. n
        BY <2>5
      <3>2. vec[1][2] \in ZMembers(z)
        BY <2>3, <3>1
      <3> QED BY <2>3, <2>5, <3>2
    <2> QED BY <2>4, <2>5
  <1> QED BY <1>1, <1>2, ZSetIs

LEMMA GraphOfBind ==
  ASSUME NEW scores, NEW m, NEW s
  PROVE  Graph(Bind(scores, m, s)) =
           {<<scores[x], x>> : x \in DOMAIN scores \ {m}} \cup {<<s, m>>}
  BY DEF Graph, Bind

LEMMA LargeInsertKeeps ==
  ASSUME NEW scores \in Maps(Int), NEW s \in Int, NEW m \in Int, NEW z,
         z = [kind |-> "Large", sorted |-> Graph(scores), scores |-> scores]
  PROVE  LargeInsert(z, s, m) \in ZSets /\ m \in ZMembers(LargeInsert(z, s, m))
  <1>1. CASE m \in DOMAIN scores /\ scores[m] = s
    <2>1. LargeInsert(z, s, m) = z
      BY <1>1 DEF LargeInsert
    <2> QED BY <1>1, <2>1, LargeZSet DEF ZMembers
  <1>2. CASE ~(m \in DOMAIN scores /\ scores[m] = s)
    <2>1. PICK new : new = Bind(scores, m, s)
      OBVIOUS
    <2>2. new \in Maps(Int) /\ m \in DOMAIN new
      <3>1. new \in Maps(Int)
        BY <2>1, BindKeeps
      <3>2. m \in DOMAIN new
        BY <2>1 DEF Bind
      <3> QED BY <3>1, <3>2
    <2>3. PICK sorted : sorted = IF m \in DOMAIN scores
                                 THEN (Graph(scores) \ {<<scores[m], m>>}) \cup {<<s, m>>}
                                 ELSE Graph(scores) \cup {<<s, m>>}
      OBVIOUS
    <2>4. LargeInsert(z, s, m) = [kind |-> "Large", sorted |-> sorted, scores |-> new]
      BY <1>2, <2>1, <2>3 DEF LargeInsert
    <2>5. sorted = Graph(new)
      <3>1. Graph(new) = {<<scores[x], x>> : x \in DOMAIN scores \ {m}} \cup {<<s, m>>}
        BY <2>1, GraphOfBind
      <3>2. CASE m \in DOMAIN scores
        <4>1. Graph(scores) \ {<<scores[m], m>>} = {<<scores[x], x>> : x \in DOMAIN scores \ {m}}
          BY <3>2 DEF Graph
        <4> QED BY <2>3, <3>1, <3>2, <4>1
      <3>3. CASE m \notin DOMAIN scores
        <4>1. DOMAIN scores \ {m} = DOMAIN scores
          BY <3>3
        <4> QED BY <2>3, <3>1, <3>3, <4>1 DEF Graph
      <3> QED BY <3>2, <3>3
    <2> QED BY <2>2, <2>4, <2>5, LargeZSet DEF ZMembers
  <1> QED BY <1>1, <1>2

LEMMA ZPromoteKeeps ==
  ASSUME NEW vec \in ZVecs, NEW s \in Int, NEW m \in Int, At(vec, 2, m) = {}
  PROVE  ZPromote(vec, s, m) \in ZSets /\ m \in ZMembers(ZPromote(vec, s, m))
  <1>1. PICK n \in Nat : n = Len(vec) /\ DOMAIN vec = 1 .. n /\ vec \in Seq(Int \X Int)
    BY DEF ZVecs
  <1>2. \A i \in 1 .. n : vec[i][1] \in Int /\ vec[i][2] \in Int
    BY <1>1
  <1>3. \A i \in 1 .. n : vec[i] = <<vec[i][1], vec[i][2]>>
    BY <1>1
  <1>4. PICK scores : scores = Indexed(vec, 2, 1)
    OBVIOUS
  <1>5. /\ scores \in Maps(Int) /\ DOMAIN scores = {vec[i][2] : i \in 1 .. n}
        /\ \A i \in 1 .. n : scores[vec[i][2]] = vec[i][1]
    <2>1. EachOnce(vec, 2)
      BY DEF ZVecs
    <2>2. \A i \in 1 .. n : vec[i][2] \in Int /\ vec[i][1] \in Int
      BY <1>2
    <2>3. Indexed(vec, 2, 1) \in Maps(Int)
      BY <1>1, <2>2, IndexedIsMap
    <2>4. DOMAIN Indexed(vec, 2, 1) = {vec[i][2] : i \in 1 .. n}
      BY <1>1 DEF Indexed
    <2>5. \A i \in 1 .. n : Indexed(vec, 2, 1)[vec[i][2]] = vec[i][1]
      BY <1>1, <2>1, IndexedAgrees
    <2> QED BY <1>4, <2>3, <2>4, <2>5
  <1>6. PICK new : new = Bind(scores, m, s)
    OBVIOUS
  <1>7. new \in Maps(Int)
    BY <1>5, <1>6, BindKeeps
  <1>8. m \in DOMAIN new
    BY <1>6 DEF Bind
  <1>9. Graph(new) = {vec[i] : i \in DOMAIN vec} \cup {<<s, m>>}
    <2>1. m \notin DOMAIN scores
      BY <1>1, <1>5 DEF At
    <2>2. DOMAIN scores \ {m} = DOMAIN scores
      BY <2>1
    <2>3. {<<scores[x], x>> : x \in DOMAIN scores} = {vec[i] : i \in 1 .. n}
      <3>1. \A i \in 1 .. n : vec[i] = <<scores[vec[i][2]], vec[i][2]>>
        BY <1>3, <1>5
      <3> QED BY <1>5, <3>1
    <2> QED BY <1>1, <1>6, <2>2, <2>3, GraphOfBind
  <1>10. ZPromote(vec, s, m) = [kind |-> "Large", sorted |-> Graph(new), scores |-> new]
    BY <1>4, <1>6, <1>9 DEF ZPromote, Indexed
  <1> QED BY <1>7, <1>8, <1>10, LargeZSet DEF ZMembers

LEMMA SmallInsertKeeps ==
  ASSUME NEW vec \in ZVecs, NEW s \in Int, NEW m \in Int,
         At(vec, 2, m) = {} => Len(vec) < THRESHOLD
  PROVE  \E new \in ZVecs : new = SmallInsert(vec, s, m) /\ \E i \in DOMAIN new : new[i][2] = m
  <1>1. PICK n \in Nat : n = Len(vec) /\ DOMAIN vec = 1 .. n /\ vec \in Seq(Int \X Int)
    BY DEF ZVecs
  <1>2. EachOnce(vec, 2) /\ Ascending(vec) /\ n <= THRESHOLD
    BY <1>1 DEF ZVecs
  <1>3. CASE At(vec, 2, m) = {}
    <2>1. PICK new \in Seq(Int \X Int) :
                /\ new = SortedInsert(vec, <<s, m>>) /\ Len(new) = Len(vec) + 1
                /\ EachOnce(new, 2) /\ Ascending(new)
                /\ \E i \in DOMAIN new : new[i][2] = m
      BY <1>1, <1>2, <1>3, SortedInsertKeeps
    <2>2. Len(new) <= THRESHOLD
      <3>1. n < THRESHOLD /\ Len(new) = n + 1
        BY <1>1, <1>3, <2>1
      <3> QED BY <3>1, ThresholdAssumption
    <2>3. new \in ZVecs
      BY <2>1, <2>2 DEF ZVecs
    <2> QED BY <1>3, <2>1, <2>3 DEF SmallInsert
  <1>4. CASE At(vec, 2, m) # {}
    <2>1. PICK i : i = (CHOOSE x \in At(vec, 2, m) : TRUE)
      OBVIOUS
    <2>2. i \in DOMAIN vec /\ vec[i][2] = m
      BY <1>4, <2>1 DEF At
    <2>3. CASE vec[i][1] = s
      <3>1. SmallInsert(vec, s, m) = vec
        BY <1>4, <2>1, <2>3 DEF SmallInsert
      <3> QED BY <2>2, <3>1
    <2>4. CASE vec[i][1] # s
      <3>1. PICK less \in ZVecs : /\ less = RemoveAt(vec, i) /\ Len(less) = Len(vec) - 1
                                  /\ At(less, 2, vec[i][2]) = {}
        BY <2>2, RemoveAtKeeps
      <3>2. less \in Seq(Int \X Int) /\ EachOnce(less, 2) /\ Ascending(less) /\ At(less, 2, m) = {}
        BY <2>2, <3>1 DEF ZVecs
      <3>3. PICK new \in Seq(Int \X Int) :
                  /\ new = SortedInsert(less, <<s, m>>) /\ Len(new) = Len(less) + 1
                  /\ EachOnce(new, 2) /\ Ascending(new)
                  /\ \E j \in DOMAIN new : new[j][2] = m
        BY <3>2, SortedInsertKeeps
      <3>4. Len(new) <= THRESHOLD
        BY <1>1, <1>2, <3>1, <3>3
      <3>5. new \in ZVecs
        BY <3>3, <3>4 DEF ZVecs
      <3>6. SmallInsert(vec, s, m) = new
        BY <1>4, <2>1, <2>4, <3>1, <3>3 DEF SmallInsert
      <3> QED BY <3>3, <3>5, <3>6
    <2> QED BY <2>3, <2>4
  <1> QED BY <1>3, <1>4

\* An insertion leaves a sorted set that is well formed and not empty.
LEMMA ZInsertKeeps ==
  ASSUME NEW z \in ZSets, NEW s \in Int, NEW m \in Int
  PROVE  ZInsert(z, s, m) \in ZSets /\ m \in ZMembers(ZInsert(z, s, m))
  <1>1. CASE \E scores \in Maps(Int) :
               z = [kind |-> "Large", sorted |-> Graph(scores), scores |-> scores]
    <2>1. ZInsert(z, s, m) = LargeInsert(z, s, m)
      BY <1>1 DEF ZInsert
    <2> QED BY <1>1, <2>1, LargeInsertKeeps
  <1>2. CASE \E vec \in ZVecs : z = [kind |-> "Small", vec |-> vec]
    <2>1. PICK vec \in ZVecs : z = [kind |-> "Small", vec |-> vec]
      BY <1>2
    <2>2. Len(vec) \in Nat
      BY DEF ZVecs
    <2>3. CASE At(vec, 2, m) = {} /\ Len(vec) >= THRESHOLD
      <3>1. ZInsert(z, s, m) = ZPromote(vec, s, m)
        BY <2>1, <2>3 DEF ZInsert
      <3> QED BY <2>3, <3>1, ZPromoteKeeps
    <2>4. CASE ~(At(vec, 2, m) = {} /\ Len(vec) >= THRESHOLD)
      <3>1. At(vec, 2, m) = {} => Len(vec) < THRESHOLD
        BY <2>2, <2>4, ThresholdAssumption
      <3>2. PICK new \in ZVecs : /\ new = SmallInsert(vec, s, m)
                                 /\ \E i \in DOMAIN new : new[i][2] = m
        BY <3>1, SmallInsertKeeps
      <3>3. ZInsert(z, s, m) = [kind |-> "Small", vec |-> new]
        BY <2>1, <2>4, <3>2 DEF ZInsert
      <3> QED BY <3>2, <3>3, SmallZSet DEF ZMembers
    <2> QED BY <2>3, <2>4
  <1> QED BY <1>1, <1>2, ZSetIs

LEMMA ZRemoveKeeps ==
  ASSUME NEW z \in ZSets, NEW m \in Int
  PROVE  ZRemove(z, m) \in ZSets
  <1>1. CASE m \notin ZMembers(z)
    BY <1>1 DEF ZRemove
  <1>2. ASSUME m \in ZMembers(z), NEW scores \in Maps(Int),
               z = [kind |-> "Large", sorted |-> Graph(scores), scores |-> scores]
        PROVE  ZRemove(z, m) \in ZSets
    <2>1. PICK new : new = Unbind(scores, m)
      OBVIOUS
    <2>2. new \in Maps(Int)
      BY <2>1, UnbindKeeps
    <2>3. m \in DOMAIN scores
      BY <1>2 DEF ZMembers
    <2>4. Graph(new) = Graph(scores) \ {<<scores[m], m>>}
      BY <2>1, <2>3 DEF Graph, Unbind
    <2>5. ZRemove(z, m) = [kind |-> "Large", sorted |-> Graph(new), scores |-> new]
      BY <1>2, <2>1, <2>4 DEF ZRemove, LargeRemove
    <2> QED BY <2>2, <2>5, LargeZSet
  <1>3. ASSUME m \in ZMembers(z), NEW vec \in ZVecs, z = [kind |-> "Small", vec |-> vec]
        PROVE  ZRemove(z, m) \in ZSets
    <2>1. PICK i : i = (CHOOSE x \in At(vec, 2, m) : TRUE)
      OBVIOUS
    <2>2. i \in DOMAIN vec
      <3>1. At(vec, 2, m) # {}
        BY <1>3 DEF ZMembers, At
      <3> QED BY <2>1, <3>1 DEF At
    <2>3. PICK new \in ZVecs : new = RemoveAt(vec, i)
      BY <2>2, RemoveAtKeeps
    <2>4. ZRemove(z, m) = [kind |-> "Small", vec |-> new]
      BY <1>3, <2>1, <2>3 DEF ZRemove
    <2> QED BY <2>4, SmallZSet
  <1> QED BY <1>1, <1>2, <1>3, ZSetIs
-----------------------------------------------------------------------------
(* The loops over arguments.                                                *)

\* The bodies of the loops.
HInsertBody(acc, p) == <<HInsert(acc[1], p[1], p[2]),
                         IF p[1] \in HFields(acc[1]) THEN acc[2] ELSE acc[2] + 1>>
HDelBody(acc, f) == <<HDel(acc[1], f), IF f \in HFields(acc[1]) THEN acc[2] + 1 ELSE acc[2]>>
ZInsertBody(acc, p) == <<ZInsert(acc[1], p[1], p[2]),
                         IF p[2] \in ZMembers(acc[1]) THEN acc[2] ELSE acc[2] + 1>>
ZRemoveBody(acc, m) == <<ZRemove(acc[1], m),
                         IF m \in ZMembers(acc[1]) THEN acc[2] + 1 ELSE acc[2]>>
SInsertBody(acc, m) == <<acc[1] \cup {m}, IF m \in acc[1] THEN acc[2] ELSE acc[2] + 1>>
SRemoveBody(acc, m) == <<acc[1] \ {m}, IF m \in acc[1] THEN acc[2] + 1 ELSE acc[2]>>

\* A loop ends in every set X that holds its start and that its body does not
\* leave, after a step of the body if there is an argument; so for each loop.
LEMMA HInsertAllStays ==
  ASSUME NEW X, NEW Y, NEW h, <<h, 0>> \in X, NEW ms \in Seq(Y),
         \A x \in X, y \in Y : HInsertBody(x, y) \in X
  PROVE  /\ HInsertAll(h, ms) \in X
         /\ ms # <<>> => \E x \in X, y \in Y : HInsertAll(h, ms) = HInsertBody(x, y)
  <1>1. PICK b : b = <<h, 0>>
    OBVIOUS
  <1>2. PICK step : step = [q \in X \X Y |-> HInsertBody(q[1], q[2])]
    OBVIOUS
  <1>3. step \in [X \X Y -> X] /\ \A x \in X, y \in Y : step[<<x, y>>] = HInsertBody(x, y)
    BY <1>2
  <1>4. PICK g : Loop(g, X, Y, b, ms, step)
    BY <1>1, <1>3, LoopExists
  <1>5. ASSUME NEW t \in SUBSET DOMAIN ms, t # {}
        PROVE  g[t] = HInsertBody(g[t \ {Max(t)}], ms[Max(t)])
    <2>1. Position(t, ms)
      BY <1>5 DEF Position
    <2>2. StepAt(g, X, Y, ms, step, t)
      BY <1>4, <2>1, LoopSteps
    <2> QED BY <1>3, <2>2 DEF StepAt
  <1>6. g = [t \in SUBSET DOMAIN ms |->
               IF t = {} THEN b ELSE HInsertBody(g[t \ {Max(t)}], ms[Max(t)])]
    BY <1>4, <1>5 DEF Loop
  <1>7. PICK f : /\ f = [t \in SUBSET DOMAIN ms |->
                           IF t = {} THEN b ELSE HInsertBody(f[t \ {Max(t)}], ms[Max(t)])]
                 /\ HInsertAll(h, ms) = f[DOMAIN ms]
    <2>1. HInsertAll(h, ms) = FoldLeft(HInsertBody, b, ms)
      BY <1>1 DEF HInsertAll, HInsertBody, FoldLeft, MapThenFoldSet
    <2> QED BY <1>6, <2>1 DEF FoldLeft, MapThenFoldSet
  <1>8. f[{}] = b
    <2>1. {} \in SUBSET DOMAIN ms
      OBVIOUS
    <2> QED BY <1>7, <2>1, Zenon
  <1>9. ASSUME NEW t \in SUBSET DOMAIN ms, t # {}, f[t \ {Max(t)}] \in X, ms[Max(t)] \in Y
        PROVE  f[t] = step[<<f[t \ {Max(t)}], ms[Max(t)]>>]
    <2>1. f[t] = HInsertBody(f[t \ {Max(t)}], ms[Max(t)])
      BY <1>7, <1>9, Zenon
    <2> QED BY <1>3, <1>9, <2>1
  <1>10. Ends(f[DOMAIN ms], X, Y, ms, step)
    <2>1. Follows(f, X, Y, b, ms, step)
      BY <1>8, <1>9 DEF Follows
    <2> QED BY <1>4, <2>1, LoopResult
  <1>11. Ends(HInsertAll(h, ms), X, Y, ms, step)
    BY <1>7, <1>10
  <1> QED BY <1>3, <1>11 DEF Ends

LEMMA HDelAllStays ==
  ASSUME NEW X, NEW Y, NEW h, <<h, 0>> \in X, NEW ms \in Seq(Y),
         \A x \in X, y \in Y : HDelBody(x, y) \in X
  PROVE  /\ HDelAll(h, ms) \in X
         /\ ms # <<>> => \E x \in X, y \in Y : HDelAll(h, ms) = HDelBody(x, y)
  <1>1. PICK b : b = <<h, 0>>
    OBVIOUS
  <1>2. PICK step : step = [q \in X \X Y |-> HDelBody(q[1], q[2])]
    OBVIOUS
  <1>3. step \in [X \X Y -> X] /\ \A x \in X, y \in Y : step[<<x, y>>] = HDelBody(x, y)
    BY <1>2
  <1>4. PICK g : Loop(g, X, Y, b, ms, step)
    BY <1>1, <1>3, LoopExists
  <1>5. ASSUME NEW t \in SUBSET DOMAIN ms, t # {}
        PROVE  g[t] = HDelBody(g[t \ {Max(t)}], ms[Max(t)])
    <2>1. Position(t, ms)
      BY <1>5 DEF Position
    <2>2. StepAt(g, X, Y, ms, step, t)
      BY <1>4, <2>1, LoopSteps
    <2> QED BY <1>3, <2>2 DEF StepAt
  <1>6. g = [t \in SUBSET DOMAIN ms |->
               IF t = {} THEN b ELSE HDelBody(g[t \ {Max(t)}], ms[Max(t)])]
    BY <1>4, <1>5 DEF Loop
  <1>7. PICK f : /\ f = [t \in SUBSET DOMAIN ms |->
                           IF t = {} THEN b ELSE HDelBody(f[t \ {Max(t)}], ms[Max(t)])]
                 /\ HDelAll(h, ms) = f[DOMAIN ms]
    <2>1. HDelAll(h, ms) = FoldLeft(HDelBody, b, ms)
      BY <1>1 DEF HDelAll, HDelBody, FoldLeft, MapThenFoldSet
    <2> QED BY <1>6, <2>1 DEF FoldLeft, MapThenFoldSet
  <1>8. f[{}] = b
    <2>1. {} \in SUBSET DOMAIN ms
      OBVIOUS
    <2> QED BY <1>7, <2>1, Zenon
  <1>9. ASSUME NEW t \in SUBSET DOMAIN ms, t # {}, f[t \ {Max(t)}] \in X, ms[Max(t)] \in Y
        PROVE  f[t] = step[<<f[t \ {Max(t)}], ms[Max(t)]>>]
    <2>1. f[t] = HDelBody(f[t \ {Max(t)}], ms[Max(t)])
      BY <1>7, <1>9, Zenon
    <2> QED BY <1>3, <1>9, <2>1
  <1>10. Ends(f[DOMAIN ms], X, Y, ms, step)
    <2>1. Follows(f, X, Y, b, ms, step)
      BY <1>8, <1>9 DEF Follows
    <2> QED BY <1>4, <2>1, LoopResult
  <1>11. Ends(HDelAll(h, ms), X, Y, ms, step)
    BY <1>7, <1>10
  <1> QED BY <1>3, <1>11 DEF Ends

LEMMA ZInsertAllStays ==
  ASSUME NEW X, NEW Y, NEW h, <<h, 0>> \in X, NEW ms \in Seq(Y),
         \A x \in X, y \in Y : ZInsertBody(x, y) \in X
  PROVE  /\ ZInsertAll(h, ms) \in X
         /\ ms # <<>> => \E x \in X, y \in Y : ZInsertAll(h, ms) = ZInsertBody(x, y)
  <1>1. PICK b : b = <<h, 0>>
    OBVIOUS
  <1>2. PICK step : step = [q \in X \X Y |-> ZInsertBody(q[1], q[2])]
    OBVIOUS
  <1>3. step \in [X \X Y -> X] /\ \A x \in X, y \in Y : step[<<x, y>>] = ZInsertBody(x, y)
    BY <1>2
  <1>4. PICK g : Loop(g, X, Y, b, ms, step)
    BY <1>1, <1>3, LoopExists
  <1>5. ASSUME NEW t \in SUBSET DOMAIN ms, t # {}
        PROVE  g[t] = ZInsertBody(g[t \ {Max(t)}], ms[Max(t)])
    <2>1. Position(t, ms)
      BY <1>5 DEF Position
    <2>2. StepAt(g, X, Y, ms, step, t)
      BY <1>4, <2>1, LoopSteps
    <2> QED BY <1>3, <2>2 DEF StepAt
  <1>6. g = [t \in SUBSET DOMAIN ms |->
               IF t = {} THEN b ELSE ZInsertBody(g[t \ {Max(t)}], ms[Max(t)])]
    BY <1>4, <1>5 DEF Loop
  <1>7. PICK f : /\ f = [t \in SUBSET DOMAIN ms |->
                           IF t = {} THEN b ELSE ZInsertBody(f[t \ {Max(t)}], ms[Max(t)])]
                 /\ ZInsertAll(h, ms) = f[DOMAIN ms]
    <2>1. ZInsertAll(h, ms) = FoldLeft(ZInsertBody, b, ms)
      BY <1>1 DEF ZInsertAll, ZInsertBody, FoldLeft, MapThenFoldSet
    <2> QED BY <1>6, <2>1 DEF FoldLeft, MapThenFoldSet
  <1>8. f[{}] = b
    <2>1. {} \in SUBSET DOMAIN ms
      OBVIOUS
    <2> QED BY <1>7, <2>1, Zenon
  <1>9. ASSUME NEW t \in SUBSET DOMAIN ms, t # {}, f[t \ {Max(t)}] \in X, ms[Max(t)] \in Y
        PROVE  f[t] = step[<<f[t \ {Max(t)}], ms[Max(t)]>>]
    <2>1. f[t] = ZInsertBody(f[t \ {Max(t)}], ms[Max(t)])
      BY <1>7, <1>9, Zenon
    <2> QED BY <1>3, <1>9, <2>1
  <1>10. Ends(f[DOMAIN ms], X, Y, ms, step)
    <2>1. Follows(f, X, Y, b, ms, step)
      BY <1>8, <1>9 DEF Follows
    <2> QED BY <1>4, <2>1, LoopResult
  <1>11. Ends(ZInsertAll(h, ms), X, Y, ms, step)
    BY <1>7, <1>10
  <1> QED BY <1>3, <1>11 DEF Ends

LEMMA ZRemoveAllStays ==
  ASSUME NEW X, NEW Y, NEW h, <<h, 0>> \in X, NEW ms \in Seq(Y),
         \A x \in X, y \in Y : ZRemoveBody(x, y) \in X
  PROVE  /\ ZRemoveAll(h, ms) \in X
         /\ ms # <<>> => \E x \in X, y \in Y : ZRemoveAll(h, ms) = ZRemoveBody(x, y)
  <1>1. PICK b : b = <<h, 0>>
    OBVIOUS
  <1>2. PICK step : step = [q \in X \X Y |-> ZRemoveBody(q[1], q[2])]
    OBVIOUS
  <1>3. step \in [X \X Y -> X] /\ \A x \in X, y \in Y : step[<<x, y>>] = ZRemoveBody(x, y)
    BY <1>2
  <1>4. PICK g : Loop(g, X, Y, b, ms, step)
    BY <1>1, <1>3, LoopExists
  <1>5. ASSUME NEW t \in SUBSET DOMAIN ms, t # {}
        PROVE  g[t] = ZRemoveBody(g[t \ {Max(t)}], ms[Max(t)])
    <2>1. Position(t, ms)
      BY <1>5 DEF Position
    <2>2. StepAt(g, X, Y, ms, step, t)
      BY <1>4, <2>1, LoopSteps
    <2> QED BY <1>3, <2>2 DEF StepAt
  <1>6. g = [t \in SUBSET DOMAIN ms |->
               IF t = {} THEN b ELSE ZRemoveBody(g[t \ {Max(t)}], ms[Max(t)])]
    BY <1>4, <1>5 DEF Loop
  <1>7. PICK f : /\ f = [t \in SUBSET DOMAIN ms |->
                           IF t = {} THEN b ELSE ZRemoveBody(f[t \ {Max(t)}], ms[Max(t)])]
                 /\ ZRemoveAll(h, ms) = f[DOMAIN ms]
    <2>1. ZRemoveAll(h, ms) = FoldLeft(ZRemoveBody, b, ms)
      BY <1>1 DEF ZRemoveAll, ZRemoveBody, FoldLeft, MapThenFoldSet
    <2> QED BY <1>6, <2>1 DEF FoldLeft, MapThenFoldSet
  <1>8. f[{}] = b
    <2>1. {} \in SUBSET DOMAIN ms
      OBVIOUS
    <2> QED BY <1>7, <2>1, Zenon
  <1>9. ASSUME NEW t \in SUBSET DOMAIN ms, t # {}, f[t \ {Max(t)}] \in X, ms[Max(t)] \in Y
        PROVE  f[t] = step[<<f[t \ {Max(t)}], ms[Max(t)]>>]
    <2>1. f[t] = ZRemoveBody(f[t \ {Max(t)}], ms[Max(t)])
      BY <1>7, <1>9, Zenon
    <2> QED BY <1>3, <1>9, <2>1
  <1>10. Ends(f[DOMAIN ms], X, Y, ms, step)
    <2>1. Follows(f, X, Y, b, ms, step)
      BY <1>8, <1>9 DEF Follows
    <2> QED BY <1>4, <2>1, LoopResult
  <1>11. Ends(ZRemoveAll(h, ms), X, Y, ms, step)
    BY <1>7, <1>10
  <1> QED BY <1>3, <1>11 DEF Ends

LEMMA SInsertAllStays ==
  ASSUME NEW X, NEW Y, NEW h, <<h, 0>> \in X, NEW ms \in Seq(Y),
         \A x \in X, y \in Y : SInsertBody(x, y) \in X
  PROVE  /\ SInsertAll(h, ms) \in X
         /\ ms # <<>> => \E x \in X, y \in Y : SInsertAll(h, ms) = SInsertBody(x, y)
  <1>1. PICK b : b = <<h, 0>>
    OBVIOUS
  <1>2. PICK step : step = [q \in X \X Y |-> SInsertBody(q[1], q[2])]
    OBVIOUS
  <1>3. step \in [X \X Y -> X] /\ \A x \in X, y \in Y : step[<<x, y>>] = SInsertBody(x, y)
    BY <1>2
  <1>4. PICK g : Loop(g, X, Y, b, ms, step)
    BY <1>1, <1>3, LoopExists
  <1>5. ASSUME NEW t \in SUBSET DOMAIN ms, t # {}
        PROVE  g[t] = SInsertBody(g[t \ {Max(t)}], ms[Max(t)])
    <2>1. Position(t, ms)
      BY <1>5 DEF Position
    <2>2. StepAt(g, X, Y, ms, step, t)
      BY <1>4, <2>1, LoopSteps
    <2> QED BY <1>3, <2>2 DEF StepAt
  <1>6. g = [t \in SUBSET DOMAIN ms |->
               IF t = {} THEN b ELSE SInsertBody(g[t \ {Max(t)}], ms[Max(t)])]
    BY <1>4, <1>5 DEF Loop
  <1>7. PICK f : /\ f = [t \in SUBSET DOMAIN ms |->
                           IF t = {} THEN b ELSE SInsertBody(f[t \ {Max(t)}], ms[Max(t)])]
                 /\ SInsertAll(h, ms) = f[DOMAIN ms]
    <2>1. SInsertAll(h, ms) = FoldLeft(SInsertBody, b, ms)
      BY <1>1 DEF SInsertAll, SInsertBody, FoldLeft, MapThenFoldSet
    <2> QED BY <1>6, <2>1 DEF FoldLeft, MapThenFoldSet
  <1>8. f[{}] = b
    <2>1. {} \in SUBSET DOMAIN ms
      OBVIOUS
    <2> QED BY <1>7, <2>1, Zenon
  <1>9. ASSUME NEW t \in SUBSET DOMAIN ms, t # {}, f[t \ {Max(t)}] \in X, ms[Max(t)] \in Y
        PROVE  f[t] = step[<<f[t \ {Max(t)}], ms[Max(t)]>>]
    <2>1. f[t] = SInsertBody(f[t \ {Max(t)}], ms[Max(t)])
      BY <1>7, <1>9, Zenon
    <2> QED BY <1>3, <1>9, <2>1
  <1>10. Ends(f[DOMAIN ms], X, Y, ms, step)
    <2>1. Follows(f, X, Y, b, ms, step)
      BY <1>8, <1>9 DEF Follows
    <2> QED BY <1>4, <2>1, LoopResult
  <1>11. Ends(SInsertAll(h, ms), X, Y, ms, step)
    BY <1>7, <1>10
  <1> QED BY <1>3, <1>11 DEF Ends

LEMMA SRemoveAllStays ==
  ASSUME NEW X, NEW Y, NEW h, <<h, 0>> \in X, NEW ms \in Seq(Y),
         \A x \in X, y \in Y : SRemoveBody(x, y) \in X
  PROVE  /\ SRemoveAll(h, ms) \in X
         /\ ms # <<>> => \E x \in X, y \in Y : SRemoveAll(h, ms) = SRemoveBody(x, y)
  <1>1. PICK b : b = <<h, 0>>
    OBVIOUS
  <1>2. PICK step : step = [q \in X \X Y |-> SRemoveBody(q[1], q[2])]
    OBVIOUS
  <1>3. step \in [X \X Y -> X] /\ \A x \in X, y \in Y : step[<<x, y>>] = SRemoveBody(x, y)
    BY <1>2
  <1>4. PICK g : Loop(g, X, Y, b, ms, step)
    BY <1>1, <1>3, LoopExists
  <1>5. ASSUME NEW t \in SUBSET DOMAIN ms, t # {}
        PROVE  g[t] = SRemoveBody(g[t \ {Max(t)}], ms[Max(t)])
    <2>1. Position(t, ms)
      BY <1>5 DEF Position
    <2>2. StepAt(g, X, Y, ms, step, t)
      BY <1>4, <2>1, LoopSteps
    <2> QED BY <1>3, <2>2 DEF StepAt
  <1>6. g = [t \in SUBSET DOMAIN ms |->
               IF t = {} THEN b ELSE SRemoveBody(g[t \ {Max(t)}], ms[Max(t)])]
    BY <1>4, <1>5 DEF Loop
  <1>7. PICK f : /\ f = [t \in SUBSET DOMAIN ms |->
                           IF t = {} THEN b ELSE SRemoveBody(f[t \ {Max(t)}], ms[Max(t)])]
                 /\ SRemoveAll(h, ms) = f[DOMAIN ms]
    <2>1. SRemoveAll(h, ms) = FoldLeft(SRemoveBody, b, ms)
      BY <1>1 DEF SRemoveAll, SRemoveBody, FoldLeft, MapThenFoldSet
    <2> QED BY <1>6, <2>1 DEF FoldLeft, MapThenFoldSet
  <1>8. f[{}] = b
    <2>1. {} \in SUBSET DOMAIN ms
      OBVIOUS
    <2> QED BY <1>7, <2>1, Zenon
  <1>9. ASSUME NEW t \in SUBSET DOMAIN ms, t # {}, f[t \ {Max(t)}] \in X, ms[Max(t)] \in Y
        PROVE  f[t] = step[<<f[t \ {Max(t)}], ms[Max(t)]>>]
    <2>1. f[t] = SRemoveBody(f[t \ {Max(t)}], ms[Max(t)])
      BY <1>7, <1>9, Zenon
    <2> QED BY <1>3, <1>9, <2>1
  <1>10. Ends(f[DOMAIN ms], X, Y, ms, step)
    <2>1. Follows(f, X, Y, b, ms, step)
      BY <1>8, <1>9 DEF Follows
    <2> QED BY <1>4, <2>1, LoopResult
  <1>11. Ends(SRemoveAll(h, ms), X, Y, ms, step)
    BY <1>7, <1>10
  <1> QED BY <1>3, <1>11 DEF Ends

\* What the loops leave is well formed, and after an insertion not empty.
LEMMA HInsertAllKeeps ==
  ASSUME NEW V, NEW h \in Hashes(V), NEW ms \in Seq(Int \X V)
  PROVE  /\ HInsertAll(h, ms)[1] \in Hashes(V)
         /\ ms # <<>> => HFields(HInsertAll(h, ms)[1]) # {}
  <1>1. PICK X, Y : X = Hashes(V) \X Int /\ Y = Int \X V
    OBVIOUS
  <1>2. ASSUME NEW x \in X, NEW y \in Y
        PROVE  HInsertBody(x, y) \in X /\ HFields(HInsertBody(x, y)[1]) # {}
    <2>1. x[1] \in Hashes(V) /\ x[2] \in Int /\ y[1] \in Int /\ y[2] \in V
      BY <1>1
    <2>2. HInsert(x[1], y[1], y[2]) \in Hashes(V) /\ y[1] \in HFields(HInsert(x[1], y[1], y[2]))
      BY <2>1, HInsertKeeps
    <2>3. (IF y[1] \in HFields(x[1]) THEN x[2] ELSE x[2] + 1) \in Int
      BY <2>1
    <2> QED BY <1>1, <2>2, <2>3 DEF HInsertBody
  <1>3. <<h, 0>> \in X /\ ms \in Seq(Y)
    BY <1>1
  <1>4. /\ HInsertAll(h, ms) \in X
        /\ ms # <<>> => \E x \in X, y \in Y : HInsertAll(h, ms) = HInsertBody(x, y)
    BY <1>2, <1>3, HInsertAllStays
  <1> QED BY <1>1, <1>2, <1>4

LEMMA HDelAllKeeps ==
  ASSUME NEW V, NEW h \in Hashes(V), NEW ms \in Seq(Int)
  PROVE  HDelAll(h, ms)[1] \in Hashes(V)
  <1>1. PICK X : X = Hashes(V) \X Int
    OBVIOUS
  <1>2. ASSUME NEW x \in X, NEW y \in Int PROVE HDelBody(x, y) \in X
    <2>1. x[1] \in Hashes(V) /\ x[2] \in Int
      BY <1>1
    <2>2. HDel(x[1], y) \in Hashes(V)
      BY <2>1, HDelKeeps
    <2>3. (IF y \in HFields(x[1]) THEN x[2] + 1 ELSE x[2]) \in Int
      BY <2>1
    <2> QED BY <1>1, <2>2, <2>3 DEF HDelBody
  <1>3. <<h, 0>> \in X
    BY <1>1
  <1>4. HDelAll(h, ms) \in X
    BY <1>2, <1>3, HDelAllStays
  <1> QED BY <1>1, <1>4

LEMMA ZInsertAllKeeps ==
  ASSUME NEW z \in ZSets, NEW ms \in Seq(Int \X Int)
  PROVE  /\ ZInsertAll(z, ms)[1] \in ZSets
         /\ ms # <<>> => ZMembers(ZInsertAll(z, ms)[1]) # {}
  <1>1. PICK X, Y : X = ZSets \X Int /\ Y = Int \X Int
    OBVIOUS
  <1>2. ASSUME NEW x \in X, NEW y \in Y
        PROVE  ZInsertBody(x, y) \in X /\ ZMembers(ZInsertBody(x, y)[1]) # {}
    <2>1. x[1] \in ZSets /\ x[2] \in Int /\ y[1] \in Int /\ y[2] \in Int
      BY <1>1
    <2>2. ZInsert(x[1], y[1], y[2]) \in ZSets /\ y[2] \in ZMembers(ZInsert(x[1], y[1], y[2]))
      BY <2>1, ZInsertKeeps
    <2>3. (IF y[2] \in ZMembers(x[1]) THEN x[2] ELSE x[2] + 1) \in Int
      BY <2>1
    <2> QED BY <1>1, <2>2, <2>3 DEF ZInsertBody
  <1>3. <<z, 0>> \in X /\ ms \in Seq(Y)
    BY <1>1
  <1>4. /\ ZInsertAll(z, ms) \in X
        /\ ms # <<>> => \E x \in X, y \in Y : ZInsertAll(z, ms) = ZInsertBody(x, y)
    BY <1>2, <1>3, ZInsertAllStays
  <1> QED BY <1>1, <1>2, <1>4

LEMMA ZRemoveAllKeeps ==
  ASSUME NEW z \in ZSets, NEW ms \in Seq(Int)
  PROVE  ZRemoveAll(z, ms)[1] \in ZSets
  <1>1. PICK X : X = ZSets \X Int
    OBVIOUS
  <1>2. ASSUME NEW x \in X, NEW y \in Int PROVE ZRemoveBody(x, y) \in X
    <2>1. x[1] \in ZSets /\ x[2] \in Int
      BY <1>1
    <2>2. ZRemove(x[1], y) \in ZSets
      BY <2>1, ZRemoveKeeps
    <2>3. (IF y \in ZMembers(x[1]) THEN x[2] + 1 ELSE x[2]) \in Int
      BY <2>1
    <2> QED BY <1>1, <2>2, <2>3 DEF ZRemoveBody
  <1>3. <<z, 0>> \in X
    BY <1>1
  <1>4. ZRemoveAll(z, ms) \in X
    BY <1>2, <1>3, ZRemoveAllStays
  <1> QED BY <1>1, <1>4

LEMMA SInsertAllKeeps ==
  ASSUME NEW s \in SUBSET Int, NEW ms \in Seq(Int)
  PROVE  SInsertAll(s, ms)[1] \in SUBSET Int
  <1>0. PICK S : S = SUBSET Int
    OBVIOUS
  <1>1. PICK X : X = S \X Int
    OBVIOUS
  <1>2. ASSUME NEW x \in X, NEW y \in Int PROVE SInsertBody(x, y) \in X
    <2>1. x[1] \in S /\ x[2] \in Int
      BY <1>1
    <2>2. (x[1] \cup {y}) \in S
      BY <1>0, <2>1
    <2>3. (IF y \in x[1] THEN x[2] ELSE x[2] + 1) \in Int
      BY <2>1
    <2> QED BY <1>1, <2>2, <2>3 DEF SInsertBody
  <1>3. <<s, 0>> \in X
    <2>1. s \in S
      BY <1>0
    <2> QED BY <1>1, <2>1
  <1>4. SInsertAll(s, ms) \in X
    BY <1>2, <1>3, SInsertAllStays
  <1> QED BY <1>0, <1>1, <1>4

LEMMA SRemoveAllKeeps ==
  ASSUME NEW s \in SUBSET Int, NEW ms \in Seq(Int)
  PROVE  SRemoveAll(s, ms)[1] \in SUBSET Int
  <1>0. PICK S : S = SUBSET Int
    OBVIOUS
  <1>1. PICK X : X = S \X Int
    OBVIOUS
  <1>2. ASSUME NEW x \in X, NEW y \in Int PROVE SRemoveBody(x, y) \in X
    <2>1. x[1] \in S /\ x[2] \in Int
      BY <1>1
    <2>2. (x[1] \ {y}) \in S
      BY <1>0, <2>1
    <2>3. (IF y \in x[1] THEN x[2] + 1 ELSE x[2]) \in Int
      BY <2>1
    <2> QED BY <1>1, <2>2, <2>3 DEF SRemoveBody
  <1>3. <<s, 0>> \in X
    <2>1. s \in S
      BY <1>0
    <2> QED BY <1>1, <2>1
  <1>4. SRemoveAll(s, ms) \in X
    BY <1>2, <1>3, SRemoveAllStays
  <1> QED BY <1>0, <1>1, <1>4

-----------------------------------------------------------------------------
(* The store.                                                               *)

HashTexts == Texts \cup ({"num"} \X Int)

CollsOf(t) == IF t = "Hash" THEN Hashes(HashTexts) ELSE IF t = "Set" THEN SUBSET Int ELSE ZSets

\* What a node may hold.
Entries ==
  {n \in [tag : {"Bytes", "Int"} \cup SlabTags, val : Texts \cup Int, exp : 0 .. NoExpiracy] :
     /\ n.tag = "Bytes" => n.val \in Texts
     /\ n.tag = "Int" => n.val \in MinInt .. MaxInt
     /\ n.tag \in SlabTags => n.val \in SlabIdx}

Nodes == UNION {[D -> Entries] : D \in SUBSET Keys}

Slots(t) == UNION {[D -> CollsOf(t)] : D \in SUBSET SlabIdx}
Slabs == {S \in [SlabTags -> UNION {Slots(t) : t \in SlabTags}] : \A t \in SlabTags : S[t] \in Slots(t)}

\* The node of key k holds slot i of slab t.
Owns(N, k, t, i) == k \in DOMAIN N /\ N[k].tag = t /\ N[k].val = i

\* Nodes and slots belong to each other, one to one.
Linked(N, S) ==
  \A t \in SlabTags :
    /\ \A k, i : Owns(N, k, t, i) => i \in DOMAIN S[t]
    /\ \A i \in DOMAIN S[t] : \E k : Owns(N, k, t, i)
    /\ \A j, k, i : Owns(N, j, t, i) /\ Owns(N, k, t, i) => j = k

\* No node but that of key x, perhaps, has an empty hash or sorted set.
FullBut(N, S, x) ==
  \A k \in DOMAIN N :
    k # x /\ N[k].tag \in {"Hash", "ZSet"} => ~IsEmpty(N[k].tag, S[N[k].tag][N[k].val])
Full(N, S) ==
  \A k \in DOMAIN N :
    N[k].tag \in {"Hash", "ZSet"} => ~IsEmpty(N[k].tag, S[N[k].tag][N[k].val])

Arts == {a \in [nodes : Nodes, slabs : Slabs] : Linked(a.nodes, a.slabs)}
FullArts == {a \in Arts : Full(a.nodes, a.slabs)}

-----------------------------------------------------------------------------
(* Nodes and slabs.                                                         *)

LEMMA NodesShape ==
  ASSUME NEW N \in Nodes
  PROVE  DOMAIN N \in SUBSET Keys /\ \A k \in DOMAIN N : N[k] \in Entries
  BY DEF Nodes

LEMMA BindNode ==
  ASSUME NEW N \in Nodes, NEW k \in Keys, NEW n \in Entries
  PROVE  Bind(N, k, n) \in Nodes
  <1>1. PICK D \in SUBSET Keys : N \in [D -> Entries]
    BY DEF Nodes
  <1>2. PICK E : E = D \cup {k}
    OBVIOUS
  <1>3. E \in SUBSET Keys /\ Bind(N, k, n) \in [E -> Entries]
    BY <1>1, <1>2 DEF Bind
  <1> QED BY <1>3 DEF Nodes

LEMMA UnbindNode ==
  ASSUME NEW N \in Nodes, NEW k
  PROVE  Unbind(N, k) \in Nodes
  <1>1. PICK D \in SUBSET Keys : N \in [D -> Entries]
    BY DEF Nodes
  <1>2. PICK E : E = D \ {k}
    OBVIOUS
  <1>3. E \in SUBSET Keys /\ Unbind(N, k) \in [E -> Entries]
    BY <1>1, <1>2 DEF Unbind
  <1> QED BY <1>3 DEF Nodes

LEMMA SlotsShape ==
  ASSUME NEW S \in Slabs, NEW t \in SlabTags
  PROVE  /\ S[t] \in Slots(t) /\ DOMAIN S = SlabTags
         /\ DOMAIN S[t] \in SUBSET SlabIdx
         /\ \A i \in DOMAIN S[t] : S[t][i] \in CollsOf(t)
  BY DEF Slabs, Slots

With(S, t, f) == [S EXCEPT ![t] = f]

\* A slab may be replaced by another of its type.
LEMMA ReplaceSlab ==
  ASSUME NEW S \in Slabs, NEW t \in SlabTags, NEW f \in Slots(t)
  PROVE  With(S, t, f) \in Slabs
  <1>1. With(S, t, f) \in [SlabTags -> UNION {Slots(u) : u \in SlabTags}]
    BY DEF Slabs, With
  <1>2. \A u \in SlabTags : With(S, t, f)[u] \in Slots(u)
    BY DEF Slabs, With
  <1> QED BY <1>1, <1>2 DEF Slabs

LEMMA BindSlot ==
  ASSUME NEW t, NEW f \in Slots(t), NEW i \in SlabIdx, NEW c \in CollsOf(t)
  PROVE  Bind(f, i, c) \in Slots(t)
  <1>1. PICK D \in SUBSET SlabIdx : f \in [D -> CollsOf(t)]
    BY DEF Slots
  <1>2. PICK E : E = D \cup {i}
    OBVIOUS
  <1>3. E \in SUBSET SlabIdx /\ Bind(f, i, c) \in [E -> CollsOf(t)]
    BY <1>1, <1>2 DEF Bind
  <1> QED BY <1>3 DEF Slots

LEMMA UnbindSlot ==
  ASSUME NEW t, NEW f \in Slots(t), NEW i
  PROVE  Unbind(f, i) \in Slots(t)
  <1>1. PICK D \in SUBSET SlabIdx : f \in [D -> CollsOf(t)]
    BY DEF Slots
  <1>2. PICK E : E = D \ {i}
    OBVIOUS
  <1>3. E \in SUBSET SlabIdx /\ Unbind(f, i) \in [E -> CollsOf(t)]
    BY <1>1, <1>2 DEF Unbind
  <1> QED BY <1>3 DEF Slots

LEMMA PutSlot ==
  ASSUME NEW t, NEW f \in Slots(t), NEW i \in DOMAIN f, NEW c \in CollsOf(t)
  PROVE  [f EXCEPT ![i] = c] \in Slots(t)
  <1>1. PICK D \in SUBSET SlabIdx : f \in [D -> CollsOf(t)]
    BY DEF Slots
  <1>2. [f EXCEPT ![i] = c] \in [D -> CollsOf(t)]
    BY <1>1
  <1> QED BY <1>2 DEF Slots

-----------------------------------------------------------------------------
(* The changes of the store keep nodes and slots linked.                    *)

\* A node without a slot goes.
LEMMA UnlinkPlain ==
  ASSUME NEW N \in Nodes, NEW S \in Slabs, Linked(N, S),
         NEW k \in DOMAIN N, N[k].tag \notin SlabTags
  PROVE  Linked(Unbind(N, k), S)
  <1>1. \A j, t, i : t \in SlabTags => (Owns(Unbind(N, k), j, t, i) <=> Owns(N, j, t, i))
    BY DEF Owns, Unbind
  <1> QED BY <1>1 DEF Linked

\* A node goes with its slot.
LEMMA UnlinkSlot ==
  ASSUME NEW N \in Nodes, NEW S \in Slabs, Linked(N, S),
         NEW k \in DOMAIN N, NEW t \in SlabTags, NEW i, N[k].tag = t, N[k].val = i
  PROVE  Linked(Unbind(N, k), With(S, t, Unbind(S[t], i)))
  <1>1. PICK M, R : M = Unbind(N, k) /\ R = With(S, t, Unbind(S[t], i))
    OBVIOUS
  <1>2. \A j, u, x : Owns(M, j, u, x) <=> Owns(N, j, u, x) /\ j # k
    BY <1>1 DEF Owns, Unbind
  <1>3. DOMAIN S = SlabTags
    BY DEF Slabs
  <1>4. \A u \in SlabTags : DOMAIN R[u] = IF u = t THEN DOMAIN S[u] \ {i} ELSE DOMAIN S[u]
    BY <1>1, <1>3 DEF Unbind, With
  <1>5. Owns(N, k, t, i)
    BY DEF Owns
  <1>6. \A u, x : Owns(N, k, u, x) => u = t /\ x = i
    BY DEF Owns
  <1>7. ASSUME NEW u \in SlabTags
        PROVE  /\ \A j, x : Owns(M, j, u, x) => x \in DOMAIN R[u]
               /\ \A x \in DOMAIN R[u] : \E j : Owns(M, j, u, x)
               /\ \A j, l, x : Owns(M, j, u, x) /\ Owns(M, l, u, x) => j = l
    <2>1. /\ \A j, x : Owns(N, j, u, x) => x \in DOMAIN S[u]
          /\ \A x \in DOMAIN S[u] : \E j : Owns(N, j, u, x)
          /\ \A j, l, x : Owns(N, j, u, x) /\ Owns(N, l, u, x) => j = l
      BY DEF Linked
    <2>2. ASSUME NEW j, NEW x, Owns(M, j, u, x) PROVE x \in DOMAIN R[u]
      <3>1. Owns(N, j, u, x) /\ j # k
        BY <1>2, <2>2
      <3>2. x \in DOMAIN S[u]
        BY <2>1, <3>1
      <3>3. CASE u = t
        <4>1. x # i
          BY <1>5, <2>1, <3>1, <3>3
        <4> QED BY <1>4, <3>2, <3>3, <4>1
      <3>4. CASE u # t
        BY <1>4, <3>2, <3>4
      <3> QED BY <3>3, <3>4
    <2>3. ASSUME NEW x \in DOMAIN R[u] PROVE \E j : Owns(M, j, u, x)
      <3>1. x \in DOMAIN S[u] /\ (u = t => x # i)
        BY <1>4
      <3>2. PICK j : Owns(N, j, u, x)
        BY <2>1, <3>1
      <3>3. j # k
        BY <1>6, <3>1, <3>2
      <3> QED BY <1>2, <3>2, <3>3
    <2>4. \A j, l, x : Owns(M, j, u, x) /\ Owns(M, l, u, x) => j = l
      BY <1>2, <2>1
    <2> QED BY <2>2, <2>3, <2>4
  <1> QED BY <1>1, <1>7 DEF Linked

\* A node without a slot comes.
LEMMA LinkPlain ==
  ASSUME NEW N \in Nodes, NEW S \in Slabs, Linked(N, S),
         NEW k \in Keys, k \notin DOMAIN N, NEW n \in Entries, n.tag \notin SlabTags
  PROVE  Linked(Bind(N, k, n), S)
  <1>1. \A j, t, i : t \in SlabTags => (Owns(Bind(N, k, n), j, t, i) <=> Owns(N, j, t, i))
    BY DEF Owns, Bind
  <1> QED BY <1>1 DEF Linked

\* A node comes with a slot that was free.
LEMMA LinkSlot ==
  ASSUME NEW N \in Nodes, NEW S \in Slabs, Linked(N, S),
         NEW k \in Keys, k \notin DOMAIN N, NEW n \in Entries,
         NEW t \in SlabTags, NEW i, n.tag = t, n.val = i, i \notin DOMAIN S[t], NEW c
  PROVE  Linked(Bind(N, k, n), With(S, t, Bind(S[t], i, c)))
  <1>1. PICK M, R : M = Bind(N, k, n) /\ R = With(S, t, Bind(S[t], i, c))
    OBVIOUS
  <1>2. \A j, u, x : Owns(M, j, u, x) <=> Owns(N, j, u, x) \/ (j = k /\ u = t /\ x = i)
    BY <1>1 DEF Owns, Bind
  <1>3. DOMAIN S = SlabTags
    BY DEF Slabs
  <1>4. \A u \in SlabTags : DOMAIN R[u] = IF u = t THEN DOMAIN S[u] \cup {i} ELSE DOMAIN S[u]
    BY <1>1, <1>3 DEF Bind, With
  <1>5. ASSUME NEW u \in SlabTags
        PROVE  /\ \A j, x : Owns(M, j, u, x) => x \in DOMAIN R[u]
               /\ \A x \in DOMAIN R[u] : \E j : Owns(M, j, u, x)
               /\ \A j, l, x : Owns(M, j, u, x) /\ Owns(M, l, u, x) => j = l
    <2>1. /\ \A j, x : Owns(N, j, u, x) => x \in DOMAIN S[u]
          /\ \A x \in DOMAIN S[u] : \E j : Owns(N, j, u, x)
          /\ \A j, l, x : Owns(N, j, u, x) /\ Owns(N, l, u, x) => j = l
      BY DEF Linked
    <2>2. \A j, x : Owns(M, j, u, x) => x \in DOMAIN R[u]
      BY <1>2, <1>4, <2>1
    <2>3. ASSUME NEW x \in DOMAIN R[u] PROVE \E j : Owns(M, j, u, x)
      <3>1. x \in DOMAIN S[u] \/ (u = t /\ x = i)
        BY <1>4
      <3>2. CASE x \in DOMAIN S[u]
        <4>1. PICK j : Owns(N, j, u, x)
          BY <2>1, <3>2
        <4> QED BY <1>2, <4>1
      <3>3. CASE u = t /\ x = i
        BY <1>2, <3>3
      <3> QED BY <3>1, <3>2, <3>3
    <2>4. \A j, l, x : Owns(M, j, u, x) /\ Owns(M, l, u, x) => j = l
      BY <1>2, <2>1
    <2> QED BY <2>2, <2>3, <2>4
  <1> QED BY <1>1, <1>5 DEF Linked

-----------------------------------------------------------------------------
(* A slot is free for a key that is not there: every slot in use has a key  *)
(* of its own, and there are as many slots as keys.                         *)

LEMMA LeastExists ==
  ASSUME NEW n \in Nat, NEW F \in SUBSET (1 .. n), F # {}
  PROVE  \E x \in F : \A y \in F : x <= y
  <1>1. PICK G : G = {i \in 1 .. n : (n + 1) - i \in F}
    OBVIOUS
  <1>2. G \in SUBSET (1 .. n) /\ G # {}
    <2>1. PICK x : x \in F
      OBVIOUS
    <2>2. (n + 1) - x \in 1 .. n /\ (n + 1) - ((n + 1) - x) = x
      BY <2>1
    <2> QED BY <1>1, <2>1, <2>2
  <1>3. PICK m : m = Max(G)
    OBVIOUS
  <1>4. m \in G /\ \A y \in G : y <= m
    BY <1>2, <1>3, MaxIsGreatest
  <1>5. ASSUME NEW y \in F PROVE (n + 1) - m <= y
    <2>1. y \in 1 .. n /\ (n + 1) - y \in 1 .. n /\ (n + 1) - ((n + 1) - y) = y
      OBVIOUS
    <2>2. (n + 1) - y \in G
      BY <1>1, <2>1
    <2>3. (n + 1) - y <= m /\ m \in Int
      BY <1>1, <1>4, <2>2
    <2> QED BY <2>1, <2>3
  <1> QED BY <1>1, <1>4, <1>5

LEMMA FreeSlotIsFree ==
  ASSUME NEW N \in Nodes, NEW S \in Slabs, Linked(N, S), NEW k \in Keys, k \notin DOMAIN N,
         NEW t \in SlabTags
  PROVE  FreeSlot([nodes |-> N, slabs |-> S], t) \in SlabIdx \ DOMAIN S[t]
  <1>1. PICK n : n = Cardinality(Keys)
    OBVIOUS
  <1>2. n \in Nat /\ IsFiniteSet(Keys)
    BY <1>1, CommandAssumptions, FS_CardinalityType
  <1>3. SlabIdx = 1 .. n
    BY <1>1 DEF SlabIdx
  <1>4. PICK F : F = SlabIdx \ DOMAIN S[t]
    OBVIOUS
  <1>5. F # {}
    <2> SUFFICES ASSUME F = {} PROVE FALSE
      OBVIOUS
    <2>1. \A i \in 1 .. n : \E j : Owns(N, j, t, i)
      BY <1>3, <1>4 DEF Linked
    <2>2. PICK f : f = [i \in 1 .. n |-> CHOOSE j : Owns(N, j, t, i)]
      OBVIOUS
    <2>3. \A i \in 1 .. n : Owns(N, f[i], t, i)
      BY <2>1, <2>2
    <2>4. \A i \in 1 .. n : f[i] \in Keys \ {k}
      BY <2>3, NodesShape DEF Owns
    <2>5. \A i, j \in 1 .. n : f[i] = f[j] => i = j
      BY <2>3 DEF Owns
    <2>6. f \in [1 .. n -> Keys \ {k}]
      BY <2>2, <2>4
    <2>7. f \in Injection(1 .. n, Keys \ {k})
      BY <2>5, <2>6, Fun_IsInj
    <2>8. IsFiniteSet(Keys \ {k}) /\ Cardinality(Keys \ {k}) = n - 1
      BY <1>1, <1>2, FS_RemoveElement
    <2>9. Cardinality(1 .. n) <= Cardinality(Keys \ {k})
      BY <2>7, <2>8, FS_Injection
    <2>10. Cardinality(1 .. n) = n
      BY <1>2, FS_Interval
    <2> QED BY <1>2, <2>8, <2>9, <2>10
  <1>6. \E x \in F : \A y \in F : x <= y
    BY <1>2, <1>3, <1>4, <1>5, LeastExists
  <1>7. FreeSlot([nodes |-> N, slabs |-> S], t) \in F
    <2>1. FreeSlot([nodes |-> N, slabs |-> S], t) = CHOOSE i \in F : \A j \in F : i <= j
      BY <1>4 DEF FreeSlot
    <2> QED BY <1>6, <2>1
  <1> QED BY <1>4, <1>7

-----------------------------------------------------------------------------
(* The changes of the store keep it well formed.                            *)

Art(N, S) == [nodes |-> N, slabs |-> S]

LEMMA ArtIs ==
  ASSUME NEW a \in Arts
  PROVE  \E N \in Nodes, S \in Slabs : a = Art(N, S) /\ Linked(N, S)
  BY DEF Arts, Art

LEMMA ArtFields ==
  ASSUME NEW N, NEW S
  PROVE  Art(N, S).nodes = N /\ Art(N, S).slabs = S
  BY DEF Art

LEMMA MakeArt ==
  ASSUME NEW N \in Nodes, NEW S \in Slabs, Linked(N, S)
  PROVE  Art(N, S) \in Arts
  BY DEF Arts, Art

\* The slabs without the slot of node n, if it has one.
Released(S, n) == IF n.tag \in SlabTags THEN With(S, n.tag, Unbind(S[n.tag], n.val)) ELSE S

LEMMA ReleaseKeeps ==
  ASSUME NEW N \in Nodes, NEW S \in Slabs, Linked(N, S), NEW k \in DOMAIN N, FullBut(N, S, k)
  PROVE  /\ Unbind(N, k) \in Nodes /\ Released(S, N[k]) \in Slabs
         /\ Linked(Unbind(N, k), Released(S, N[k])) /\ Full(Unbind(N, k), Released(S, N[k]))
  <1>1. PICK M, R : M = Unbind(N, k) /\ R = Released(S, N[k])
    OBVIOUS
  <1>2. M \in Nodes
    BY <1>1, UnbindNode
  <1>3. DOMAIN M = DOMAIN N \ {k} /\ \A j \in DOMAIN M : M[j] = N[j]
    BY <1>1 DEF Unbind
  <1>4. CASE N[k].tag \notin SlabTags
    <2>1. R = S
      BY <1>1, <1>4 DEF Released
    <2>2. Linked(M, S)
      BY <1>1, <1>4, UnlinkPlain
    <2>3. Full(M, S)
      BY <1>3 DEF Full, FullBut
    <2> QED BY <1>1, <1>2, <2>1, <2>2, <2>3
  <1>5. CASE N[k].tag \in SlabTags
    <2>1. PICK t, i : t \in SlabTags /\ t = N[k].tag /\ i = N[k].val
      BY <1>5
    <2>2. PICK f : f = Unbind(S[t], i)
      OBVIOUS
    <2>3. R = With(S, t, f)
      BY <1>1, <2>1, <2>2 DEF Released
    <2>4. S[t] \in Slots(t)
      BY <2>1, SlotsShape
    <2>5. f \in Slots(t)
      BY <2>2, <2>4, UnbindSlot
    <2>6. R \in Slabs
      BY <2>1, <2>3, <2>5, ReplaceSlab
    <2>7. Linked(M, R)
      BY <1>1, <2>1, <2>2, <2>3, UnlinkSlot
    <2>8. ASSUME NEW j \in DOMAIN M, M[j].tag \in {"Hash", "ZSet"}
          PROVE  ~IsEmpty(M[j].tag, R[M[j].tag][M[j].val])
      <3>1. j \in DOMAIN N /\ j # k /\ M[j] = N[j]
        BY <1>3
      <3>2. PICK u, x : u = N[j].tag /\ x = N[j].val
        OBVIOUS
      <3>3. u \in SlabTags /\ Owns(N, j, u, x) /\ Owns(N, k, t, i)
        BY <2>1, <2>8, <3>1, <3>2 DEF Owns, SlabTags
      <3>4. u # t \/ x # i
        BY <3>1, <3>3 DEF Linked
      <3>5. x \in DOMAIN S[u]
        BY <3>3 DEF Linked
      <3>6. R[u][x] = S[u][x]
        <4>1. DOMAIN S = SlabTags
          BY DEF Slabs
        <4>2. CASE u # t
          BY <2>3, <3>3, <4>1, <4>2 DEF With
        <4>3. CASE u = t
          <5>1. R[u] = f
            BY <2>3, <3>3, <4>1, <4>3 DEF With
          <5>2. x \in DOMAIN S[t] /\ x # i
            BY <3>4, <3>5, <4>3
          <5> QED BY <2>2, <4>3, <5>1, <5>2 DEF Unbind
        <4> QED BY <4>2, <4>3
      <3>7. ~IsEmpty(u, S[u][x])
        BY <2>8, <3>1, <3>2 DEF FullBut
      <3> QED BY <3>1, <3>2, <3>6, <3>7
    <2>9. Full(M, R)
      BY <2>8 DEF Full
    <2> QED BY <1>1, <1>2, <2>6, <2>7, <2>9
  <1> QED BY <1>4, <1>5

LEMMA MakeFullArt ==
  ASSUME NEW N \in Nodes, NEW S \in Slabs, Linked(N, S), Full(N, S)
  PROVE  Art(N, S) \in FullArts
  BY MakeArt, ArtFields DEF FullArts

LEMMA FullArtIs ==
  ASSUME NEW a \in FullArts
  PROVE  \E N \in Nodes, S \in Slabs : a = Art(N, S) /\ Linked(N, S) /\ Full(N, S)
  <1>1. a \in Arts /\ Full(a.nodes, a.slabs)
    BY DEF FullArts
  <1>2. PICK N \in Nodes, S \in Slabs : a = Art(N, S) /\ Linked(N, S)
    BY <1>1, ArtIs
  <1> QED BY <1>1, <1>2, ArtFields

LEMMA FullIsFullBut ==
  ASSUME NEW N, NEW S, Full(N, S), NEW k
  PROVE  FullBut(N, S, k)
  BY DEF Full, FullBut

LEMMA DropKeyIs ==
  ASSUME NEW N \in Nodes, NEW S \in Slabs, NEW k
  PROVE  /\ k \in DOMAIN N => DropKey(Art(N, S), k) = Art(Unbind(N, k), Released(S, N[k]))
         /\ k \notin DOMAIN N => DropKey(Art(N, S), k) = Art(N, S)
  BY DEF DropKey, DropRaw, Has, Art, Released, With

\* del, and delete_node_inline: the key goes.
LEMMA DropKeyKeeps ==
  ASSUME NEW N \in Nodes, NEW S \in Slabs, Linked(N, S), NEW k, FullBut(N, S, k)
  PROVE  \E M \in Nodes, R \in Slabs :
           /\ DropKey(Art(N, S), k) = Art(M, R) /\ Linked(M, R) /\ Full(M, R)
           /\ DOMAIN M = DOMAIN N \ {k} /\ \A j \in DOMAIN M : M[j] = N[j]
  <1>1. CASE k \in DOMAIN N
    <2>1. PICK M, R : M = Unbind(N, k) /\ R = Released(S, N[k])
      OBVIOUS
    <2>2. M \in Nodes /\ R \in Slabs /\ Linked(M, R) /\ Full(M, R)
      BY <1>1, <2>1, ReleaseKeeps
    <2>3. DropKey(Art(N, S), k) = Art(M, R)
      BY <1>1, <2>1, DropKeyIs
    <2>4. DOMAIN M = DOMAIN N \ {k} /\ \A j \in DOMAIN M : M[j] = N[j]
      BY <2>1 DEF Unbind
    <2> QED BY <2>2, <2>3, <2>4
  <1>2. CASE k \notin DOMAIN N
    <2>1. DropKey(Art(N, S), k) = Art(N, S)
      BY <1>2, DropKeyIs
    <2>2. Full(N, S)
      BY <1>2 DEF Full, FullBut
    <2>3. DOMAIN N = DOMAIN N \ {k}
      BY <1>2
    <2> QED BY <2>1, <2>2, <2>3
  <1> QED BY <1>1, <1>2

LEMMA DropKeyFills ==
  ASSUME NEW N \in Nodes, NEW S \in Slabs, Linked(N, S), NEW k, FullBut(N, S, k)
  PROVE  DropKey(Art(N, S), k) \in FullArts
  <1>1. PICK M \in Nodes, R \in Slabs :
              /\ DropKey(Art(N, S), k) = Art(M, R) /\ Linked(M, R) /\ Full(M, R)
              /\ DOMAIN M = DOMAIN N \ {k} /\ \A j \in DOMAIN M : M[j] = N[j]
    BY DropKeyKeeps
  <1>2. Art(M, R) \in FullArts
    BY <1>1, MakeFullArt
  <1> QED BY <1>1, <1>2

LEMMA DropKeyFull ==
  ASSUME NEW a \in FullArts, NEW k
  PROVE  DropKey(a, k) \in FullArts
  <1>1. PICK N \in Nodes, S \in Slabs : a = Art(N, S) /\ Linked(N, S) /\ Full(N, S)
    BY FullArtIs
  <1>2. FullBut(N, S, k)
    BY <1>1, FullIsFullBut
  <1> QED BY <1>1, <1>2, DropKeyFills

\* get and get_mut: an expired entry goes.
LEMMA LookupFull ==
  ASSUME NEW a \in FullArts, NEW k
  PROVE  Lookup(a, k) \in FullArts
  BY DropKeyFull DEF Lookup

Entry(t, v, e) == [tag |-> t, val |-> v, exp |-> e]

\* SetVal drops the key and binds it anew.
LEMMA SetValIs ==
  ASSUME NEW N \in Nodes, NEW S \in Slabs, NEW k, NEW t, NEW v, NEW e,
         NEW M, NEW R, DropKey(Art(N, S), k) = Art(M, R),
         DOMAIN M = DOMAIN N \ {k}, \A j \in DOMAIN M : M[j] = N[j]
  PROVE  SetVal(Art(N, S), k, t, v, e) = Art(Bind(M, k, Entry(t, v, e)), R)
  <1>1. PICK n : n = Entry(t, v, e)
    OBVIOUS
  <1>2. Bind(M, k, n) = Bind(N, k, n)
    BY DEF Bind
  <1>3. PICK Q : Q = DropRaw(Art(N, S), k)
    OBVIOUS
  <1>4. Q = Art(N, R)
    <2>1. CASE k \in DOMAIN N
      <3>1. Art(M, R) = Art(Unbind(N, k), Released(S, N[k]))
        BY <2>1, DropKeyIs
      <3>2. R = Released(S, N[k])
        BY <3>1, ArtFields
      <3> QED BY <1>3, <2>1, <3>2 DEF DropRaw, Has, Art, Released, With
    <2>2. CASE k \notin DOMAIN N
      <3>1. Art(M, R) = Art(N, S)
        BY <2>2, DropKeyIs
      <3>2. R = S
        BY <3>1, ArtFields
      <3> QED BY <1>3, <2>2, <3>2 DEF DropRaw, Has, Art
    <2> QED BY <2>1, <2>2
  <1>5. SetVal(Art(N, S), k, t, v, e) = [Q EXCEPT !.nodes = Bind(@, k, n)]
    BY <1>1, <1>3 DEF SetVal, Entry
  <1>6. [Q EXCEPT !.nodes = Bind(@, k, n)] = Art(Bind(N, k, n), R)
    BY <1>4 DEF Art
  <1> QED BY <1>1, <1>2, <1>5, <1>6

\* A text or a number is set.
LEMMA SetValFull ==
  ASSUME NEW a \in FullArts, NEW k \in Keys, NEW t \in {"Bytes", "Int"}, NEW v, NEW e,
         Entry(t, v, e) \in Entries
  PROVE  SetVal(a, k, t, v, e) \in FullArts
  <1>1. PICK N \in Nodes, S \in Slabs : a = Art(N, S) /\ Linked(N, S) /\ Full(N, S)
    BY FullArtIs
  <1>2. FullBut(N, S, k)
    BY <1>1, FullIsFullBut
  <1>3. PICK M \in Nodes, R \in Slabs :
              /\ DropKey(Art(N, S), k) = Art(M, R) /\ Linked(M, R) /\ Full(M, R)
              /\ DOMAIN M = DOMAIN N \ {k} /\ \A j \in DOMAIN M : M[j] = N[j]
    BY <1>1, <1>2, DropKeyKeeps
  <1>4. PICK n : n = Entry(t, v, e)
    OBVIOUS
  <1>5. n \in Entries /\ n.tag = t /\ n.tag \notin SlabTags /\ k \notin DOMAIN M
    BY <1>3, <1>4 DEF Entry, SlabTags
  <1>6. PICK B : B = Bind(M, k, n)
    OBVIOUS
  <1>7. B \in Nodes
    BY <1>5, <1>6, BindNode
  <1>8. Linked(B, R)
    BY <1>3, <1>5, <1>6, LinkPlain
  <1>9. Full(B, R)
    <2>1. \A j \in DOMAIN B : (j = k /\ B[j] = n) \/ (j \in DOMAIN M /\ B[j] = M[j])
      BY <1>6 DEF Bind
    <2>2. n.tag \notin {"Hash", "ZSet"}
      BY <1>5 DEF SlabTags
    <2> QED BY <1>3, <2>1, <2>2 DEF Full
  <1>10. SetVal(a, k, t, v, e) = Art(B, R)
    BY <1>1, <1>3, <1>4, <1>6, SetValIs
  <1> QED BY <1>7, <1>8, <1>9, <1>10, MakeFullArt

\* The collection of key k is being worked on: it may be empty.
OpenAt(a, k, t) ==
  /\ a \in Arts /\ FullBut(a.nodes, a.slabs, k)
  /\ k \in DOMAIN a.nodes /\ a.nodes[k].tag = t

LEMMA NewIsEmpty ==
  ASSUME NEW t \in SlabTags
  PROVE  New(t) \in CollsOf(t) /\ (t = "Hash" => New(t) = HNew) /\ (t = "ZSet" => New(t) = ZNew)
  <1>1. New("Hash") = HNew /\ New("Set") = {} /\ New("ZSet") = ZNew
    BY DEF New
  <1>2. HNew \in CollsOf("Hash")
    BY NewHash DEF CollsOf
  <1>3. {} \in CollsOf("Set")
    BY DEF CollsOf
  <1>4. ZNew \in CollsOf("ZSet")
    BY NewZSet DEF CollsOf
  <1> QED BY <1>1, <1>2, <1>3, <1>4 DEF SlabTags

\* An empty collection is created.
LEMMA CreateOpens ==
  ASSUME NEW a \in FullArts, NEW k \in Keys, ~Has(a, k), NEW t \in SlabTags
  PROVE  OpenAt(Create(a, k, t), k, t) /\ Coll(Create(a, k, t), k) = New(t)
  <1>1. PICK N \in Nodes, S \in Slabs : a = Art(N, S) /\ Linked(N, S) /\ Full(N, S)
    BY FullArtIs
  <1>2. k \notin DOMAIN N
    BY <1>1 DEF Has, Art
  <1>3. PICK i : i = FreeSlot(a, t)
    OBVIOUS
  <1>4. i \in SlabIdx /\ i \notin DOMAIN S[t]
    BY <1>1, <1>2, <1>3, FreeSlotIsFree DEF Art
  <1>5. PICK n : n = Entry(t, i, NoExpiracy)
    OBVIOUS
  <1>6. n \in Entries /\ n.tag = t /\ n.val = i
    <2>1. i \in Int
      BY <1>4 DEF SlabIdx
    <2>2. t \notin {"Bytes", "Int"}
      BY DEF SlabTags
    <2>3. NoExpiracy \in 0 .. NoExpiracy
      BY CommandAssumptions
    <2> QED BY <1>4, <1>5, <2>1, <2>2, <2>3 DEF Entry, Entries
  <1>7. PICK f, B, R : f = Bind(S[t], i, New(t)) /\ B = Bind(N, k, n) /\ R = With(S, t, f)
    OBVIOUS
  <1>8. Create(a, k, t) = Art(B, R)
    <2>1. Create(a, k, t) = [a EXCEPT !.slabs[t] = Bind(@, i, New(t)), !.nodes = Bind(@, k, n)]
      BY <1>3, <1>5 DEF Create, Entry
    <2> QED BY <1>1, <1>7, <2>1 DEF Art, With
  <1>9. B \in Nodes
    BY <1>6, <1>7, BindNode
  <1>10. S[t] \in Slots(t) /\ New(t) \in CollsOf(t)
    BY SlotsShape, NewIsEmpty
  <1>11. f \in Slots(t)
    BY <1>4, <1>7, <1>10, BindSlot
  <1>12. R \in Slabs
    BY <1>7, <1>11, ReplaceSlab
  <1>13. Linked(B, R)
    BY <1>1, <1>2, <1>4, <1>6, <1>7, LinkSlot
  <1>14. /\ DOMAIN B = DOMAIN N \cup {k} /\ B[k] = n
         /\ \A j \in DOMAIN N : B[j] = N[j]
    BY <1>2, <1>7 DEF Bind
  <1>15. /\ R[t] = f /\ f[i] = New(t)
         /\ \A u \in SlabTags : \A x \in DOMAIN S[u] : R[u][x] = S[u][x]
    <2>1. DOMAIN S = SlabTags
      BY DEF Slabs
    <2>2. f[i] = New(t) /\ \A x \in DOMAIN S[t] : f[x] = S[t][x]
      BY <1>4, <1>7 DEF Bind
    <2>3. R[t] = f /\ \A u \in SlabTags : u # t => R[u] = S[u]
      BY <1>7, <2>1 DEF With
    <2> QED BY <2>2, <2>3
  <1>16. FullBut(B, R, k)
    <2> SUFFICES ASSUME NEW j \in DOMAIN B, j # k, B[j].tag \in {"Hash", "ZSet"}
                 PROVE  ~IsEmpty(B[j].tag, R[B[j].tag][B[j].val])
      BY DEF FullBut
    <2>1. PICK u, x : u = N[j].tag /\ x = N[j].val
      OBVIOUS
    <2>2. j \in DOMAIN N /\ B[j] = N[j] /\ u \in SlabTags /\ Owns(N, j, u, x)
      BY <1>14, <2>1 DEF Owns, SlabTags
    <2>3. x \in DOMAIN S[u]
      BY <1>1, <2>2 DEF Linked
    <2>4. ~IsEmpty(u, S[u][x])
      BY <1>1, <2>1, <2>2 DEF Full
    <2> QED BY <1>15, <2>1, <2>2, <2>3, <2>4
  <1>17. Art(B, R) \in Arts
    BY <1>9, <1>12, <1>13, MakeArt
  <1>18. OpenAt(Art(B, R), k, t)
    BY <1>6, <1>14, <1>16, <1>17, ArtFields DEF OpenAt
  <1>19. Coll(Art(B, R), k) = New(t)
    BY <1>6, <1>14, <1>15, ArtFields DEF Coll
  <1> QED BY <1>8, <1>18, <1>19

LEMMA OpenIs ==
  ASSUME NEW a, NEW k, NEW t \in SlabTags, OpenAt(a, k, t)
  PROVE  \E N \in Nodes, S \in Slabs :
           /\ a = Art(N, S) /\ Linked(N, S) /\ FullBut(N, S, k)
           /\ k \in DOMAIN N /\ N[k].tag = t /\ N[k].val \in DOMAIN S[t]
           /\ Coll(a, k) = S[t][N[k].val]
  <1>1. PICK N \in Nodes, S \in Slabs : a = Art(N, S) /\ Linked(N, S)
    BY ArtIs DEF OpenAt
  <1>2. a.nodes = N /\ a.slabs = S
    BY <1>1, ArtFields
  <1>3. FullBut(N, S, k) /\ k \in DOMAIN N /\ N[k].tag = t
    BY <1>2 DEF OpenAt
  <1>4. Owns(N, k, t, N[k].val)
    BY <1>3 DEF Owns
  <1>5. N[k].val \in DOMAIN S[t]
    BY <1>1, <1>4 DEF Linked
  <1>6. Coll(a, k) = S[t][N[k].val]
    BY <1>2, <1>3 DEF Coll
  <1> QED BY <1>1, <1>3, <1>5, <1>6

LEMMA OpenColl ==
  ASSUME NEW a, NEW k, NEW t \in SlabTags, OpenAt(a, k, t)
  PROVE  Coll(a, k) \in CollsOf(t)
  <1>1. PICK N \in Nodes, S \in Slabs : /\ N[k].val \in DOMAIN S[t]
                                        /\ Coll(a, k) = S[t][N[k].val]
    BY OpenIs
  <1> QED BY <1>1, SlotsShape

\* A collection is replaced; if it is not empty, or is a set, the store is
\* as it should be.
LEMMA PutCollKeeps ==
  ASSUME NEW a, NEW k, NEW t \in SlabTags, OpenAt(a, k, t), NEW c \in CollsOf(t)
  PROVE  /\ OpenAt(PutColl(a, k, c), k, t)
         /\ t = "Set" \/ ~IsEmpty(t, c) => PutColl(a, k, c) \in FullArts
  <1>1. PICK N \in Nodes, S \in Slabs :
              /\ a = Art(N, S) /\ Linked(N, S) /\ FullBut(N, S, k)
              /\ k \in DOMAIN N /\ N[k].tag = t /\ N[k].val \in DOMAIN S[t]
    BY OpenIs
  <1>2. PICK i : i = N[k].val
    OBVIOUS
  <1>3. PICK f, R : f = [S[t] EXCEPT ![i] = c] /\ R = With(S, t, f)
    OBVIOUS
  <1>4. PutColl(a, k, c) = Art(N, R)
    <2>1. PutColl(a, k, c) = [a EXCEPT !.slabs[t][i] = c]
      BY <1>1, <1>2, ArtFields DEF PutColl
    <2> QED BY <1>1, <1>3, <2>1 DEF Art, With
  <1>5. S[t] \in Slots(t) /\ i \in DOMAIN S[t] /\ DOMAIN S = SlabTags
    BY <1>1, <1>2, SlotsShape
  <1>6. f \in Slots(t)
    BY <1>3, <1>5, PutSlot
  <1>7. R \in Slabs
    BY <1>3, <1>6, ReplaceSlab
  <1>8. /\ DOMAIN f = DOMAIN S[t] /\ f[i] = c
        /\ \A x \in DOMAIN S[t] : x # i => f[x] = S[t][x]
    <2>1. PICK D : S[t] \in [D -> CollsOf(t)]
      BY <1>5 DEF Slots
    <2> QED BY <1>3, <1>5, <2>1
  <1>9. R[t] = f /\ \A u \in SlabTags : u # t => R[u] = S[u]
    BY <1>3, <1>5 DEF With
  <1>10. Linked(N, R)
    <2>1. \A u \in SlabTags : DOMAIN R[u] = DOMAIN S[u]
      BY <1>8, <1>9
    <2> QED BY <1>1, <2>1 DEF Linked
  <1>11. FullBut(N, R, k)
    <2> SUFFICES ASSUME NEW j \in DOMAIN N, j # k, N[j].tag \in {"Hash", "ZSet"}
                 PROVE  ~IsEmpty(N[j].tag, R[N[j].tag][N[j].val])
      BY DEF FullBut
    <2>1. PICK u, x : u = N[j].tag /\ x = N[j].val
      OBVIOUS
    <2>2. u \in SlabTags /\ Owns(N, j, u, x) /\ Owns(N, k, t, i)
      BY <1>1, <1>2, <2>1 DEF Owns, SlabTags
    <2>3. x \in DOMAIN S[u] /\ (u # t \/ x # i)
      BY <1>1, <2>2 DEF Linked
    <2>4. ~IsEmpty(u, S[u][x])
      BY <1>1, <2>1 DEF FullBut
    <2>5. R[u][x] = S[u][x]
      BY <1>8, <1>9, <2>2, <2>3
    <2> QED BY <2>1, <2>4, <2>5
  <1>12. Art(N, R) \in Arts
    BY <1>7, <1>10, MakeArt
  <1>13. OpenAt(Art(N, R), k, t)
    BY <1>1, <1>11, <1>12, ArtFields DEF OpenAt
  <1>14. ASSUME t = "Set" \/ ~IsEmpty(t, c) PROVE Art(N, R) \in FullArts
    <2>1. R[N[k].tag][N[k].val] = c
      BY <1>1, <1>2, <1>8, <1>9
    <2>2. N[k].tag \in {"Hash", "ZSet"} => ~IsEmpty(N[k].tag, R[N[k].tag][N[k].val])
      BY <1>1, <1>14, <2>1
    <2>3. Full(N, R)
      BY <1>11, <2>2 DEF Full, FullBut
    <2> QED BY <1>7, <1>10, <2>3, MakeFullArt
  <1> QED BY <1>4, <1>13, <1>14

\* A collection that has become empty goes with its key.
LEMMA ShrunkFull ==
  ASSUME NEW a, NEW k, NEW t \in SlabTags, OpenAt(a, k, t), NEW c \in CollsOf(t)
  PROVE  Shrunk(a, k, c) \in FullArts
  <1>1. a.nodes[k].tag = t
    BY DEF OpenAt
  <1>2. CASE IsEmpty(t, c)
    <2>1. PICK b : b = PutColl(a, k, c)
      OBVIOUS
    <2>2. OpenAt(b, k, t)
      BY <2>1, PutCollKeeps
    <2>3. PICK N \in Nodes, S \in Slabs : b = Art(N, S) /\ Linked(N, S) /\ FullBut(N, S, k)
      BY <2>2, OpenIs
    <2>4. DropKey(b, k) \in FullArts
      BY <2>3, DropKeyFills
    <2>5. Shrunk(a, k, c) = DropKey(b, k)
      BY <1>1, <1>2, <2>1 DEF Shrunk
    <2> QED BY <2>4, <2>5
  <1>3. CASE ~IsEmpty(t, c)
    <2>1. Shrunk(a, k, c) = PutColl(a, k, c)
      BY <1>1, <1>3 DEF Shrunk
    <2> QED BY <1>3, <2>1, PutCollKeeps
  <1> QED BY <1>2, <1>3

LEMMA FullIsOpen ==
  ASSUME NEW a \in FullArts, NEW k, Has(a, k), NEW t, a.nodes[k].tag = t
  PROVE  OpenAt(a, k, t)
  BY FullIsFullBut DEF FullArts, Has, OpenAt

\* An expiry is replaced.
LEMMA SetExpFull ==
  ASSUME NEW a \in FullArts, NEW k, Has(a, k), NEW e \in 0 .. NoExpiracy
  PROVE  [a EXCEPT !.nodes[k].exp = e] \in FullArts
  <1>1. PICK N \in Nodes, S \in Slabs : a = Art(N, S) /\ Linked(N, S) /\ Full(N, S)
    BY FullArtIs
  <1>2. k \in DOMAIN N /\ DOMAIN N \in SUBSET Keys /\ N[k] \in Entries
    BY <1>1, NodesShape DEF Has, Art
  <1>3. PICK M : M = [N EXCEPT ![k] = [N[k] EXCEPT !.exp = e]]
    OBVIOUS
  <1>4. [a EXCEPT !.nodes[k].exp = e] = Art(M, S)
    BY <1>1, <1>3 DEF Art
  <1>5. [N[k] EXCEPT !.exp = e] \in Entries
    BY <1>2 DEF Entries
  <1>6. /\ M \in Nodes /\ DOMAIN M = DOMAIN N
        /\ \A j \in DOMAIN N : M[j].tag = N[j].tag /\ M[j].val = N[j].val
    <2>1. PICK D \in SUBSET Keys : N \in [D -> Entries]
      BY DEF Nodes
    <2>2. M \in [D -> Entries]
      BY <1>3, <1>5, <2>1
    <2>3. [N[k] EXCEPT !.exp = e].tag = N[k].tag /\ [N[k] EXCEPT !.exp = e].val = N[k].val
      BY <1>2 DEF Entries
    <2>4. \A j \in DOMAIN N : M[j].tag = N[j].tag /\ M[j].val = N[j].val
      BY <1>2, <1>3, <2>3
    <2> QED BY <2>1, <2>2, <2>4 DEF Nodes
  <1>7. Linked(M, S)
    <2>1. \A j, t, i : Owns(M, j, t, i) <=> Owns(N, j, t, i)
      BY <1>6 DEF Owns
    <2> QED BY <1>1, <2>1 DEF Linked
  <1>8. Full(M, S)
    BY <1>1, <1>6 DEF Full
  <1> QED BY <1>4, <1>6, <1>7, <1>8, MakeFullArt

-----------------------------------------------------------------------------
(* Loops over keys, pairs and options.                                      *)

SetBody(b, p) == SetVal(b, p[1], "Bytes", p[2], NoExpiracy)

NoOptions == [ttl |-> {}, cond |-> "", want |-> "", err |-> ""]
Parsed(opts) == FoldLeft(ParseOption, NoOptions, opts)

\* As for the loops of the collections.
LEMMA LookupAllStays ==
  ASSUME NEW X, NEW Y, NEW a, a \in X, NEW ms \in Seq(Y),
         \A x \in X, y \in Y : Lookup(x, y) \in X
  PROVE  /\ LookupAll(a, ms) \in X
         /\ ms # <<>> => \E x \in X, y \in Y : LookupAll(a, ms) = Lookup(x, y)
  <1>1. PICK b : b = a
    OBVIOUS
  <1>2. PICK step : step = [q \in X \X Y |-> Lookup(q[1], q[2])]
    OBVIOUS
  <1>3. step \in [X \X Y -> X] /\ \A x \in X, y \in Y : step[<<x, y>>] = Lookup(x, y)
    BY <1>2
  <1>4. PICK g : Loop(g, X, Y, b, ms, step)
    BY <1>1, <1>3, LoopExists
  <1>5. ASSUME NEW t \in SUBSET DOMAIN ms, t # {}
        PROVE  g[t] = Lookup(g[t \ {Max(t)}], ms[Max(t)])
    <2>1. Position(t, ms)
      BY <1>5 DEF Position
    <2>2. StepAt(g, X, Y, ms, step, t)
      BY <1>4, <2>1, LoopSteps
    <2> QED BY <1>3, <2>2 DEF StepAt
  <1>6. g = [t \in SUBSET DOMAIN ms |->
               IF t = {} THEN b ELSE Lookup(g[t \ {Max(t)}], ms[Max(t)])]
    BY <1>4, <1>5 DEF Loop
  <1>7. PICK f : /\ f = [t \in SUBSET DOMAIN ms |->
                           IF t = {} THEN b ELSE Lookup(f[t \ {Max(t)}], ms[Max(t)])]
                 /\ LookupAll(a, ms) = f[DOMAIN ms]
    <2>1. LookupAll(a, ms) = FoldLeft(Lookup, b, ms)
      BY <1>1 DEF LookupAll
    <2> QED BY <1>6, <2>1 DEF FoldLeft, MapThenFoldSet
  <1>8. f[{}] = b
    <2>1. {} \in SUBSET DOMAIN ms
      OBVIOUS
    <2> QED BY <1>7, <2>1, Zenon
  <1>9. ASSUME NEW t \in SUBSET DOMAIN ms, t # {}, f[t \ {Max(t)}] \in X, ms[Max(t)] \in Y
        PROVE  f[t] = step[<<f[t \ {Max(t)}], ms[Max(t)]>>]
    <2>1. f[t] = Lookup(f[t \ {Max(t)}], ms[Max(t)])
      BY <1>7, <1>9, Zenon
    <2> QED BY <1>3, <1>9, <2>1
  <1>10. Ends(f[DOMAIN ms], X, Y, ms, step)
    <2>1. Follows(f, X, Y, b, ms, step)
      BY <1>8, <1>9 DEF Follows
    <2> QED BY <1>4, <2>1, LoopResult
  <1>11. Ends(LookupAll(a, ms), X, Y, ms, step)
    BY <1>7, <1>10
  <1> QED BY <1>3, <1>11 DEF Ends

LEMMA DropKeysStays ==
  ASSUME NEW X, NEW Y, NEW a, a \in X, NEW ms \in Seq(Y),
         \A x \in X, y \in Y : DropKey(x, y) \in X
  PROVE  /\ DropKeys(a, ms) \in X
         /\ ms # <<>> => \E x \in X, y \in Y : DropKeys(a, ms) = DropKey(x, y)
  <1>1. PICK b : b = a
    OBVIOUS
  <1>2. PICK step : step = [q \in X \X Y |-> DropKey(q[1], q[2])]
    OBVIOUS
  <1>3. step \in [X \X Y -> X] /\ \A x \in X, y \in Y : step[<<x, y>>] = DropKey(x, y)
    BY <1>2
  <1>4. PICK g : Loop(g, X, Y, b, ms, step)
    BY <1>1, <1>3, LoopExists
  <1>5. ASSUME NEW t \in SUBSET DOMAIN ms, t # {}
        PROVE  g[t] = DropKey(g[t \ {Max(t)}], ms[Max(t)])
    <2>1. Position(t, ms)
      BY <1>5 DEF Position
    <2>2. StepAt(g, X, Y, ms, step, t)
      BY <1>4, <2>1, LoopSteps
    <2> QED BY <1>3, <2>2 DEF StepAt
  <1>6. g = [t \in SUBSET DOMAIN ms |->
               IF t = {} THEN b ELSE DropKey(g[t \ {Max(t)}], ms[Max(t)])]
    BY <1>4, <1>5 DEF Loop
  <1>7. PICK f : /\ f = [t \in SUBSET DOMAIN ms |->
                           IF t = {} THEN b ELSE DropKey(f[t \ {Max(t)}], ms[Max(t)])]
                 /\ DropKeys(a, ms) = f[DOMAIN ms]
    <2>1. DropKeys(a, ms) = FoldLeft(DropKey, b, ms)
      BY <1>1 DEF DropKeys
    <2> QED BY <1>6, <2>1 DEF FoldLeft, MapThenFoldSet
  <1>8. f[{}] = b
    <2>1. {} \in SUBSET DOMAIN ms
      OBVIOUS
    <2> QED BY <1>7, <2>1, Zenon
  <1>9. ASSUME NEW t \in SUBSET DOMAIN ms, t # {}, f[t \ {Max(t)}] \in X, ms[Max(t)] \in Y
        PROVE  f[t] = step[<<f[t \ {Max(t)}], ms[Max(t)]>>]
    <2>1. f[t] = DropKey(f[t \ {Max(t)}], ms[Max(t)])
      BY <1>7, <1>9, Zenon
    <2> QED BY <1>3, <1>9, <2>1
  <1>10. Ends(f[DOMAIN ms], X, Y, ms, step)
    <2>1. Follows(f, X, Y, b, ms, step)
      BY <1>8, <1>9 DEF Follows
    <2> QED BY <1>4, <2>1, LoopResult
  <1>11. Ends(DropKeys(a, ms), X, Y, ms, step)
    BY <1>7, <1>10
  <1> QED BY <1>3, <1>11 DEF Ends

LEMMA SetAllStays ==
  ASSUME NEW X, NEW Y, NEW a, a \in X, NEW ms \in Seq(Y),
         \A x \in X, y \in Y : SetBody(x, y) \in X
  PROVE  /\ SetAll(a, ms) \in X
         /\ ms # <<>> => \E x \in X, y \in Y : SetAll(a, ms) = SetBody(x, y)
  <1>1. PICK b : b = a
    OBVIOUS
  <1>2. PICK step : step = [q \in X \X Y |-> SetBody(q[1], q[2])]
    OBVIOUS
  <1>3. step \in [X \X Y -> X] /\ \A x \in X, y \in Y : step[<<x, y>>] = SetBody(x, y)
    BY <1>2
  <1>4. PICK g : Loop(g, X, Y, b, ms, step)
    BY <1>1, <1>3, LoopExists
  <1>5. ASSUME NEW t \in SUBSET DOMAIN ms, t # {}
        PROVE  g[t] = SetBody(g[t \ {Max(t)}], ms[Max(t)])
    <2>1. Position(t, ms)
      BY <1>5 DEF Position
    <2>2. StepAt(g, X, Y, ms, step, t)
      BY <1>4, <2>1, LoopSteps
    <2> QED BY <1>3, <2>2 DEF StepAt
  <1>6. g = [t \in SUBSET DOMAIN ms |->
               IF t = {} THEN b ELSE SetBody(g[t \ {Max(t)}], ms[Max(t)])]
    BY <1>4, <1>5 DEF Loop
  <1>7. PICK f : /\ f = [t \in SUBSET DOMAIN ms |->
                           IF t = {} THEN b ELSE SetBody(f[t \ {Max(t)}], ms[Max(t)])]
                 /\ SetAll(a, ms) = f[DOMAIN ms]
    <2>1. SetAll(a, ms) = FoldLeft(SetBody, b, ms)
      BY <1>1 DEF SetAll, SetBody, FoldLeft, MapThenFoldSet
    <2> QED BY <1>6, <2>1 DEF FoldLeft, MapThenFoldSet
  <1>8. f[{}] = b
    <2>1. {} \in SUBSET DOMAIN ms
      OBVIOUS
    <2> QED BY <1>7, <2>1, Zenon
  <1>9. ASSUME NEW t \in SUBSET DOMAIN ms, t # {}, f[t \ {Max(t)}] \in X, ms[Max(t)] \in Y
        PROVE  f[t] = step[<<f[t \ {Max(t)}], ms[Max(t)]>>]
    <2>1. f[t] = SetBody(f[t \ {Max(t)}], ms[Max(t)])
      BY <1>7, <1>9, Zenon
    <2> QED BY <1>3, <1>9, <2>1
  <1>10. Ends(f[DOMAIN ms], X, Y, ms, step)
    <2>1. Follows(f, X, Y, b, ms, step)
      BY <1>8, <1>9 DEF Follows
    <2> QED BY <1>4, <2>1, LoopResult
  <1>11. Ends(SetAll(a, ms), X, Y, ms, step)
    BY <1>7, <1>10
  <1> QED BY <1>3, <1>11 DEF Ends

LEMMA ParsedStays ==
  ASSUME NEW X, NEW Y, NoOptions \in X, NEW ms \in Seq(Y),
         \A x \in X, y \in Y : ParseOption(x, y) \in X
  PROVE  /\ Parsed(ms) \in X
         /\ ms # <<>> => \E x \in X, y \in Y : Parsed(ms) = ParseOption(x, y)
  <1>1. PICK b : b = NoOptions
    OBVIOUS
  <1>2. PICK step : step = [q \in X \X Y |-> ParseOption(q[1], q[2])]
    OBVIOUS
  <1>3. step \in [X \X Y -> X] /\ \A x \in X, y \in Y : step[<<x, y>>] = ParseOption(x, y)
    BY <1>2
  <1>4. PICK g : Loop(g, X, Y, b, ms, step)
    BY <1>1, <1>3, LoopExists
  <1>5. ASSUME NEW t \in SUBSET DOMAIN ms, t # {}
        PROVE  g[t] = ParseOption(g[t \ {Max(t)}], ms[Max(t)])
    <2>1. Position(t, ms)
      BY <1>5 DEF Position
    <2>2. StepAt(g, X, Y, ms, step, t)
      BY <1>4, <2>1, LoopSteps
    <2> QED BY <1>3, <2>2 DEF StepAt
  <1>6. g = [t \in SUBSET DOMAIN ms |->
               IF t = {} THEN b ELSE ParseOption(g[t \ {Max(t)}], ms[Max(t)])]
    BY <1>4, <1>5 DEF Loop
  <1>7. PICK f : /\ f = [t \in SUBSET DOMAIN ms |->
                           IF t = {} THEN b ELSE ParseOption(f[t \ {Max(t)}], ms[Max(t)])]
                 /\ Parsed(ms) = f[DOMAIN ms]
    <2>1. Parsed(ms) = FoldLeft(ParseOption, b, ms)
      BY <1>1 DEF Parsed
    <2> QED BY <1>6, <2>1 DEF FoldLeft, MapThenFoldSet
  <1>8. f[{}] = b
    <2>1. {} \in SUBSET DOMAIN ms
      OBVIOUS
    <2> QED BY <1>7, <2>1, Zenon
  <1>9. ASSUME NEW t \in SUBSET DOMAIN ms, t # {}, f[t \ {Max(t)}] \in X, ms[Max(t)] \in Y
        PROVE  f[t] = step[<<f[t \ {Max(t)}], ms[Max(t)]>>]
    <2>1. f[t] = ParseOption(f[t \ {Max(t)}], ms[Max(t)])
      BY <1>7, <1>9, Zenon
    <2> QED BY <1>3, <1>9, <2>1
  <1>10. Ends(f[DOMAIN ms], X, Y, ms, step)
    <2>1. Follows(f, X, Y, b, ms, step)
      BY <1>8, <1>9 DEF Follows
    <2> QED BY <1>4, <2>1, LoopResult
  <1>11. Ends(Parsed(ms), X, Y, ms, step)
    BY <1>7, <1>10
  <1> QED BY <1>3, <1>11 DEF Ends

LEMMA LookupAllFull ==
  ASSUME NEW a \in FullArts, NEW ks \in Seq(Keys)
  PROVE  LookupAll(a, ks) \in FullArts
  BY LookupFull, LookupAllStays

LEMMA DropKeysFull ==
  ASSUME NEW a \in FullArts, NEW ks \in Seq(Keys)
  PROVE  DropKeys(a, ks) \in FullArts
  BY DropKeyFull, DropKeysStays

LEMMA TextEntry ==
  ASSUME NEW v \in Texts, NEW e \in 0 .. NoExpiracy
  PROVE  Entry("Bytes", v, e) \in Entries
  BY DEF Entry, Entries, SlabTags

LEMMA IntEntry ==
  ASSUME NEW v \in MinInt .. MaxInt, NEW e \in 0 .. NoExpiracy
  PROVE  Entry("Int", v, e) \in Entries
  BY IntAssumption DEF Entry, Entries, SlabTags

LEMMA SetAllFull ==
  ASSUME NEW a \in FullArts, NEW pairs \in Seq(Keys \X Texts)
  PROVE  SetAll(a, pairs) \in FullArts
  <1>1. PICK Y : Y = Keys \X Texts
    OBVIOUS
  <1>2. ASSUME NEW b \in FullArts, NEW p \in Y PROVE SetBody(b, p) \in FullArts
    <2>1. p[1] \in Keys /\ p[2] \in Texts
      BY <1>1
    <2>2. NoExpiracy \in 0 .. NoExpiracy
      BY CommandAssumptions
    <2>3. Entry("Bytes", p[2], NoExpiracy) \in Entries
      BY <2>1, <2>2, TextEntry
    <2> QED BY <2>1, <2>3, SetValFull DEF SetBody
  <1>3. pairs \in Seq(Y)
    BY <1>1
  <1> QED BY <1>2, <1>3, SetAllStays

\* A time that SET accepts is a natural number.
LEMMA TtlIsNat ==
  ASSUME NEW opts \in Seq(AnyText)
  PROVE  ParseSetOptions(opts).ttl \in SUBSET Nat
  <1>0. PICK W : W = {"", "EX", "PX", "NX", "XX", "not an integer"}
    OBVIOUS
  <1>1. PICK X : X = [ttl : SUBSET Nat, cond : W, want : W, err : W]
    OBVIOUS
  <1>2. NoOptions \in X
    BY <1>0, <1>1 DEF NoOptions
  <1>3. ASSUME NEW o \in X, NEW t \in AnyText PROVE ParseOption(o, t) \in X
    <2>1. o.ttl \in SUBSET Nat /\ o.cond \in W /\ o.want \in W /\ o.err \in W
      BY <1>1
    <2>2. CASE o.err # ""
      BY <2>2 DEF ParseOption
    <2>3. CASE o.err = "" /\ o.want # ""
      <3>1. CASE ParseNat(t) = {}
        <4>1. ParseOption(o, t) = [o EXCEPT !.err = "not an integer"]
          BY <2>3, <3>1 DEF ParseOption
        <4> QED BY <1>0, <1>1, <4>1
      <3>2. CASE ParseNat(t) # {}
        <4>1. PICK T : T = {IF o.want = "PX" THEN n \div 1000 ELSE n : n \in ParseNat(t)}
          OBVIOUS
        <4>2. \A n \in ParseNat(t) : n \in Nat /\ n \div 1000 \in Nat
          BY DEF ParseNat
        <4>3. T \in SUBSET Nat
          BY <4>1, <4>2
        <4>4. ParseOption(o, t) = [o EXCEPT !.want = "", !.ttl = T]
          BY <2>3, <3>2, <4>1 DEF ParseOption
        <4> QED BY <1>0, <1>1, <4>3, <4>4
      <3> QED BY <3>1, <3>2
    <2>4. CASE o.err = "" /\ o.want = ""
      <3>0. ASSUME NEW w \in W PROVE [o EXCEPT !.want = w] \in X /\ [o EXCEPT !.cond = w] \in X
        BY <1>1
      <3>1. CASE t \in {<<"word", "EX">>, <<"word", "PX">>}
        <4>1. PICK w : w \in {"EX", "PX"} /\ t = <<"word", w>>
          BY <3>1
        <4>2. PICK v : v = t[2]
          OBVIOUS
        <4>3. v = w
          BY <4>1, <4>2
        <4>4. t \notin {<<"word", "NX">>, <<"word", "XX">>}
          BY <4>1
        <4>5. ParseOption(o, t) = [o EXCEPT !.want = v]
          BY <2>4, <3>1, <4>2, <4>4, Zenon DEF ParseOption
        <4>6. v \in W
          BY <1>0, <4>1, <4>3
        <4> QED BY <3>0, <4>5, <4>6
      <3>2. CASE t \in {<<"word", "NX">>, <<"word", "XX">>}
        <4>1. PICK w : w \in {"NX", "XX"} /\ t = <<"word", w>>
          BY <3>2
        <4>2. PICK v : v = t[2]
          OBVIOUS
        <4>3. v = w
          BY <4>1, <4>2
        <4>4. t \notin {<<"word", "EX">>, <<"word", "PX">>}
          BY <4>1
        <4>5. ParseOption(o, t) = [o EXCEPT !.cond = v]
          BY <2>4, <3>2, <4>2, <4>4, Zenon DEF ParseOption
        <4>6. v \in W
          BY <1>0, <4>1, <4>3
        <4> QED BY <3>0, <4>5, <4>6
      <3>3. CASE /\ t \notin {<<"word", "EX">>, <<"word", "PX">>}
                 /\ t \notin {<<"word", "NX">>, <<"word", "XX">>}
        <4>1. ParseOption(o, t) = o
          BY <2>4, <3>3 DEF ParseOption
        <4> QED BY <4>1
      <3> QED BY <3>1, <3>2, <3>3
    <2> QED BY <2>2, <2>3, <2>4
  <1>4. PICK o : o = Parsed(opts)
    OBVIOUS
  <1>5. o \in X
    BY <1>2, <1>3, <1>4, ParsedStays
  <1>6. ParseSetOptions(opts) = IF o.err = "" /\ o.want # "" THEN [o EXCEPT !.err = "syntax error"] ELSE o
    BY <1>4 DEF ParseSetOptions, Parsed, NoOptions
  <1> QED BY <1>1, <1>5, <1>6

LEMMA SetToSeqIsSeq ==
  ASSUME NEW D \in SUBSET Keys
  PROVE  SetToSeq(D) \in Seq(Keys)
  <1>1. IsFiniteSet(D)
    BY CommandAssumptions, FS_Subset
  <1>2. PICK n : n = Cardinality(D)
    OBVIOUS
  <1>3. n \in Nat /\ ExistsBijection(1 .. n, D)
    BY <1>1, <1>2, FS_CardinalityType
  <1>4. PICK f : f \in Bijection(1 .. n, D)
    BY <1>3 DEF ExistsBijection
  <1>5. f \in [1 .. n -> D] /\ IsInjective(f)
    BY <1>4 DEF Bijection, Injection
  <1>6. SetToSeq(D) \in [1 .. n -> D]
    BY <1>2, <1>5 DEF SetToSeq
  <1>7. SetToSeq(D) \in [1 .. n -> Keys]
    BY <1>6
  <1> QED BY <1>3, <1>7

-----------------------------------------------------------------------------
(* The inductive invariant, and what every action does to it.               *)

\* The store is well formed, and full between two commands.
CmdInv == art \in FullArts /\ now \in 0 .. MaxNow /\ panicked \in BOOLEAN

\* What every action but the clock's leaves.
Kept == art' \in FullArts /\ now' = now /\ panicked' \in BOOLEAN

LEMMA PanicsKeep == ASSUME CmdInv, Panics PROVE Kept
  BY DEF CmdInv, Panics, Kept

LEMMA UnwrapsKeep == ASSUME CmdInv, NEW k, UnwrapsExpired(k) PROVE Kept
  BY PanicsKeep DEF UnwrapsExpired

LEMMA NoExpiracyFits == NoExpiracy \in 0 .. NoExpiracy
  BY CommandAssumptions

LEMMA SetTextFull ==
  ASSUME NEW a \in FullArts, NEW k \in Keys, NEW v \in Texts, NEW e \in 0 .. NoExpiracy
  PROVE  SetVal(a, k, "Bytes", v, e) \in FullArts
  <1>1. Entry("Bytes", v, e) \in Entries
    BY TextEntry
  <1> QED BY <1>1, SetValFull

LEMMA SetIntFull ==
  ASSUME NEW a \in FullArts, NEW k \in Keys, NEW v \in MinInt .. MaxInt, NEW e \in 0 .. NoExpiracy
  PROVE  SetVal(a, k, "Int", v, e) \in FullArts
  <1>1. Entry("Int", v, e) \in Entries
    BY IntEntry
  <1> QED BY <1>1, SetValFull

LEMMA RefusedKeeps ==
  ASSUME CmdInv, NEW c, NEW k, NEW t, RefusedAt(c, k, t) PROVE Kept
  BY DEF CmdInv, RefusedAt, Does, Kept

\* A natural number of seconds that passes the assertion of set_exp.
LEMMA ExpiryFits ==
  ASSUME CmdInv, NEW n \in Nat, ~(now + n > NoExpiracy) PROVE now + n \in 0 .. NoExpiracy
  BY CommandAssumptions DEF CmdInv

\* The commands that read a key.
LEMMA ReadsKeep ==
  ASSUME CmdInv, NEW k \in Keys, NEW f,
         \/ Get(k) \/ Type(k) \/ HValue(k, f) \/ HMGet(k, f) \/ HGetAll(k) \/ HLength(k)
         \/ SIsMember(k, f) \/ ZValue(k, f) \/ ZCard(k)
  PROVE  Kept
  <1>1. Lookup(art, k) \in FullArts
    BY LookupFull DEF CmdInv
  <1>2. art' = Lookup(art, k) /\ UNCHANGED <<now, panicked>>
    <2>1. CASE Get(k)
      BY <2>1 DEF Get, Does
    <2>2. CASE Type(k)
      BY <2>2 DEF Type, Does
    <2>3. CASE HValue(k, f)
      BY <2>3 DEF HValue, Does
    <2>4. CASE HMGet(k, f)
      BY <2>4 DEF HMGet, Does
    <2>5. CASE HGetAll(k)
      BY <2>5 DEF HGetAll, Does
    <2>6. CASE HLength(k)
      BY <2>6 DEF HLength, Does
    <2>7. CASE SIsMember(k, f)
      BY <2>7 DEF SIsMember, Does
    <2>8. CASE ZValue(k, f)
      BY <2>8 DEF ZValue, Does
    <2>9. CASE ZCard(k)
      BY <2>9 DEF ZCard, Does
    <2> QED BY <2>1, <2>2, <2>3, <2>4, <2>5, <2>6, <2>7, <2>8, <2>9
  <1> QED BY <1>1, <1>2 DEF Kept, CmdInv

LEMMA ZSliceKeeps ==
  ASSUME CmdInv, NEW k \in Keys, NEW r, ZSlice(k, r)
  PROVE  Kept
  <1>1. Lookup(art, k) \in FullArts
    BY LookupFull DEF CmdInv
  <1>2. art' \in {art, Lookup(art, k)} /\ UNCHANGED <<now, panicked>>
    BY DEF ZSlice, Does
  <1> QED BY <1>1, <1>2 DEF Kept, CmdInv

LEMMA ReadManyKeeps ==
  ASSUME CmdInv, NEW ks \in KeyArgs, MGet(ks) \/ Exists(ks)
  PROVE  Kept
  <1>1. LookupAll(art, ks) \in FullArts
    BY LookupAllFull, ArgAssumptions DEF CmdInv
  <1>2. art' = LookupAll(art, ks) /\ UNCHANGED <<now, panicked>>
    BY DEF MGet, Exists, Does
  <1> QED BY <1>1, <1>2 DEF Kept, CmdInv

LEMMA IdleKeeps ==
  ASSUME CmdInv, (\E k \in Keys : Ttl(k)) \/ DbSize \/ Misuse
  PROVE  Kept
  <1>1. art' = art /\ UNCHANGED <<now, panicked>>
    BY DEF Ttl, DbSize, Misuse, Does
  <1> QED BY <1>1 DEF Kept, CmdInv

LEMMA SetKeeps ==
  ASSUME CmdInv, NEW k \in Keys, NEW v \in Texts, NEW opts \in OptArgs, Set(k, v, opts)
  PROVE  Kept
  <1>1. PICK o, a : /\ o = ParseSetOptions(opts)
                    /\ a = IF o.cond = "" THEN art ELSE Lookup(art, k)
                    /\ \/ Does(<<"set", k, v, opts>>, art, Failed(o.err))
                       \/ Does(<<"set", k, v, opts>>, a, Null)
                       \/ Does(<<"set", k, v, opts>>, SetVal(a, k, "Bytes", v, NoExpiracy), Ok)
                       \/ \E n \in o.ttl :
                            IF now + n > NoExpiracy THEN Panics
                            ELSE Does(<<"set", k, v, opts>>, SetVal(a, k, "Bytes", v, now + n), Ok)
    BY DEF Set
  <1>2. a \in FullArts /\ art \in FullArts
    BY <1>1, LookupFull DEF CmdInv
  <1>3. o.ttl \in SUBSET Nat
    BY <1>1, ArgAssumptions, TtlIsNat
  <1>4. CASE Does(<<"set", k, v, opts>>, art, Failed(o.err))
    BY <1>2, <1>4 DEF Does, Kept, CmdInv
  <1>5. CASE Does(<<"set", k, v, opts>>, a, Null)
    BY <1>2, <1>5 DEF Does, Kept, CmdInv
  <1>6. CASE Does(<<"set", k, v, opts>>, SetVal(a, k, "Bytes", v, NoExpiracy), Ok)
    <2>1. SetVal(a, k, "Bytes", v, NoExpiracy) \in FullArts
      BY <1>2, SetTextFull, NoExpiracyFits
    <2> QED BY <1>6, <2>1 DEF Does, Kept, CmdInv
  <1>7. ASSUME NEW n \in o.ttl,
               IF now + n > NoExpiracy THEN Panics
               ELSE Does(<<"set", k, v, opts>>, SetVal(a, k, "Bytes", v, now + n), Ok)
        PROVE  Kept
    <2>1. CASE now + n > NoExpiracy
      BY <1>7, <2>1, PanicsKeep
    <2>2. CASE ~(now + n > NoExpiracy)
      <3>1. now + n \in 0 .. NoExpiracy
        BY <1>3, <2>2, ExpiryFits
      <3>2. SetVal(a, k, "Bytes", v, now + n) \in FullArts
        BY <1>2, <3>1, SetTextFull
      <3> QED BY <1>7, <2>2, <3>2 DEF Does, Kept, CmdInv
    <2> QED BY <2>1, <2>2
  <1> QED BY <1>1, <1>4, <1>5, <1>6, <1>7

LEMMA SetNxKeeps ==
  ASSUME CmdInv, NEW k \in Keys, NEW v \in Texts, SetNx(k, v)
  PROVE  Kept
  <1>1. PICK a : /\ a = Lookup(art, k)
                 /\ art' \in {a, SetVal(a, k, "Bytes", v, NoExpiracy)}
                 /\ UNCHANGED <<now, panicked>>
    BY DEF SetNx, Does
  <1>2. a \in FullArts
    BY <1>1, LookupFull DEF CmdInv
  <1>3. SetVal(a, k, "Bytes", v, NoExpiracy) \in FullArts
    BY <1>2, SetTextFull, NoExpiracyFits
  <1> QED BY <1>1, <1>2, <1>3 DEF Kept, CmdInv

LEMMA SetExKeeps ==
  ASSUME CmdInv, NEW k \in Keys, NEW v \in Texts, NEW t, SetEx(k, t, v)
  PROVE  Kept
  <1>1. CASE Does(<<"setex", k, t, v>>, art, NotInt)
    BY <1>1 DEF Does, Kept, CmdInv
  <1>2. ASSUME NEW n \in ParseNat(t),
               IF now + n > NoExpiracy THEN Panics
               ELSE Does(<<"setex", k, t, v>>, SetVal(art, k, "Bytes", v, now + n), Ok)
        PROVE  Kept
    <2>1. CASE now + n > NoExpiracy
      BY <1>2, <2>1, PanicsKeep
    <2>2. CASE ~(now + n > NoExpiracy)
      <3>1. now + n \in 0 .. NoExpiracy
        BY <1>2, <2>2, ExpiryFits DEF ParseNat
      <3>2. SetVal(art, k, "Bytes", v, now + n) \in FullArts
        BY <3>1, SetTextFull DEF CmdInv
      <3> QED BY <1>2, <2>2, <3>2 DEF Does, Kept, CmdInv
    <2> QED BY <2>1, <2>2
  <1> QED BY <1>1, <1>2 DEF SetEx

LEMMA MSetKeeps ==
  ASSUME CmdInv, NEW ks \in KeyArgs, NEW v \in Texts, MSet([i \in DOMAIN ks |-> <<ks[i], v>>])
  PROVE  Kept
  <1>1. PICK pairs : pairs = [i \in DOMAIN ks |-> <<ks[i], v>>]
    OBVIOUS
  <1>2. PICK Y : Y = Keys \X Texts
    OBVIOUS
  <1>3. ks \in Seq(Keys)
    BY ArgAssumptions
  <1>4. PICK n \in Nat : DOMAIN ks = 1 .. n /\ \A i \in 1 .. n : ks[i] \in Keys
    BY <1>3
  <1>5. pairs \in [1 .. n -> Y]
    BY <1>1, <1>2, <1>4
  <1>6. pairs \in Seq(Y)
    BY <1>5
  <1>7. SetAll(art, pairs) \in FullArts
    BY <1>2, <1>6, SetAllFull DEF CmdInv
  <1>8. art' = SetAll(art, pairs) /\ UNCHANGED <<now, panicked>>
    BY <1>1 DEF MSet, Does
  <1> QED BY <1>7, <1>8 DEF Kept, CmdInv

LEMMA IncrByKeeps ==
  ASSUME CmdInv, NEW k \in Keys, NEW t, IncrBy(k, t)
  PROVE  Kept
  <1>1. CASE art' = art /\ UNCHANGED <<now, panicked>>
    BY <1>1 DEF Kept, CmdInv
  <1>2. ASSUME NEW d \in ParseInt(t), art' = SetVal(art, k, "Int", d, NoExpiracy),
               UNCHANGED <<now, panicked>>
        PROVE  Kept
    <2>1. d \in MinInt .. MaxInt
      BY <1>2 DEF ParseInt
    <2>2. SetVal(art, k, "Int", d, NoExpiracy) \in FullArts
      BY <2>1, SetIntFull, NoExpiracyFits DEF CmdInv
    <2> QED BY <1>2, <2>2 DEF Kept, CmdInv
  <1>3. ASSUME NEW x \in MinInt .. MaxInt, Has(art, k),
               art' = SetVal(art, k, "Int", x, art.nodes[k].exp), UNCHANGED <<now, panicked>>
        PROVE  Kept
    <2>1. PICK N \in Nodes, S \in Slabs : art = Art(N, S)
      BY FullArtIs DEF CmdInv
    <2>2. art.nodes = N /\ k \in DOMAIN N
      BY <1>3, <2>1 DEF Has, Art
    <2>3. N[k] \in Entries
      BY <2>2, NodesShape
    <2>4. art.nodes[k].exp \in 0 .. NoExpiracy
      BY <2>2, <2>3 DEF Entries
    <2>5. SetVal(art, k, "Int", x, art.nodes[k].exp) \in FullArts
      BY <2>4, SetIntFull DEF CmdInv
    <2> QED BY <1>3, <2>5 DEF Kept, CmdInv
  <1> QED BY <1>1, <1>2, <1>3 DEF IncrBy, Live, Does

LEMMA DropsKeep ==
  ASSUME CmdInv, (\E ks \in KeyArgs : Del(ks)) \/ FlushDb
  PROVE  Kept
  <1>1. ASSUME NEW ks \in Seq(Keys), art' = DropKeys(art, ks), UNCHANGED <<now, panicked>>
        PROVE  Kept
    BY <1>1, DropKeysFull DEF Kept, CmdInv
  <1>2. CASE \E ks \in KeyArgs : Del(ks)
    BY <1>1, <1>2, ArgAssumptions DEF Del, Does
  <1>3. CASE FlushDb
    <2>1. PICK N \in Nodes, S \in Slabs : art = Art(N, S)
      BY FullArtIs DEF CmdInv
    <2>2. DOMAIN art.nodes \in SUBSET Keys
      BY <2>1, NodesShape DEF Art
    <2>3. SetToSeq(DOMAIN art.nodes) \in Seq(Keys)
      BY <2>2, SetToSeqIsSeq
    <2> QED BY <1>1, <1>3, <2>3 DEF FlushDb, Does
  <1> QED BY <1>2, <1>3

LEMMA ExpireAtKeeps ==
  ASSUME CmdInv, NEW c, NEW k \in Keys, NEW n \in Nat, ExpireAt(c, k, n)
  PROVE  Kept
  <1>1. CASE art' = art /\ UNCHANGED <<now, panicked>>
    BY <1>1 DEF Kept, CmdInv
  <1>2. CASE Panics
    BY <1>2, PanicsKeep
  <1>3. CASE /\ Has(art, k) /\ ~(now + n > NoExpiracy)
             /\ art' = [art EXCEPT !.nodes[k].exp = now + n] /\ UNCHANGED <<now, panicked>>
    <2>1. now + n \in 0 .. NoExpiracy
      BY <1>3, ExpiryFits
    <2>2. [art EXCEPT !.nodes[k].exp = now + n] \in FullArts
      BY <1>3, <2>1, SetExpFull DEF CmdInv
    <2> QED BY <1>3, <2>2 DEF Kept, CmdInv
  <1> QED BY <1>1, <1>2, <1>3 DEF ExpireAt, Live, Does

LEMMA ExpiresKeep ==
  ASSUME CmdInv, NEW k \in Keys, NEW t, Expire(k, t) \/ PExpire(k, t)
  PROVE  Kept
  <1>1. CASE art' = art /\ UNCHANGED <<now, panicked>>
    BY <1>1 DEF Kept, CmdInv
  <1>2. ASSUME NEW n \in ParseNat(t), ExpireAt(<<"expire", k, t>>, k, n) PROVE Kept
    BY <1>2, ExpireAtKeeps DEF ParseNat
  <1>3. ASSUME NEW n \in ParseNat(t), ExpireAt(<<"pexpire", k, t>>, k, n \div 1000) PROVE Kept
    <2>1. n \div 1000 \in Nat
      BY <1>3 DEF ParseNat
    <2> QED BY <1>3, <2>1, ExpireAtKeeps
  <1> QED BY <1>1, <1>2, <1>3 DEF Expire, PExpire, Does

LEMMA PersistKeeps ==
  ASSUME CmdInv, NEW k \in Keys, Persist(k)
  PROVE  Kept
  <1>1. CASE art' = art /\ UNCHANGED <<now, panicked>>
    BY <1>1 DEF Kept, CmdInv
  <1>2. CASE /\ Has(art, k) /\ art' = [art EXCEPT !.nodes[k].exp = NoExpiracy]
             /\ UNCHANGED <<now, panicked>>
    <2>1. [art EXCEPT !.nodes[k].exp = NoExpiracy] \in FullArts
      BY <1>2, SetExpFull, NoExpiracyFits DEF CmdInv
    <2> QED BY <1>2, <2>1 DEF Kept, CmdInv
  <1> QED BY <1>1, <1>2 DEF Persist, Does

LEMMA EvictKeeps ==
  ASSUME CmdInv, NEW k \in Keys, Evict(k)
  PROVE  Kept
  BY DropKeyFull DEF Evict, Kept, CmdInv

-----------------------------------------------------------------------------
(* Commands on collections.                                                 *)

\* get_hash_mut and its twins leave the collection open, and a new one is
\* empty.
LEMMA ReadyOpens ==
  ASSUME CmdInv, NEW k \in Keys, NEW t \in SlabTags, NEW a \in Ready(k, t)
  PROVE  /\ OpenAt(a, k, t) /\ Coll(a, k) \in CollsOf(t)
         /\ a \in FullArts \/ Coll(a, k) = New(t)
  <1>1. CASE ~Has(art, k)
    <2>1. a = Create(art, k, t)
      BY <1>1 DEF Ready, Live
    <2>2. OpenAt(a, k, t) /\ Coll(a, k) = New(t)
      BY <1>1, <2>1, CreateOpens DEF CmdInv
    <2> QED BY <2>2, OpenColl
  <1>2. CASE Has(art, k)
    <2>1. a = art /\ a.nodes[k].tag = t
      BY <1>2 DEF Ready, Live
    <2>2. OpenAt(a, k, t)
      BY <1>2, <2>1, FullIsOpen DEF CmdInv
    <2> QED BY <2>1, <2>2, OpenColl DEF CmdInv
  <1> QED BY <1>1, <1>2

\* A command replaces the collection that it opened.
LEMMA PutKeeps ==
  ASSUME CmdInv, NEW k \in Keys, NEW t \in SlabTags, NEW a \in Ready(k, t), NEW c \in CollsOf(t),
         t = "Set" \/ ~IsEmpty(t, c), art' = PutColl(a, k, c), UNCHANGED <<now, panicked>>
  PROVE  Kept
  <1>1. PutColl(a, k, c) \in FullArts
    BY ReadyOpens, PutCollKeeps
  <1> QED BY <1>1 DEF Kept, CmdInv

LEMMA TagsAre == "Hash" \in SlabTags /\ "Set" \in SlabTags /\ "ZSet" \in SlabTags
  BY DEF SlabTags

LEMMA CollsAre ==
  /\ CollsOf("Hash") = Hashes(HashTexts) /\ CollsOf("Set") = SUBSET Int /\ CollsOf("ZSet") = ZSets
  BY DEF CollsOf

LEMMA HashNotEmpty ==
  ASSUME NEW h \in CollsOf("Hash"), HFields(h) # {}
  PROVE  ~IsEmpty("Hash", h)
  BY CollsAre, EmptyHash DEF IsEmpty

LEMMA ZSetNotEmpty ==
  ASSUME NEW z \in CollsOf("ZSet"), ZMembers(z) # {}
  PROVE  ~IsEmpty("ZSet", z)
  BY CollsAre, EmptyZSet DEF IsEmpty

LEMMA MembersAreInts == Members \subseteq Int
  <1>1. ASSUME NEW ms \in MemberArgs, NEW m \in ToSet(ms) PROVE m \in Int
    <2>1. ms \in Seq(Int)
      BY ArgAssumptions
    <2> QED BY <2>1 DEF ToSet
  <1> QED BY <1>1 DEF Members

LEMMA HSetKeeps ==
  ASSUME CmdInv, NEW k \in Keys, NEW pairs \in PairArgs, HSet(k, pairs)
  PROVE  Kept
  <1>1. PICK c : c = <<"hset", k, pairs>>
    OBVIOUS
  <1>2. CASE RefusedAt(c, k, "Hash")
    BY <1>2, RefusedKeeps
  <1>3. CASE UnwrapsExpired(k)
    BY <1>3, UnwrapsKeep
  <1>4. ASSUME NEW a \in Ready(k, "Hash"), NEW h, h = HInsertAll(Coll(a, k), pairs)[1],
               art' = PutColl(a, k, h), UNCHANGED <<now, panicked>>
        PROVE  Kept
    <2>1. PICK Y : Y = Int \X Texts
      OBVIOUS
    <2>2. PICK Z : Z = Int \X HashTexts
      OBVIOUS
    <2>3. pairs \in Seq(Y) /\ pairs # <<>>
      BY <2>1, ArgAssumptions
    <2>4. Y \subseteq Z
      BY <2>1, <2>2 DEF HashTexts
    <2>5. pairs \in Seq(Z)
      BY <2>3, <2>4
    <2>6. pairs \in Seq(Int \X HashTexts)
      BY <2>2, <2>5
    <2>7. Coll(a, k) \in Hashes(HashTexts)
      BY ReadyOpens, TagsAre, CollsAre
    <2>8. h \in Hashes(HashTexts) /\ HFields(h) # {}
      BY <1>4, <2>3, <2>6, <2>7, HInsertAllKeeps
    <2>9. h \in CollsOf("Hash") /\ ~IsEmpty("Hash", h)
      BY <2>8, CollsAre, HashNotEmpty
    <2> QED BY <1>4, <2>9, PutKeeps, TagsAre
  <1> QED BY <1>1, <1>2, <1>3, <1>4 DEF HSet, Does

\* HINCRBY of a field that is not there cannot fail: no empty hash is left.
LEMMA HIncrByKeeps ==
  ASSUME CmdInv, NEW k \in Keys, NEW f \in Members, NEW t \in IntArgs, HIncrBy(k, f, t)
  PROVE  Kept
  <1>1. PICK c : c = <<"hincrby", k, f, t>>
    OBVIOUS
  <1>2. CASE Does(c, art, NotInt)
    BY <1>2 DEF Does, Kept, CmdInv
  <1>3. CASE RefusedAt(c, k, "Hash")
    BY <1>3, RefusedKeeps
  <1>4. CASE UnwrapsExpired(k)
    BY <1>4, UnwrapsKeep
  <1>5. ASSUME NEW d \in ParseInt(t), NEW a \in Ready(k, "Hash"),
               \A n \in Current(Coll(a, k), f) : n + d \notin MinInt .. MaxInt,
               art' = a, UNCHANGED <<now, panicked>>
        PROVE  Kept
    <2>1. CASE a \in FullArts
      BY <1>5, <2>1 DEF Kept, CmdInv
    <2>2. CASE Coll(a, k) = New("Hash")
      <3>1. Coll(a, k) = HNew
        BY <2>2, NewIsEmpty, TagsAre
      <3>2. HFields(HNew) = {}
        BY NewHash
      <3>3. Current(Coll(a, k), f) = {0}
        BY <3>1, <3>2 DEF Current
      <3>4. d \in MinInt .. MaxInt
        BY DEF ParseInt
      <3> QED BY <1>5, <3>3, <3>4, IntAssumption
    <2> QED BY <2>1, <2>2, ReadyOpens, TagsAre
  <1>6. ASSUME NEW d \in ParseInt(t), NEW a \in Ready(k, "Hash"),
               NEW n \in Current(Coll(a, k), f), NEW h,
               h = HInsert(Coll(a, k), f, <<"num", n + d>>),
               art' = PutColl(a, k, h), UNCHANGED <<now, panicked>>
        PROVE  Kept
    <2>1. d \in Int /\ n \in Int
      BY IntAssumption DEF ParseInt, Current
    <2>2. <<"num", n + d>> \in HashTexts
      BY <2>1 DEF HashTexts
    <2>3. Coll(a, k) \in Hashes(HashTexts) /\ f \in Int
      BY ReadyOpens, TagsAre, CollsAre, MembersAreInts
    <2>4. h \in Hashes(HashTexts) /\ HFields(h) # {}
      BY <1>6, <2>2, <2>3, HInsertKeeps
    <2>5. h \in CollsOf("Hash") /\ ~IsEmpty("Hash", h)
      BY <2>4, CollsAre, HashNotEmpty
    <2> QED BY <1>6, <2>5, PutKeeps, TagsAre
  <1> QED BY <1>1, <1>2, <1>3, <1>4, <1>5, <1>6 DEF HIncrBy, Does

\* HDEL, SREM and ZREM.
LEMMA ShrinkKeeps ==
  ASSUME CmdInv, NEW k \in Keys, NEW t \in SlabTags, NEW c,
         Has(Lookup(art, k), k), Lookup(art, k).nodes[k].tag = t,
         Coll(Lookup(art, k), k) \in CollsOf(t) => c \in CollsOf(t),
         art' = Shrunk(Lookup(art, k), k, c), UNCHANGED <<now, panicked>>
  PROVE  Kept
  <1>1. PICK a : a = Lookup(art, k)
    OBVIOUS
  <1>2. a \in FullArts
    BY <1>1, LookupFull DEF CmdInv
  <1>3. OpenAt(a, k, t)
    BY <1>1, <1>2, FullIsOpen
  <1>4. c \in CollsOf(t)
    BY <1>1, <1>3, OpenColl
  <1>5. Shrunk(a, k, c) \in FullArts
    BY <1>3, <1>4, ShrunkFull
  <1> QED BY <1>1, <1>5 DEF Kept, CmdInv

LEMMA HDeleteKeeps ==
  ASSUME CmdInv, NEW k \in Keys, NEW fs \in MemberArgs, HDelete(k, fs)
  PROVE  Kept
  <1>1. PICK a : a = Lookup(art, k)
    OBVIOUS
  <1>2. CASE art' = a /\ UNCHANGED <<now, panicked>>
    BY <1>1, <1>2, LookupFull DEF Kept, CmdInv
  <1>3. ASSUME Has(a, k), a.nodes[k].tag = "Hash", NEW h, h = HDelAll(Coll(a, k), fs)[1],
               art' = Shrunk(a, k, h), UNCHANGED <<now, panicked>>
        PROVE  Kept
    <2>1. fs \in Seq(Int)
      BY ArgAssumptions
    <2>2. Coll(a, k) \in CollsOf("Hash") => h \in CollsOf("Hash")
      BY <1>3, <2>1, CollsAre, HDelAllKeeps
    <2> QED BY <1>1, <1>3, <2>2, TagsAre, ShrinkKeeps
  <1> QED BY <1>1, <1>2, <1>3 DEF HDelete, Does

LEMMA SRemKeeps ==
  ASSUME CmdInv, NEW k \in Keys, NEW ms \in MemberArgs, SRem(k, ms)
  PROVE  Kept
  <1>1. PICK a : a = Lookup(art, k)
    OBVIOUS
  <1>2. CASE art' = a /\ UNCHANGED <<now, panicked>>
    BY <1>1, <1>2, LookupFull DEF Kept, CmdInv
  <1>3. ASSUME Has(a, k), a.nodes[k].tag = "Set", NEW s, s = SRemoveAll(Coll(a, k), ms)[1],
               art' = Shrunk(a, k, s), UNCHANGED <<now, panicked>>
        PROVE  Kept
    <2>1. ms \in Seq(Int)
      BY ArgAssumptions
    <2>2. Coll(a, k) \in CollsOf("Set") => s \in CollsOf("Set")
      BY <1>3, <2>1, CollsAre, SRemoveAllKeeps
    <2> QED BY <1>1, <1>3, <2>2, TagsAre, ShrinkKeeps
  <1> QED BY <1>1, <1>2, <1>3 DEF SRem, Does

LEMMA ZRemKeeps ==
  ASSUME CmdInv, NEW k \in Keys, NEW ms \in MemberArgs, ZRem(k, ms)
  PROVE  Kept
  <1>1. PICK a : a = Lookup(art, k)
    OBVIOUS
  <1>2. CASE art' = a /\ UNCHANGED <<now, panicked>>
    BY <1>1, <1>2, LookupFull DEF Kept, CmdInv
  <1>3. ASSUME Has(a, k), a.nodes[k].tag = "ZSet", NEW z, z = ZRemoveAll(Coll(a, k), ms)[1],
               art' = Shrunk(a, k, z), UNCHANGED <<now, panicked>>
        PROVE  Kept
    <2>1. ms \in Seq(Int)
      BY ArgAssumptions
    <2>2. Coll(a, k) \in CollsOf("ZSet") => z \in CollsOf("ZSet")
      BY <1>3, <2>1, CollsAre, ZRemoveAllKeeps
    <2> QED BY <1>1, <1>3, <2>2, TagsAre, ShrinkKeeps
  <1> QED BY <1>1, <1>2, <1>3 DEF ZRem, Does

LEMMA SAddKeeps ==
  ASSUME CmdInv, NEW k \in Keys, NEW ms \in MemberArgs, SAdd(k, ms)
  PROVE  Kept
  <1>1. PICK c : c = <<"sadd", k, ms>>
    OBVIOUS
  <1>2. CASE RefusedAt(c, k, "Set")
    BY <1>2, RefusedKeeps
  <1>3. CASE UnwrapsExpired(k)
    BY <1>3, UnwrapsKeep
  <1>4. ASSUME NEW a \in Ready(k, "Set"), NEW s, s = SInsertAll(Coll(a, k), ms)[1],
               art' = PutColl(a, k, s), UNCHANGED <<now, panicked>>
        PROVE  Kept
    <2>1. ms \in Seq(Int)
      BY ArgAssumptions
    <2>2. Coll(a, k) \in SUBSET Int
      BY ReadyOpens, TagsAre, CollsAre
    <2>3. s \in CollsOf("Set")
      BY <1>4, <2>1, <2>2, SInsertAllKeeps, CollsAre
    <2> QED BY <1>4, <2>3, PutKeeps, TagsAre
  <1> QED BY <1>1, <1>2, <1>3, <1>4 DEF SAdd, Does

LEMMA SPopKeeps ==
  ASSUME CmdInv, NEW k \in Keys, NEW t, SPop(k, t)
  PROVE  Kept
  <1>1. PICK c : c = <<"spop", k, t>>
    OBVIOUS
  <1>2. CASE RefusedAt(c, k, "Set")
    BY <1>2, RefusedKeeps
  <1>3. CASE UnwrapsExpired(k)
    BY <1>3, UnwrapsKeep
  <1>4. CASE Does(c, art, NotInt)
    BY <1>4 DEF Does, Kept, CmdInv
  <1>5. ASSUME NEW a \in Ready(k, "Set"), NEW out,
               art' = PutColl(a, k, Coll(a, k) \ ToSet(out)), UNCHANGED <<now, panicked>>
        PROVE  Kept
    <2>1. Coll(a, k) \in SUBSET Int
      BY ReadyOpens, TagsAre, CollsAre
    <2>2. Coll(a, k) \ ToSet(out) \in CollsOf("Set")
      BY <2>1, CollsAre
    <2> QED BY <1>5, <2>2, PutKeeps, TagsAre
  <1> QED BY <1>1, <1>2, <1>3, <1>4, <1>5 DEF SPop, Does

LEMMA SListsKeep ==
  ASSUME CmdInv, NEW k \in Keys, SMembers(k) \/ SCard(k)
  PROVE  Kept
  <1>1. PICK a : a = Lookup(art, k)
    OBVIOUS
  <1>2. art' = Tidied(a, k) /\ UNCHANGED <<now, panicked>>
    BY <1>1 DEF SMembers, SCard, Does
  <1>3. a \in FullArts
    BY <1>1, LookupFull DEF CmdInv
  <1>4. Tidied(a, k) \in FullArts
    BY <1>3, DropKeyFull DEF Tidied
  <1> QED BY <1>2, <1>4 DEF Kept, CmdInv

LEMMA NumberIsInt == ASSUME NEW t \in AnyText, t[1] = "num" PROVE t[2] \in Int
  BY DEF AnyText

\* The scores and members of ZADD, parsed.
Scored(args) == [i \in DOMAIN args |-> <<args[i][1][2], args[i][2]>>]

LEMMA ScoredIsSeq ==
  ASSUME NEW args \in ScoreArgs, ~\E i \in DOMAIN args : args[i][1][1] # "num"
  PROVE  Scored(args) \in Seq(Int \X Int) /\ Scored(args) # <<>>
  <1>1. PICK Y : Y = AnyText \X Int
    OBVIOUS
  <1>2. PICK Z : Z = Int \X Int
    OBVIOUS
  <1>3. args \in Seq(Y) /\ args # <<>>
    BY <1>1, ArgAssumptions
  <1>4. PICK n \in Nat : n = Len(args) /\ DOMAIN args = 1 .. n /\ \A i \in 1 .. n : args[i] \in Y
    BY <1>3
  <1>5. ASSUME NEW i \in 1 .. n PROVE <<args[i][1][2], args[i][2]>> \in Z
    <2>1. args[i][1] \in AnyText /\ args[i][2] \in Int
      BY <1>1, <1>4
    <2>2. args[i][1][2] \in Int
      BY <1>4, <2>1, NumberIsInt
    <2> QED BY <1>2, <2>1, <2>2
  <1>6. Scored(args) \in [1 .. n -> Z]
    BY <1>4, <1>5 DEF Scored
  <1>7. n # 0
    BY <1>3, <1>4, EmptySeq
  <1>8. Scored(args) \in Seq(Z) /\ Len(Scored(args)) = n
    BY <1>6
  <1>9. Scored(args) # <<>>
    BY <1>7, <1>8, EmptySeq
  <1> QED BY <1>2, <1>8, <1>9

LEMMA ZAddKeeps ==
  ASSUME CmdInv, NEW k \in Keys, NEW args \in ScoreArgs, ZAdd(k, args)
  PROVE  Kept
  <1>1. PICK c : c = <<"zadd", k, args>>
    OBVIOUS
  <1>2. CASE RefusedAt(c, k, "ZSet")
    BY <1>2, RefusedKeeps
  <1>3. CASE UnwrapsExpired(k)
    BY <1>3, UnwrapsKeep
  <1>4. CASE Does(c, art, Failed("not a float"))
    BY <1>4 DEF Does, Kept, CmdInv
  <1>5. ASSUME ~\E i \in DOMAIN args : args[i][1][1] # "num",
               NEW a \in Ready(k, "ZSet"), NEW z, z = ZInsertAll(Coll(a, k), Scored(args))[1],
               art' = PutColl(a, k, z), UNCHANGED <<now, panicked>>
        PROVE  Kept
    <2>1. PICK ms : ms = Scored(args)
      OBVIOUS
    <2>2. ms \in Seq(Int \X Int) /\ ms # <<>>
      BY <1>5, <2>1, ScoredIsSeq
    <2>3. Coll(a, k) \in ZSets
      BY ReadyOpens, TagsAre, CollsAre
    <2>4. z \in ZSets /\ ZMembers(z) # {}
      BY <1>5, <2>1, <2>2, <2>3, ZInsertAllKeeps
    <2>5. z \in CollsOf("ZSet") /\ ~IsEmpty("ZSet", z)
      BY <2>4, CollsAre, ZSetNotEmpty
    <2> QED BY <1>5, <2>5, PutKeeps, TagsAre
  <1> QED BY <1>1, <1>2, <1>3, <1>4, <1>5 DEF ZAdd, Does, Scored

LEMMA ScoreIsInt ==
  ASSUME NEW z \in ZSets, NEW m \in ZMembers(z)
  PROVE  ZScore(z, m) \in Int
  <1>1. CASE \E scores \in Maps(Int) :
               z = [kind |-> "Large", sorted |-> Graph(scores), scores |-> scores]
    <2>1. PICK scores \in Maps(Int) :
                z = [kind |-> "Large", sorted |-> Graph(scores), scores |-> scores]
      BY <1>1
    <2>2. m \in DOMAIN scores /\ ZScore(z, m) = scores[m]
      BY <2>1 DEF ZMembers, ZScore
    <2> QED BY <2>2 DEF Maps
  <1>2. CASE \E vec \in ZVecs : z = [kind |-> "Small", vec |-> vec]
    <2>1. PICK vec \in ZVecs : z = [kind |-> "Small", vec |-> vec]
      BY <1>2
    <2>2. PICK i : i = (CHOOSE x \in At(vec, 2, m) : TRUE)
      OBVIOUS
    <2>3. At(vec, 2, m) # {}
      BY <2>1 DEF ZMembers, At
    <2>4. i \in DOMAIN vec
      BY <2>2, <2>3 DEF At
    <2>5. ZScore(z, m) = vec[i][1]
      BY <2>1, <2>2 DEF ZScore
    <2>6. vec[i] \in Int \X Int
      BY <2>4 DEF ZVecs
    <2> QED BY <2>5, <2>6
  <1> QED BY <1>1, <1>2, ZSetIs

LEMMA ZIncrByKeeps ==
  ASSUME CmdInv, NEW k \in Keys, NEW m \in Members, NEW t \in IntArgs, ZIncrBy(k, t, m)
  PROVE  Kept
  <1>1. PICK c : c = <<"zincrby", k, t, m>>
    OBVIOUS
  <1>2. CASE RefusedAt(c, k, "ZSet")
    BY <1>2, RefusedKeeps
  <1>3. CASE UnwrapsExpired(k)
    BY <1>3, UnwrapsKeep
  <1>4. CASE Does(c, art, Failed("not a float"))
    BY <1>4 DEF Does, Kept, CmdInv
  <1>5. ASSUME t[1] = "num", NEW a \in Ready(k, "ZSet"), NEW s, NEW z,
               s = t[2] + (IF m \in ZMembers(Coll(a, k)) THEN ZScore(Coll(a, k), m) ELSE 0),
               z = ZInsert(Coll(a, k), s, m),
               art' = PutColl(a, k, z), UNCHANGED <<now, panicked>>
        PROVE  Kept
    <2>1. Coll(a, k) \in ZSets /\ m \in Int
      BY ReadyOpens, TagsAre, CollsAre, MembersAreInts
    <2>2. t[2] \in Int
      BY <1>5, ArgAssumptions, NumberIsInt
    <2>3. (IF m \in ZMembers(Coll(a, k)) THEN ZScore(Coll(a, k), m) ELSE 0) \in Int
      BY <2>1, ScoreIsInt
    <2>4. s \in Int
      BY <1>5, <2>2, <2>3
    <2>5. z \in ZSets /\ ZMembers(z) # {}
      BY <1>5, <2>1, <2>4, ZInsertKeeps
    <2>6. z \in CollsOf("ZSet") /\ ~IsEmpty("ZSet", z)
      BY <2>5, CollsAre, ZSetNotEmpty
    <2> QED BY <1>5, <2>6, PutKeeps, TagsAre
  <1> QED BY <1>1, <1>2, <1>3, <1>4, <1>5 DEF ZIncrBy, Does

-----------------------------------------------------------------------------
(* The invariant is inductive.                                              *)

LEMMA CmdInit == Init => CmdInv
  <1> SUFFICES ASSUME Init PROVE CmdInv
    OBVIOUS
  <1>1. PICK none : none = <<>>
    OBVIOUS
  <1>2. DOMAIN none = {} /\ none \in Seq(Keys)
    BY <1>1, EmptySeq
  <1>3. none = [x \in {} |-> x]
    BY <1>2
  <1>4. none \in Nodes
    <2>1. none \in [{} -> Entries]
      BY <1>3
    <2> QED BY <2>1 DEF Nodes
  <1>5. PICK S : S = [t \in SlabTags |-> none]
    OBVIOUS
  <1>6. \A t \in SlabTags : S[t] = none /\ none \in Slots(t)
    <2>1. ASSUME NEW t \in SlabTags PROVE none \in Slots(t)
      <3>1. none \in [{} -> CollsOf(t)]
        BY <1>3
      <3> QED BY <3>1 DEF Slots
    <2> QED BY <1>5, <2>1
  <1>7. S \in Slabs
    <2>1. S \in [SlabTags -> UNION {Slots(t) : t \in SlabTags}]
      BY <1>5, <1>6
    <2> QED BY <1>6, <2>1 DEF Slabs
  <1>8. Linked(none, S) /\ Full(none, S)
    BY <1>2, <1>6 DEF Linked, Owns, Full
  <1>9. art = Art(none, S)
    BY <1>1, <1>5 DEF Init, Art
  <1>10. art \in FullArts
    BY <1>4, <1>7, <1>8, <1>9, MakeFullArt
  <1>11. now \in 0 .. MaxNow
    BY CommandAssumptions DEF Init
  <1>12. panicked \in BOOLEAN
    BY DEF Init
  <1> QED BY <1>10, <1>11, <1>12 DEF CmdInv

LEMMA CmdNext == CmdInv /\ [Next]_vars => CmdInv'
  <1> SUFFICES ASSUME CmdInv, [Next]_vars PROVE CmdInv'
    OBVIOUS
  <1>0. HKeys \subseteq Keys /\ SKeys \subseteq Keys /\ ZKeys \subseteq Keys
    BY CommandAssumptions
  <1>1. CASE UNCHANGED vars
    BY <1>1 DEF CmdInv, vars
  <1>2. CASE \E t \in 0 .. MaxNow : Tick(t)
    BY <1>2 DEF CmdInv, Tick
  <1>3. CASE Kept
    BY <1>3 DEF CmdInv, Kept
  <1>4. ASSUME NEW k \in Keys, Get(k) \/ Type(k) \/ Ttl(k) \/ Persist(k) \/ Evict(k) PROVE Kept
    BY <1>4, ReadsKeep, IdleKeeps, PersistKeeps, EvictKeeps
  <1>5. ASSUME NEW k \in Keys, NEW v \in Texts, NEW o \in OptArgs, Set(k, v, o) PROVE Kept
    BY <1>5, SetKeeps
  <1>6. ASSUME NEW k \in Keys, NEW v \in Texts, SetNx(k, v) \/ (\E t \in SecArgs : SetEx(k, t, v))
        PROVE  Kept
    BY <1>6, SetNxKeeps, SetExKeeps
  <1>7. ASSUME NEW ks \in KeyArgs, MGet(ks) \/ Del(ks) \/ Exists(ks) PROVE Kept
    BY <1>7, ReadManyKeeps, DropsKeep
  <1>8. ASSUME NEW ks \in KeyArgs, NEW v \in Texts, MSet([i \in DOMAIN ks |-> <<ks[i], v>>])
        PROVE  Kept
    BY <1>8, MSetKeeps
  <1>9. ASSUME NEW k \in Keys, NEW t, IncrBy(k, t) \/ Expire(k, t) \/ PExpire(k, t)
        PROVE  Kept
    BY <1>9, IncrByKeeps, ExpiresKeep
  <1>10. CASE DbSize \/ FlushDb \/ Misuse
    BY <1>3, <1>10, IdleKeeps, DropsKeep
  <1>11. ASSUME NEW k \in HKeys,
                \/ \E pairs \in PairArgs : HSet(k, pairs)
                \/ \E f \in Members, t \in IntArgs : HIncrBy(k, f, t)
                \/ \E fs \in MemberArgs : HDelete(k, fs) \/ HMGet(k, fs)
                \/ \E f \in Members : HValue(k, f)
                \/ HGetAll(k) \/ HLength(k)
         PROVE  Kept
    BY <1>0, <1>11, HSetKeeps, HIncrByKeeps, HDeleteKeeps, ReadsKeep
  <1>12. ASSUME NEW k \in SKeys,
                \/ \E ms \in MemberArgs : SAdd(k, ms) \/ SRem(k, ms)
                \/ \E t \in PopArgs : SPop(k, t)
                \/ \E m \in Members : SIsMember(k, m)
                \/ SMembers(k) \/ SCard(k)
         PROVE  Kept
    BY <1>0, <1>12, SAddKeeps, SRemKeeps, SPopKeeps, ReadsKeep, SListsKeep
  <1>13. ASSUME NEW k \in ZKeys,
                \/ \E args \in ScoreArgs : ZAdd(k, args)
                \/ \E m \in Members, t \in IntArgs : ZIncrBy(k, t, m)
                \/ \E ms \in MemberArgs : ZRem(k, ms)
                \/ \E m \in Members : ZValue(k, m)
                \/ ZCard(k) \/ (\E r \in RangeArgs : ZSlice(k, r))
         PROVE  Kept
    BY <1>0, <1>13, ZAddKeeps, ZIncrByKeeps, ZRemKeeps, ReadsKeep, ZSliceKeeps
  <1> QED BY <1>1, <1>2, <1>3, <1>4, <1>5, <1>6, <1>7, <1>8, <1>9, <1>10, <1>11, <1>12, <1>13 DEF Next, Calls

-----------------------------------------------------------------------------
(* What the invariant says.                                                 *)

LEMMA CmdType == CmdInv => TypeOK
  <1> SUFFICES ASSUME CmdInv PROVE TypeOK
    OBVIOUS
  <1>1. PICK N \in Nodes, S \in Slabs : art = Art(N, S)
    BY FullArtIs DEF CmdInv
  <1>2. art.nodes = N /\ art.slabs = S
    BY <1>1, ArtFields
  <1>3. DOMAIN N \subseteq Keys /\ DOMAIN S = SlabTags
    BY NodesShape DEF Slabs
  <1>4. ASSUME NEW k \in DOMAIN N
        PROVE  /\ N[k].exp \in 0 .. NoExpiracy
               /\ CASE N[k].tag = "Bytes" -> N[k].val \in Texts
                    [] N[k].tag = "Int"   -> N[k].val \in MinInt .. MaxInt
                    [] OTHER -> N[k].tag \in SlabTags /\ N[k].val \in SlabIdx
    <2>1. N[k] \in Entries
      BY NodesShape
    <2>2. PICK t, v : t = N[k].tag /\ v = N[k].val
      OBVIOUS
    <2>3. /\ t \in {"Bytes", "Int"} \cup SlabTags /\ N[k].exp \in 0 .. NoExpiracy
          /\ t = "Bytes" => v \in Texts
          /\ t = "Int" => v \in MinInt .. MaxInt
          /\ t \in SlabTags => v \in SlabIdx
      BY <2>1, <2>2 DEF Entries
    <2> QED BY <2>2, <2>3
  <1> QED BY <1>2, <1>3, <1>4 DEF TypeOK, CmdInv

LEMMA CmdSlabs == CmdInv => SlabsOwned
  <1> SUFFICES ASSUME CmdInv PROVE SlabsOwned
    OBVIOUS
  <1>1. PICK N \in Nodes, S \in Slabs : art = Art(N, S) /\ Linked(N, S)
    BY FullArtIs DEF CmdInv
  <1>2. art.nodes = N /\ art.slabs = S
    BY <1>1, ArtFields
  <1>3. ASSUME NEW t \in SlabTags, NEW owners, owners = {k \in DOMAIN N : N[k].tag = t}
        PROVE  /\ {N[k].val : k \in owners} = DOMAIN S[t]
               /\ \A j, k \in owners : N[j].val = N[k].val => j = k
    <2>1. \A k \in owners : Owns(N, k, t, N[k].val)
      BY <1>3 DEF Owns
    <2>2. \A k, i : Owns(N, k, t, i) => k \in owners /\ N[k].val = i
      BY <1>3 DEF Owns
    <2>3. /\ \A k, i : Owns(N, k, t, i) => i \in DOMAIN S[t]
          /\ \A i \in DOMAIN S[t] : \E k : Owns(N, k, t, i)
          /\ \A j, k, i : Owns(N, j, t, i) /\ Owns(N, k, t, i) => j = k
      BY <1>1 DEF Linked
    <2>4. \A k \in owners : N[k].val \in DOMAIN S[t]
      BY <2>1, <2>3
    <2>5. \A i \in DOMAIN S[t] : \E k \in owners : N[k].val = i
      BY <2>2, <2>3
    <2>6. \A j, k \in owners : N[j].val = N[k].val => j = k
      BY <2>1, <2>3
    <2> QED BY <2>4, <2>5, <2>6
  <1>4. ASSUME NEW t \in SlabTags
        PROVE  LET owners == {k \in DOMAIN art.nodes : art.nodes[k].tag = t}
               IN  /\ {art.nodes[k].val : k \in owners} = DOMAIN art.slabs[t]
                   /\ \A j, k \in owners : art.nodes[j].val = art.nodes[k].val => j = k
    <2>1. PICK owners : owners = {k \in DOMAIN N : N[k].tag = t}
      OBVIOUS
    <2>2. /\ {N[k].val : k \in owners} = DOMAIN S[t]
          /\ \A j, k \in owners : N[j].val = N[k].val => j = k
      BY <1>3, <2>1
    <2> QED BY <1>2, <2>1, <2>2
  <1> QED BY <1>4 DEF SlabsOwned

\* A well-formed sorted set has its indices in sync.
LEMMA ZSetInSync ==
  ASSUME NEW z \in ZSets
  PROVE  IF z.kind = "Large" THEN z.sorted = {<<z.scores[m], m>> : m \in DOMAIN z.scores}
         ELSE /\ Len(z.vec) <= THRESHOLD
              /\ Cardinality(ZMembers(z)) = Len(z.vec)
              /\ \A j \in 1 .. Len(z.vec) - 1 : Before(z.vec[j], z.vec[j + 1])
  <1>1. CASE z \in ZLarge
    BY <1>1 DEF ZLarge, Graph
  <1>2. CASE z \in [kind : {"Small"}, vec : ZVecs]
    <2>1. PICK vec \in ZVecs : z = [kind |-> "Small", vec |-> vec]
      BY <1>2
    <2>2. PICK n \in Nat : n = Len(vec) /\ DOMAIN vec = 1 .. n
      BY DEF ZVecs
    <2>3. n <= THRESHOLD /\ EachOnce(vec, 2) /\ Ascending(vec)
      BY <2>2 DEF ZVecs
    <2>4. PICK T : T = ZMembers(z)
      OBVIOUS
    <2>5. T = {vec[i][2] : i \in 1 .. n}
      BY <2>1, <2>2, <2>4 DEF ZMembers
    <2>6. PICK f : f = [i \in 1 .. n |-> vec[i][2]]
      OBVIOUS
    <2>7. f \in [1 .. n -> T] /\ \A m \in T : \E i \in 1 .. n : f[i] = m
      BY <2>5, <2>6
    <2>8. \A i, j \in 1 .. n : f[i] = f[j] => i = j
      BY <2>2, <2>3, <2>6 DEF EachOnce
    <2>9. f \in Bijection(1 .. n, T)
      BY <2>7, <2>8, Fun_IsBij
    <2>10. ExistsBijection(1 .. n, T)
      BY <2>9 DEF ExistsBijection
    <2>11. IsFiniteSet(1 .. n) /\ Cardinality(1 .. n) = n
      BY FS_Interval
    <2>12. Cardinality(T) = n
      BY <2>10, <2>11, FS_Bijection
    <2>13. ASSUME NEW j \in 1 .. n - 1 PROVE Before(vec[j], vec[j + 1])
      <3>1. j \in 1 .. n /\ j + 1 \in 1 .. n /\ j < j + 1
        OBVIOUS
      <3> QED BY <2>2, <2>3, <3>1 DEF Ascending
    <2>14. z.kind = "Small" /\ z.vec = vec
      BY <2>1
    <2> QED BY <2>2, <2>3, <2>4, <2>12, <2>13, <2>14
  <1> QED BY <1>1, <1>2 DEF ZSets

LEMMA CmdIndices == CmdInv => IndicesInSync
  <1> SUFFICES ASSUME CmdInv PROVE IndicesInSync
    OBVIOUS
  <1>1. PICK N \in Nodes, S \in Slabs : art = Art(N, S)
    BY FullArtIs DEF CmdInv
  <1>2. art.slabs = S
    BY <1>1, ArtFields
  <1>3. \A i \in DOMAIN S["ZSet"] : S["ZSet"][i] \in ZSets
    BY SlotsShape, TagsAre, CollsAre
  <1> QED BY <1>2, <1>3, ZSetInSync DEF IndicesInSync

LEMMA CmdFull == CmdInv => NoEmptyHashOrZSet
  BY DEF CmdInv, FullArts, Full, NoEmptyHashOrZSet, Coll

-----------------------------------------------------------------------------
(* The theorems.                                                            *)

\* The store is well formed, and full between two commands, in every state.
THEOREM CommandsInv == Spec => []CmdInv
  BY CmdInit, CmdNext, PTL DEF Spec

\* Whatever the keys, the texts and the arguments are, every node has a value
\* of the kind its tag says and an expiry that fits the 56 bits of set_exp.
THEOREM CommandsTypeOK == Spec => []TypeOK
  BY CommandsInv, CmdType, PTL

\* Overwriting, deleting, expiring and evicting release the slot of a
\* collection exactly once, and creation finds a slot that nobody owns: every
\* slot has one owner.
THEOREM CommandsSlabsOwned == Spec => []SlabsOwned
  BY CommandsInv, CmdSlabs, PTL

\* Whatever the threshold is, insertions, changes of a score, promotion and
\* removals keep the two indices of a large sorted set in sync and a small one
\* in strict order with each member once.
THEOREM CommandsIndicesInSync == Spec => []IndicesInSync
  BY CommandsInv, CmdIndices, PTL

\* No command leaves an empty hash or sorted set under its key: HDEL and ZREM
\* take the key with the last entry, and HSET, HINCRBY, ZADD and ZINCRBY leave
\* an entry in what they create.
THEOREM CommandsNoEmpty == Spec => []NoEmptyHashOrZSet
  BY CommandsInv, CmdFull, PTL
=============================================================================
