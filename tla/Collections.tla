---------------------------- MODULE Collections ----------------------------
(***************************************************************************)
(* The values a key can hold besides a string, as the code represents      *)
(* them: hashes (InnerHCommand) and sorted sets (InnerZCommand) are a      *)
(* short vector that is promoted, when it is full, to a structure with     *)
(* indices, and never demoted.  Sets are a BTreeSet: a set of members.     *)
(* Fields and members are integers, in the order of their bytes; so are    *)
(* scores.  Hash values are opaque here.                                   *)
(***************************************************************************)
EXTENDS Integers, Sequences, FiniteSets, SequencesExt

CONSTANT THRESHOLD   \* entries that the vector of a collection may hold
ASSUME ThresholdAssumption == THRESHOLD \in Nat \ {0}

\* Positions of a vector of pairs whose component c is x.
At(vec, c, x) == {i \in DOMAIN vec : vec[i][c] = x}

\* f with x mapped to y.
Bind(f, x, y) == [z \in DOMAIN f \cup {x} |-> IF z = x THEN y ELSE f[z]]
Unbind(f, x)  == [z \in DOMAIN f \ {x} |-> f[z]]

-----------------------------------------------------------------------------
(* Hashes.                                                                  *)

HNew == [kind |-> "Small", vec |-> <<>>]

HFields(h) == IF h.kind = "Small" THEN {h.vec[i][1] : i \in DOMAIN h.vec}
                                  ELSE DOMAIN h.map

HLen(h) == IF h.kind = "Small" THEN Len(h.vec) ELSE Cardinality(DOMAIN h.map)

\* The value of a field: of the first pair that has it, in a vector.
HGet(h, f) == IF h.kind = "Small" THEN h.vec[CHOOSE i \in At(h.vec, 1, f) :
                                               \A j \in At(h.vec, 1, f) : i <= j][2]
                                  ELSE h.map[f]

\* Seeded bug: the promotion forgets the field that caused it.
HPromoteDrops(vec, f, v) ==
  [kind |-> "Large", map |-> [x \in {vec[i][1] : i \in DOMAIN vec} |->
                                vec[CHOOSE i \in At(vec, 1, x) : TRUE][2]]]

HPromote(vec, f, v) ==
  [kind |-> "Large",
   map  |-> Bind([x \in {vec[i][1] : i \in DOMAIN vec} |->
                    vec[CHOOSE i \in At(vec, 1, x) : TRUE][2]], f, v)]

HInsert(h, f, v) ==
  IF h.kind = "Large" THEN [h EXCEPT !.map = Bind(@, f, v)]
  ELSE IF At(h.vec, 1, f) # {}
  THEN [h EXCEPT !.vec = [i \in DOMAIN @ |-> IF i \in At(@, 1, f) THEN <<f, v>> ELSE @[i]]]
  ELSE IF Len(h.vec) >= THRESHOLD THEN HPromote(h.vec, f, v)
  ELSE [h EXCEPT !.vec = Append(@, <<f, v>>)]

\* The last pair takes the place of the removed one.
SwapRemove(vec, i) ==
  [j \in 1 .. Len(vec) - 1 |-> IF j = i THEN vec[Len(vec)] ELSE vec[j]]

HDel(h, f) ==
  IF f \notin HFields(h) THEN h
  ELSE IF h.kind = "Large" THEN [h EXCEPT !.map = Unbind(@, f)]
  ELSE [h EXCEPT !.vec = SwapRemove(@, CHOOSE i \in At(@, 1, f) : TRUE)]

\* HGETALL, HKEYS and HVALS: how many pairs are listed, and which.  Their
\* order is the vector's or the HashMap's, and is left out.
HAll(h) ==
  IF h.kind = "Small" THEN <<Len(h.vec), {h.vec[i] : i \in DOMAIN h.vec}>>
  ELSE <<Cardinality(DOMAIN h.map), {<<f, h.map[f]>> : f \in DOMAIN h.map}>>

-----------------------------------------------------------------------------
(* Sorted sets: pairs of a score and a member.                              *)

ZNew == [kind |-> "Small", vec |-> <<>>]

\* The order of the tuples (score, member).
Before(p, q) == p[1] < q[1] \/ (p[1] = q[1] /\ p[2] < q[2])

PartitionPoint(vec, p) ==
  CHOOSE n \in 0 .. Len(vec) :
    /\ \A i \in 1 .. n : Before(vec[i], p)
    /\ n < Len(vec) => ~Before(vec[n + 1], p)

SortedInsert(vec, p) == InsertAt(vec, PartitionPoint(vec, p) + 1, p)

ZMembers(z) == IF z.kind = "Small" THEN {z.vec[i][2] : i \in DOMAIN z.vec}
                                   ELSE DOMAIN z.scores

ZLen(z) == IF z.kind = "Small" THEN Len(z.vec) ELSE Cardinality(DOMAIN z.scores)

ZScore(z, m) == IF z.kind = "Small" THEN z.vec[CHOOSE i \in At(z.vec, 2, m) : TRUE][1]
                                    ELSE z.scores[m]

\* Seeded bug: the old entry stays in the sorted index.
LargeInsertKeepsOld(z, s, m) ==
  IF m \in DOMAIN z.scores /\ z.scores[m] = s THEN z
  ELSE [z EXCEPT !.sorted = @ \cup {<<s, m>>}, !.scores = Bind(@, m, s)]

\* ZSetInner::insert.
LargeInsert(z, s, m) ==
  CASE m \in DOMAIN z.scores /\ z.scores[m] = s -> z
    [] m \in DOMAIN z.scores /\ z.scores[m] # s ->
         [z EXCEPT !.sorted = (@ \ {<<z.scores[m], m>>}) \cup {<<s, m>>},
                   !.scores = Bind(@, m, s)]
    [] OTHER -> [z EXCEPT !.sorted = @ \cup {<<s, m>>}, !.scores = Bind(@, m, s)]

ZPromote(vec, s, m) ==
  [kind   |-> "Large",
   sorted |-> {vec[i] : i \in DOMAIN vec} \cup {<<s, m>>},
   scores |-> Bind([x \in {vec[i][2] : i \in DOMAIN vec} |->
                      vec[CHOOSE i \in At(vec, 2, x) : TRUE][1]], m, s)]

\* A member whose score changes is taken out and inserted in order.
SmallInsert(vec, s, m) ==
  IF At(vec, 2, m) = {} THEN SortedInsert(vec, <<s, m>>)
  ELSE LET i == CHOOSE i \in At(vec, 2, m) : TRUE
       IN  IF vec[i][1] = s THEN vec ELSE SortedInsert(RemoveAt(vec, i), <<s, m>>)

ZInsert(z, s, m) ==
  CASE z.kind = "Large" -> LargeInsert(z, s, m)
    [] z.kind = "Small" /\ At(z.vec, 2, m) = {} /\ Len(z.vec) >= THRESHOLD -> ZPromote(z.vec, s, m)
    [] OTHER -> [z EXCEPT !.vec = SmallInsert(@, s, m)]

\* ZSetInner::remove, of a member.
LargeRemove(z, m) == [z EXCEPT !.sorted = @ \ {<<z.scores[m], m>>}, !.scores = Unbind(@, m)]

ZRemove(z, m) ==
  CASE m \notin ZMembers(z) -> z
    [] m \in ZMembers(z) /\ z.kind = "Large" -> LargeRemove(z, m)
    [] OTHER -> [z EXCEPT !.vec = RemoveAt(@, CHOOSE i \in At(@, 2, m) : TRUE)]

\* The pairs in ascending order.
ZIter(z) == IF z.kind = "Small" THEN z.vec ELSE SetToSortSeq(z.sorted, Before)

\* ZRANGE: positions count from 0, negative ones from the end.
Normal(i, len, top) == IF i < 0 THEN (IF len + i > 0 THEN len + i ELSE 0)
                                ELSE (IF i < top THEN i ELSE top)

ZRange(z, start, stop) ==
  LET len  == ZLen(z)
      from == Normal(start, len, len)
      to   == Normal(stop, len, len - 1)
  IN  IF len = 0 \/ from > to THEN <<>> ELSE SubSeq(ZIter(z), from + 1, to + 1)

-----------------------------------------------------------------------------
(* Loops over the arguments of a command: the collection they leave, and    *)
(* how many of them counted.                                                *)

HInsertAll(h, pairs) ==
  FoldLeft(LAMBDA acc, p : <<HInsert(acc[1], p[1], p[2]),
                             IF p[1] \in HFields(acc[1]) THEN acc[2] ELSE acc[2] + 1>>,
           <<h, 0>>, pairs)

HDelAll(h, fields) ==
  FoldLeft(LAMBDA acc, f : <<HDel(acc[1], f),
                             IF f \in HFields(acc[1]) THEN acc[2] + 1 ELSE acc[2]>>,
           <<h, 0>>, fields)

ZInsertAll(z, pairs) ==
  FoldLeft(LAMBDA acc, p : <<ZInsert(acc[1], p[1], p[2]),
                             IF p[2] \in ZMembers(acc[1]) THEN acc[2] ELSE acc[2] + 1>>,
           <<z, 0>>, pairs)

ZRemoveAll(z, members) ==
  FoldLeft(LAMBDA acc, m : <<ZRemove(acc[1], m),
                             IF m \in ZMembers(acc[1]) THEN acc[2] + 1 ELSE acc[2]>>,
           <<z, 0>>, members)

SInsertAll(s, members) ==
  FoldLeft(LAMBDA acc, m : <<acc[1] \cup {m},
                             IF m \in acc[1] THEN acc[2] ELSE acc[2] + 1>>,
           <<s, 0>>, members)

SRemoveAll(s, members) ==
  FoldLeft(LAMBDA acc, m : <<acc[1] \ {m},
                             IF m \in acc[1] THEN acc[2] + 1 ELSE acc[2]>>,
           <<s, 0>>, members)

\* SPOP: pop_last until enough members are out or none is left; the members
\* that go, in that order, and those that stay.
SPopped(s, count) ==
  LET order == SetToSortSeq(s, LAMBDA x, y : x > y)
  IN  SubSeq(order, 1, IF count < Len(order) THEN count ELSE Len(order))
=============================================================================
