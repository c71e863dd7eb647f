---------------------------- MODULE OxidArtProofs ----------------------------
(***************************************************************************)
(* The tree stays a tree, for every set of keys, values and slots, every   *)
(* size of the child lists and every clock.                                *)
(*                                                                         *)
(* The invariant is Forest: no link dangles or leads to a root, no node is *)
(* linked twice, and every set of slots that has the roots and is closed   *)
(* under links has all slots.  The last part is what makes a cycle or a    *)
(* leak impossible, and takes the place of an induction over the tree: to  *)
(* show that a rewritten tree is a forest again, a closed set of the new   *)
(* one is turned into a closed set of the old.  A forest may have several  *)
(* roots, since a delete cuts a subtree off before it frees it.            *)
(*                                                                         *)
(* Every operation rewrites the tree in a few ways: a node is rewritten in *)
(* place, one is hung under another, an edge is split, an only child is    *)
(* absorbed, a subtree is dropped.  There is one lemma for what each way   *)
(* does to Forest, and one for what it does to AllBranchBut (a node has a  *)
(* value or two children), and then one case per action.                   *)
(*                                                                         *)
(* Some calls break the tree in this code.  Orderly, RootKept and          *)
(* NoneOverhung are what has to be assumed of a behaviour, and each        *)
(* excludes no more than those calls.                                      *)
(***************************************************************************)
EXTENDS OxidArt, FiniteSetTheorems, FunctionTheorems, SequenceTheorems, TLAPS

-----------------------------------------------------------------------------
(* Induction over an interval, and the functions it defines.                *)

LEMMA IntervalInduction ==
  ASSUME NEW n \in Nat, NEW S, 0 \in S, \A i \in 0 .. n - 1 : i \in S => i + 1 \in S
  PROVE  \A i \in 0 .. n : i \in S
  <1> SUFFICES ASSUME NEW m \in 0 .. n, m \notin S PROVE FALSE
    OBVIOUS
  <1>1. PICK T : T = {i \in 0 .. m : i \in S}
    OBVIOUS
  <1>2. m \in Nat /\ T \in SUBSET (0 .. m) /\ 0 \in T
    BY <1>1
  <1>3. IsFiniteSet(0 .. m)
    BY <1>2, FS_Interval
  <1>4. IsFiniteSet(T)
    BY <1>2, <1>3, FS_Subset
  <1>5. \A i \in T : i + 1 \in T \ {0}
    <2> SUFFICES ASSUME NEW i \in T PROVE i + 1 \in T \ {0}
      OBVIOUS
    <2>1. i \in 0 .. m /\ i \in S /\ i # m
      BY <1>1
    <2>2. i \in 0 .. n - 1 /\ i + 1 \in 0 .. m /\ i + 1 # 0
      BY <2>1
    <2> QED BY <1>1, <2>1, <2>2
  <1>6. PICK f : f = [i \in T |-> i + 1]
    OBVIOUS
  <1>7. f \in [T -> T \ {0}]
    BY <1>5, <1>6
  <1>8. \A i, j \in T : f[i] = f[j] => i = j
    <2>1. \A i, j \in T : i \in Int /\ j \in Int
      BY <1>2
    <2> QED BY <1>6, <2>1
  <1>9. f \in Injection(T, T \ {0})
    BY <1>7, <1>8, Fun_IsInj
  <1>11. /\ IsFiniteSet(T \ {0}) /\ Cardinality(T \ {0}) = Cardinality(T) - 1
    BY <1>2, <1>4, FS_RemoveElement
  <1>12. Cardinality(T) <= Cardinality(T \ {0})
    BY <1>9, <1>11, FS_Injection
  <1>13. Cardinality(T) \in Nat
    BY <1>4, FS_CardinalityType
  <1> QED BY <1>11, <1>12, <1>13

\* f follows next from every state in go and answers out in the others.
Follows(f, D, go, next, out) == f = [x \in D |-> IF x \in go THEN f[next[x]] ELSE out[x]]

\* There is such a function when each step takes the rank down.
LEMMA FollowsExists ==
  ASSUME NEW D, NEW go \in SUBSET D, NEW next \in [go -> D], NEW out,
         NEW n \in Nat, NEW rank \in [D -> 0 .. n],
         \A x \in go : rank[next[x]] < rank[x]
  PROVE  \E f : Follows(f, D, go, next, out)
  <1> DEFINE Part(f, m) == \A x \in D : rank[x] < m =>
                              f[x] = IF x \in go THEN f[next[x]] ELSE out[x]
  <1>1. PICK M : M = {m \in 0 .. n + 1 : \E f : Part(f, m)}
    OBVIOUS
  <1>2. 0 \in M
    <2>1. Part(rank, 0)
      OBVIOUS
    <2> QED BY <1>1, <2>1
  <1>3. ASSUME NEW m \in 0 .. (n + 1) - 1, m \in M PROVE m + 1 \in M
    <2>1. PICK f : Part(f, m)
      BY <1>1, <1>3
    <2>2. PICK g : g = [x \in D |-> IF x \in go THEN f[next[x]] ELSE out[x]]
      OBVIOUS
    <2>3. ASSUME NEW x \in D, rank[x] < m + 1
          PROVE  g[x] = IF x \in go THEN g[next[x]] ELSE out[x]
      <3>1. CASE x \notin go
        BY <2>2, <3>1
      <3>2. CASE x \in go
        <4>1. next[x] \in D /\ rank[next[x]] < rank[x]
          BY <3>2
        <4>2. rank[next[x]] \in Int /\ rank[x] \in Int
          BY <4>1
        <4>3. rank[next[x]] < m
          BY <2>3, <4>1, <4>2
        <4>4. g[next[x]] = f[next[x]]
          BY <2>1, <2>2, <4>1, <4>3
        <4> QED BY <2>2, <3>2, <4>4
      <3> QED BY <3>1, <3>2
    <2>4. Part(g, m + 1)
      BY <2>3
    <2>5. m + 1 \in 0 .. n + 1
      OBVIOUS
    <2> QED BY <1>1, <2>4, <2>5
  <1>4. n + 1 \in Nat
    OBVIOUS
  <1>5. \A m \in 0 .. n + 1 : m \in M
    BY <1>2, <1>3, <1>4, IntervalInduction
  <1>6. n + 1 \in M
    BY <1>5
  <1>7. PICK f : Part(f, n + 1)
    BY <1>1, <1>6
  <1>8. PICK g : g = [x \in D |-> IF x \in go THEN f[next[x]] ELSE out[x]]
    OBVIOUS
  <1>9. \A x \in D : g[x] = f[x]
    BY <1>7, <1>8
  <1>10. Follows(g, D, go, next, out)
    BY <1>8, <1>9 DEF Follows
  <1> QED BY <1>10

\* What it answers in a set that next does not leave is an answer given there,
\* outside go.
LEMMA FollowsAnswers ==
  ASSUME NEW D, NEW go \in SUBSET D, NEW next \in [go -> D], NEW out,
         NEW n \in Nat, NEW rank \in [D -> 0 .. n],
         \A x \in go : rank[next[x]] < rank[x],
         NEW f, Follows(f, D, go, next, out),
         NEW S \in SUBSET D, \A x \in go : x \in S => next[x] \in S, NEW x0 \in S
  PROVE  \E y \in S \ go : f[x0] = out[y]
  <1> DEFINE Good(x) == \E y \in S \ go : f[x] = out[y]
  <1>f. \A x \in D : f[x] = IF x \in go THEN f[next[x]] ELSE out[x]
    BY DEF Follows
  <1>1. PICK M : M = {m \in 0 .. n + 1 : \A x \in S : rank[x] < m => Good(x)}
    OBVIOUS
  <1>2. 0 \in M
    <2>1. \A x \in S : rank[x] \in 0 .. n
      OBVIOUS
    <2>2. \A x \in S : ~(rank[x] < 0)
      BY <2>1
    <2>3. 0 \in 0 .. n + 1
      OBVIOUS
    <2> HIDE DEF Good
    <2> QED BY <1>1, <2>2, <2>3
  <1>3. ASSUME NEW m \in 0 .. (n + 1) - 1, m \in M PROVE m + 1 \in M
    <2>1. ASSUME NEW x \in S, rank[x] < m + 1 PROVE Good(x)
      <3>1. CASE x \notin go
        BY <1>f, <3>1
      <3>2. CASE x \in go
        <4>1. next[x] \in S /\ rank[next[x]] < rank[x] /\ f[x] = f[next[x]]
          BY <1>f, <3>2
        <4>2. rank[next[x]] \in Int /\ rank[x] \in Int
          BY <4>1
        <4>3. rank[next[x]] < m
          BY <2>1, <4>1, <4>2
        <4>4. Good(next[x])
          BY <1>1, <1>3, <4>1, <4>3
        <4> QED BY <4>1, <4>4
      <3> QED BY <3>1, <3>2
    <2>2. m + 1 \in 0 .. n + 1
      OBVIOUS
    <2> QED BY <1>1, <2>1, <2>2
  <1>4. n + 1 \in Nat
    OBVIOUS
  <1>5. \A m \in 0 .. n + 1 : m \in M
    BY <1>2, <1>3, <1>4, IntervalInduction
  <1>6. n + 1 \in M /\ rank[x0] < n + 1
    BY <1>5
  <1> QED BY <1>1, <1>6

-----------------------------------------------------------------------------
(* Well-typed trees.                                                        *)

ChildMaps == UNION {[D -> Idx] : D \in {S \in SUBSET Radixes : IsFiniteSet(S)}}

Nodes ==
  [compression : Seq(Radixes), childs : ChildMaps, overflow : ChildMaps,
   val : Values \cup {Nil}, exp : 0 .. NoExpiracy,
   parent : Indices \cup {Nil}, radix : Radixes \cup {Nil}]

Tree(T) ==
  /\ T \in [DOMAIN T -> Nodes]
  /\ DOMAIN T \subseteq Indices /\ Root \in DOMAIN T
  /\ \A i \in DOMAIN T : Cardinality(DOMAIN T[i].childs) <= ChildsSize

LEMMA ChildMapsType ==
  ASSUME NEW f
  PROVE  f \in ChildMaps <=> /\ f = [r \in DOMAIN f |-> f[r]]
                             /\ DOMAIN f \subseteq Radixes /\ IsFiniteSet(DOMAIN f)
                             /\ \A r \in DOMAIN f : f[r] \in Idx
  BY DEF ChildMaps

LEMMA NoChild == ASSUME NEW f, f = <<>> PROVE f \in ChildMaps /\ DOMAIN f = {} /\ Cardinality(DOMAIN f) = 0
  <1>1. DOMAIN f = {} /\ f = [r \in DOMAIN f |-> f[r]]
    OBVIOUS
  <1>2. IsFiniteSet(DOMAIN f) /\ Cardinality(DOMAIN f) = 0
    BY <1>1, FS_EmptySet
  <1> QED BY <1>1, <1>2, ChildMapsType

\* Node i links to node j by radix r.
Link(T, i, r, j) ==
  /\ i \in DOMAIN T
  /\ \/ r \in DOMAIN T[i].childs /\ T[i].childs[r] = j
     \/ r \in DOMAIN T[i].overflow /\ T[i].overflow[r] = j

LEMMA LinkType ==
  ASSUME NEW T, Tree(T), NEW i, NEW r, NEW j, Link(T, i, r, j)
  PROVE  i \in DOMAIN T /\ r \in Radixes /\ j \in Idx /\ j # Root /\ j # Nil
  <1>1. i \in DOMAIN T /\ T[i] \in Nodes
    BY DEF Tree, Link
  <1>2. T[i].childs \in ChildMaps /\ T[i].overflow \in ChildMaps
    BY <1>1 DEF Nodes
  <1>3. r \in Radixes /\ j \in Idx
    BY <1>2, ChildMapsType DEF Link
  <1> QED BY <1>1, <1>3, ConstantsAssumption

LEMMA FindLink ==
  ASSUME NEW T, Tree(T), NEW i \in DOMAIN T, NEW r
  PROVE  /\ Find(T, i, r) # Nil => Link(T, i, r, Find(T, i, r))
         /\ Find(T, i, r) = Nil => \A j : ~Link(T, i, r, j)
  <1>1. CASE r \in DOMAIN T[i].childs
    <2>1. Link(T, i, r, Find(T, i, r))
      BY <1>1 DEF Link, Find
    <2> QED BY <2>1, LinkType
  <1>2. CASE r \notin DOMAIN T[i].childs /\ r \in DOMAIN T[i].overflow
    <2>1. Link(T, i, r, Find(T, i, r))
      BY <1>2 DEF Link, Find
    <2> QED BY <2>1, LinkType
  <1>3. CASE r \notin DOMAIN T[i].childs /\ r \notin DOMAIN T[i].overflow
    BY <1>3 DEF Link, Find
  <1> QED BY <1>1, <1>2, <1>3

-----------------------------------------------------------------------------
(* Keys and walks.                                                          *)

LEMMA RestType ==
  ASSUME NEW X, NEW key \in Seq(X), NEW c \in 0 .. Len(key)
  PROVE  /\ Rest(key, c) \in Seq(X) /\ Len(Rest(key, c)) = Len(key) - c
         /\ \A m \in 1 .. Len(key) - c : Rest(key, c)[m] = key[c + m]
  <1>1. Len(key) \in Nat /\ c + 1 \in 1 .. Len(key) + 1 /\ c \in Nat
    OBVIOUS
  <1>2. \A m \in (c + 1) .. Len(key) : key[m] \in X
    OBVIOUS
  <1>3. CASE c = Len(key)
    BY <1>1, <1>3, SubSeqProperties DEF Rest
  <1>4. CASE c < Len(key)
    BY <1>1, <1>2, <1>4, SubSeqProperties DEF Rest
  <1> QED BY <1>1, <1>3, <1>4

\* A step of the loop leaves fewer bytes of the key, and at least one.
LEMMA GoesOnConsumes ==
  ASSUME NEW T, Tree(T), NEW key \in Seq(Radixes), NEW i \in DOMAIN T,
         NEW c \in 0 .. Len(key) - 1, GoesOn(T, key, <<i, c>>)
  PROVE  LET j == Below(T, key, <<i, c>>)
         IN  /\ j \in DOMAIN T
             /\ c + 1 + Len(T[j].compression) \in 0 .. Len(key) - 1
             /\ c + 1 + Len(T[j].compression) > c
  <1>1. PICK j : j = Below(T, key, <<i, c>>)
    OBVIOUS
  <1>2. j \in DOMAIN T /\ IsStrictPrefix(T[j].compression, Rest(key, c + 1))
    BY <1>1 DEF GoesOn
  <1>3. PICK s \in Seq(Radixes) : s = T[j].compression
    BY <1>2 DEF Tree, Nodes
  <1>4. PICK t \in Seq(Radixes) : t = Rest(key, c + 1) /\ Len(t) = Len(key) - (c + 1)
    BY RestType, c + 1 \in 0 .. Len(key)
  <1>5. Len(s) <= Len(t) /\ SubSeq(s, 1, Len(s)) = SubSeq(t, 1, Len(s)) /\ s # t
    BY <1>2, <1>3, <1>4 DEF IsStrictPrefix, IsPrefix
  <1>6. Len(s) # Len(t)
    <2> SUFFICES ASSUME Len(s) = Len(t) PROVE FALSE
      OBVIOUS
    <2>1. SubSeq(s, 1, Len(s)) = s /\ SubSeq(t, 1, Len(t)) = t
      BY SubSeqFull
    <2> QED BY <1>5, <2>1
  <1>7. Len(s) \in Nat /\ Len(s) < Len(key) - (c + 1)
    BY <1>4, <1>5, <1>6
  <1>8. c + 1 + Len(s) \in 0 .. Len(key) - 1 /\ c + 1 + Len(s) > c
    BY <1>7
  <1> QED BY <1>1, <1>2, <1>3, <1>8

\* The states of the loop, those in which it goes on, and where to.
WalkStates(T, key) == (DOMAIN T) \X (0 .. Len(key) - 1)
WalkGo(T, key)     == {x \in WalkStates(T, key) : GoesOn(T, key, x)}
WalkNext(T, key)   == [x \in WalkGo(T, key) |->
                        <<Below(T, key, x), x[2] + 1 + Len(T[Below(T, key, x)].compression)>>]
WalkOut(T, key)    == [x \in WalkStates(T, key) |-> <<x[1], x[2], Below(T, key, x)>>]

\* Walk is what a function that follows them answers for the root.
LEMMA WalkFollows ==
  ASSUME NEW T, Tree(T), NEW key \in Seq(Radixes), key # <<>>
  PROVE  \E n, D, go, next, out, rank, w :
           /\ n \in Nat /\ n = Len(key) /\ n > 0 /\ D = WalkStates(T, key) /\ go = WalkGo(T, key)
           /\ next = WalkNext(T, key) /\ out = WalkOut(T, key)
           /\ rank \in [D -> 0 .. n] /\ go \in SUBSET D /\ next \in [go -> D]
           /\ \A x \in go : rank[next[x]] < rank[x]
           /\ Follows(w, D, go, next, out) /\ Walk(T, key) = w[<<Root, 0>>]
  <1>1. PICK n \in Nat : n = Len(key) /\ n > 0
    BY EmptySeq
  <1>2. PICK D : D = WalkStates(T, key) /\ D = (DOMAIN T) \X (0 .. n - 1)
    BY <1>1 DEF WalkStates
  <1>3. PICK go : go = WalkGo(T, key) /\ go = {x \in D : GoesOn(T, key, x)}
    BY <1>2 DEF WalkGo
  <1>4. PICK next : /\ next = WalkNext(T, key)
                    /\ next = [x \in go |-> <<Below(T, key, x),
                                 x[2] + 1 + Len(T[Below(T, key, x)].compression)>>]
    BY <1>3 DEF WalkNext
  <1>5. PICK out : out = WalkOut(T, key) /\ out = [x \in D |-> <<x[1], x[2], Below(T, key, x)>>]
    BY <1>2 DEF WalkOut
  <1>6. PICK rank : rank = [x \in D |-> n - x[2]]
    OBVIOUS
  <1>7. rank \in [D -> 0 .. n]
    BY <1>2, <1>6
  <1>8. ASSUME NEW x \in go PROVE next[x] \in D /\ rank[next[x]] < rank[x]
    <2>1. PICK i \in DOMAIN T, c \in 0 .. n - 1 : x = <<i, c>>
      BY <1>2, <1>3
    <2>2. GoesOn(T, key, <<i, c>>)
      BY <1>3, <2>1
    <2>3. PICK j : j = Below(T, key, <<i, c>>)
      OBVIOUS
    <2>4. PICK d : d = c + 1 + Len(T[j].compression)
      OBVIOUS
    <2>5. j \in DOMAIN T /\ d \in 0 .. n - 1 /\ d > c
      BY <1>1, <2>2, <2>3, <2>4, GoesOnConsumes
    <2>6. next[x] = <<j, d>>
      BY <1>4, <2>1, <2>3, <2>4
    <2>7. <<j, d>> \in D /\ <<i, c>> \in D
      BY <1>2, <2>5
    <2>8. rank[<<j, d>>] = n - d /\ rank[<<i, c>>] = n - c
      BY <1>6, <2>7
    <2> QED BY <2>1, <2>5, <2>6, <2>7, <2>8
  <1>9. go \in SUBSET D /\ next \in [go -> D]
    BY <1>3, <1>4, <1>8
  <1>10. \A x \in go : rank[next[x]] < rank[x]
    BY <1>8
  <1>10a. PICK f : Follows(f, D, go, next, out)
    BY <1>1, <1>7, <1>9, <1>10, FollowsExists
  <1> DEFINE Body(w, x) ==
        LET j == Below(T, key, x)
        IN  IF GoesOn(T, key, x)
            THEN w[<<j, x[2] + 1 + Len(T[j].compression)>>]
            ELSE <<x[1], x[2], j>>
  <1>11. ASSUME NEW w, NEW x \in D
         PROVE  Body(w, x) = IF x \in go THEN w[next[x]] ELSE out[x]
    BY <1>3, <1>4, <1>5
  <1>12. ASSUME NEW w PROVE Follows(w, D, go, next, out) <=> w = [x \in D |-> Body(w, x)]
    <2>1. [x \in D |-> IF x \in go THEN w[next[x]] ELSE out[x]] = [x \in D |-> Body(w, x)]
      <3> HIDE DEF Body
      <3> QED BY <1>11
    <2> HIDE DEF Body
    <2> QED BY <2>1 DEF Follows
  <1>13. PICK w : /\ w = [x \in (DOMAIN T) \X (0 .. Len(key) - 1) |-> Body(w, x)]
                  /\ Walk(T, key) = w[<<Root, 0>>]
    <2>1. PICK w : w = CHOOSE v : v = [x \in (DOMAIN T) \X (0 .. Len(key) - 1) |-> Body(v, x)]
      OBVIOUS
    <2>2. \E v : v = [x \in (DOMAIN T) \X (0 .. Len(key) - 1) |-> Body(v, x)]
      <3>1. D = (DOMAIN T) \X (0 .. Len(key) - 1)
        BY <1>1, <1>2
      <3> HIDE DEF Body
      <3>2. f = [x \in D |-> Body(f, x)]
        BY <1>10a, <1>12
      <3> QED BY <3>1, <3>2
    <2>3. w = [x \in (DOMAIN T) \X (0 .. Len(key) - 1) |-> Body(w, x)]
      BY <2>1, <2>2
    <2>4. Walk(T, key) = w[<<Root, 0>>]
      BY <2>1 DEF Walk
    <2> QED BY <2>3, <2>4
  <1>14. Follows(w, D, go, next, out)
    <2> HIDE DEF Body
    <2> QED BY <1>1, <1>2, <1>12, <1>13
  <1>15. D = WalkStates(T, key) /\ go = WalkGo(T, key) /\ next = WalkNext(T, key)
         /\ out = WalkOut(T, key)
    BY <1>2, <1>3, <1>4, <1>5
  <1>16. Walk(T, key) = w[<<Root, 0>>]
    BY <1>13
  <1> HIDE DEF Body
  <1> QED BY <1>1, <1>7, <1>9, <1>10, <1>14, <1>15, <1>16

\* The loop ends in a state in which it does not go on, within every set of
\* states that it does not leave.
LEMMA WalkStopsIn ==
  ASSUME NEW T, Tree(T), NEW key \in Seq(Radixes), key # <<>>, NEW S, <<Root, 0>> \in S,
         \A i \in DOMAIN T, c \in 0 .. Len(key) - 1 :
           <<i, c>> \in S /\ GoesOn(T, key, <<i, c>>) =>
             \E j : /\ j = Below(T, key, <<i, c>>)
                   /\ <<j, c + 1 + Len(T[j].compression)>> \in S
  PROVE  \E i \in DOMAIN T, c \in 0 .. Len(key) - 1 :
           /\ <<i, c>> \in S /\ Walk(T, key) = <<i, c, Find(T, i, key[c + 1])>>
           /\ ~GoesOn(T, key, <<i, c>>)
  <1>1. PICK n, D, go, next, out, rank, w :
           /\ n \in Nat /\ n = Len(key) /\ n > 0 /\ D = WalkStates(T, key) /\ go = WalkGo(T, key)
           /\ next = WalkNext(T, key) /\ out = WalkOut(T, key)
           /\ rank \in [D -> 0 .. n] /\ go \in SUBSET D /\ next \in [go -> D]
           /\ \A x \in go : rank[next[x]] < rank[x]
           /\ Follows(w, D, go, next, out) /\ Walk(T, key) = w[<<Root, 0>>]
    BY WalkFollows
  <1>2. PICK B : B = D \cap S
    OBVIOUS
  <1>3. <<Root, 0>> \in B
    BY <1>1, <1>2 DEF Tree, WalkStates
  <1>4. ASSUME NEW x \in go, x \in B PROVE next[x] \in B
    <2>1. PICK i \in DOMAIN T, c \in 0 .. Len(key) - 1 : x = <<i, c>>
      BY <1>1 DEF WalkGo, WalkStates
    <2>2. GoesOn(T, key, <<i, c>>) /\ <<i, c>> \in S
      BY <1>1, <1>2, <1>4, <2>1 DEF WalkGo
    <2>3. PICK j : j = Below(T, key, <<i, c>>) /\ <<j, c + 1 + Len(T[j].compression)>> \in S
      BY <2>2
    <2>4. next[x] = <<j, c + 1 + Len(T[j].compression)>>
      BY <1>1, <1>4, <2>1, <2>3 DEF WalkNext
    <2> QED BY <1>1, <1>2, <2>3, <2>4
  <1>5. B \in SUBSET D /\ \A x \in go : x \in B => next[x] \in B
    BY <1>2, <1>4
  <1>6. PICK y \in B \ go : w[<<Root, 0>>] = out[y]
    <2>1. PICK x0 : x0 = <<Root, 0>>
      OBVIOUS
    <2>2. x0 \in B
      BY <1>3, <2>1
    <2>3. /\ n \in Nat /\ rank \in [D -> 0 .. n] /\ go \in SUBSET D /\ next \in [go -> D]
          /\ (\A x \in go : rank[next[x]] < rank[x]) /\ Follows(w, D, go, next, out)
      BY <1>1
    <2>4. \E y \in B \ go : w[x0] = out[y]
      BY <1>5, <2>2, <2>3, FollowsAnswers
    <2> QED BY <2>1, <2>4
  <1>7. PICK i \in DOMAIN T, c \in 0 .. Len(key) - 1 : y = <<i, c>>
    BY <1>1, <1>2 DEF WalkStates
  <1>8. out[y] = <<i, c, Find(T, i, key[c + 1])>>
    BY <1>1, <1>2, <1>6, <1>7 DEF WalkOut, Below
  <1>9. ~GoesOn(T, key, <<i, c>>) /\ <<i, c>> \in S
    BY <1>1, <1>2, <1>6, <1>7 DEF WalkGo
  <1> QED BY <1>1, <1>6, <1>8, <1>9

LEMMA WalkStops ==
  ASSUME NEW T, Tree(T), NEW key \in Seq(Radixes), key # <<>>
  PROVE  \E i \in DOMAIN T, c \in 0 .. Len(key) - 1 :
           /\ Walk(T, key) = <<i, c, Find(T, i, key[c + 1])>>
           /\ ~GoesOn(T, key, <<i, c>>)
  <1>1. PICK S : S = WalkStates(T, key)
    OBVIOUS
  <1>2. Len(key) \in Nat /\ Len(key) > 0
    BY EmptySeq
  <1>3. <<Root, 0>> \in S
    BY <1>1, <1>2 DEF WalkStates, Tree
  <1>4. ASSUME NEW i \in DOMAIN T, NEW c \in 0 .. Len(key) - 1, GoesOn(T, key, <<i, c>>)
        PROVE  \E j : /\ j = Below(T, key, <<i, c>>)
                      /\ <<j, c + 1 + Len(T[j].compression)>> \in S
    BY <1>1, <1>4, GoesOnConsumes DEF WalkStates
  <1> QED BY <1>3, <1>4, WalkStopsIn

-----------------------------------------------------------------------------
(* Common prefixes.                                                         *)

\* A set of numbers up to n that is not empty has a greatest element.
LEMMA Greatest ==
  ASSUME NEW n \in Nat, NEW t \in SUBSET (0 .. n), t # {}
  PROVE  \E x \in t : \A y \in t : y <= x
  <1>1. PICK S : S = {i \in 0 .. n : \A u \in SUBSET (0 .. i) :
                        u # {} => \E x \in u : \A y \in u : y <= x}
    OBVIOUS
  <1>2. 0 \in S
    <2>1. 0 \in 0 .. n /\ 0 .. 0 = {0}
      OBVIOUS
    <2>2. ASSUME NEW u \in SUBSET (0 .. 0), u # {} PROVE \E x \in u : \A y \in u : y <= x
      <3>1. u = {0}
        BY <2>1, <2>2
      <3> QED BY <3>1
    <2> QED BY <1>1, <2>1, <2>2
  <1>3. ASSUME NEW i \in 0 .. n - 1, i \in S PROVE i + 1 \in S
    <2> SUFFICES ASSUME NEW u \in SUBSET (0 .. i + 1), u # {}
                 PROVE  \E x \in u : \A y \in u : y <= x
      BY <1>1
    <2>1. CASE i + 1 \in u
      BY <2>1
    <2>2. CASE i + 1 \notin u
      <3>1. u \in SUBSET (0 .. i)
        BY <2>2
      <3> QED BY <1>1, <1>3, <3>1
    <2> QED BY <2>1, <2>2
  <1>4. n \in 0 .. n /\ \A i \in 0 .. n : i \in S
    BY <1>2, <1>3, IntervalInduction
  <1> QED BY <1>1, <1>4

\* The first l elements.
LEMMA PrefixType ==
  ASSUME NEW X, NEW a \in Seq(X), NEW l \in 0 .. Len(a)
  PROVE  /\ SubSeq(a, 1, l) \in Seq(X) /\ Len(SubSeq(a, 1, l)) = l
         /\ \A m \in 1 .. l : SubSeq(a, 1, l)[m] = a[m]
         /\ SubSeq(SubSeq(a, 1, l), 1, l) = SubSeq(a, 1, l)
  <1>1. l \in Int /\ \A m \in 1 .. l : a[m] \in X
    OBVIOUS
  <1>2. PICK s : s = SubSeq(a, 1, l)
    OBVIOUS
  <1>3. s \in Seq(X) /\ Len(s) = l /\ \A m \in 1 .. l : s[m] = a[m]
    BY <1>1, <1>2, SubSeqProperties
  <1>4. SubSeq(s, 1, l) = s
    BY <1>3, SubSeqFull
  <1> QED BY <1>2, <1>3, <1>4

\* How many elements two sequences share at their heads.
Shared(a, b) == {l \in 0 .. Len(a) : l <= Len(b) /\ \A m \in 1 .. l : a[m] = b[m]}

LEMMA SamePrefix ==
  ASSUME NEW X, NEW a \in Seq(X), NEW b \in Seq(X), NEW l \in 0 .. Len(a), l <= Len(b)
  PROVE  SubSeq(a, 1, l) = SubSeq(b, 1, l) <=> l \in Shared(a, b)
  <1>1. PICK s : s = SubSeq(a, 1, l)
    OBVIOUS
  <1>2. PICK t : t = SubSeq(b, 1, l)
    OBVIOUS
  <1>3. s \in Seq(X) /\ Len(s) = l /\ \A m \in 1 .. l : s[m] = a[m]
    BY <1>1, PrefixType
  <1>4. t \in Seq(X) /\ Len(t) = l /\ \A m \in 1 .. l : t[m] = b[m]
    <2>1. l \in 0 .. Len(b)
      OBVIOUS
    <2> QED BY <1>2, <2>1, PrefixType
  <1>5. s = t => \A m \in 1 .. l : a[m] = b[m]
    BY <1>3, <1>4
  <1>6. (\A m \in 1 .. l : a[m] = b[m]) => s = t
    <2> SUFFICES ASSUME \A m \in 1 .. l : a[m] = b[m] PROVE s = t
      OBVIOUS
    <2>1. \A m \in 1 .. Len(s) : s[m] = t[m]
      BY <1>3, <1>4
    <2> QED BY <1>3, <1>4, <2>1, SeqEqual
  <1> QED BY <1>1, <1>2, <1>5, <1>6 DEF Shared

LEMMA PrefixIsShared ==
  ASSUME NEW X, NEW s \in Seq(X), NEW t \in Seq(X)
  PROVE  IsPrefix(s, t) <=> Len(s) \in Shared(s, t)
  <1>1. Len(s) \in 0 .. Len(s)
    OBVIOUS
  <1>2. CASE Len(s) <= Len(t)
    BY <1>1, <1>2, SamePrefix DEF IsPrefix
  <1>3. CASE ~(Len(s) <= Len(t))
    BY <1>3 DEF IsPrefix, Shared
  <1> QED BY <1>2, <1>3

LEMMA CommonPrefixesType ==
  ASSUME NEW X, NEW a \in Seq(X), NEW b \in Seq(X), NEW p
  PROVE  p \in CommonPrefixes({a, b}) <=> \E l \in Shared(a, b) : p = SubSeq(a, 1, l)
  <1>1. ASSUME NEW s \in Seq(X), NEW l \in 0 .. Len(s), NEW t \in Seq(X),
               IsPrefix(SubSeq(s, 1, l), t)
        PROVE  l \in Shared(s, t)
    <2>1. PICK q : q = SubSeq(s, 1, l)
      OBVIOUS
    <2>2. q \in Seq(X) /\ Len(q) = l /\ \A m \in 1 .. l : q[m] = s[m]
      BY <2>1, PrefixType
    <2>3. l \in Shared(q, t)
      BY <1>1, <2>1, <2>2, PrefixIsShared
    <2> QED BY <2>2, <2>3 DEF Shared
  <1>2. ASSUME NEW s \in Seq(X), NEW t \in Seq(X), NEW l \in Shared(s, t)
        PROVE  IsPrefix(SubSeq(s, 1, l), t)
    <2>0. l \in 0 .. Len(s)
      BY DEF Shared
    <2>1. PICK q : q = SubSeq(s, 1, l)
      OBVIOUS
    <2>2. q \in Seq(X) /\ Len(q) = l /\ \A m \in 1 .. l : q[m] = s[m]
      BY <2>0, <2>1, PrefixType
    <2>3. l \in Shared(q, t)
      BY <2>2, <1>2 DEF Shared
    <2> QED BY <2>1, <2>2, <2>3, PrefixIsShared
  <1>3. ASSUME NEW l \in Shared(a, b)
        PROVE  /\ l \in Shared(b, a) /\ l \in Shared(a, a)
               /\ SubSeq(a, 1, l) = SubSeq(b, 1, l) /\ l \in 0 .. Len(a)
    <2>1. l \in 0 .. Len(a) /\ l <= Len(b) /\ l \in Shared(b, a) /\ l \in Shared(a, a)
      BY DEF Shared
    <2> QED BY <2>1, SamePrefix
  <1>4. ASSUME NEW l \in Shared(a, b), p = SubSeq(a, 1, l)
        PROVE  p \in CommonPrefixes({a, b})
    <2>1. IsPrefix(p, a) /\ IsPrefix(p, b)
      BY <1>2, <1>3, <1>4
    <2>2. p \in Prefixes(a)
      BY <1>3, <1>4 DEF Prefixes
    <2> QED BY <2>1, <2>2 DEF CommonPrefixes
  <1>5. ASSUME p \in CommonPrefixes({a, b})
        PROVE  \E l \in Shared(a, b) : p = SubSeq(a, 1, l)
    <2>1. IsPrefix(p, a) /\ IsPrefix(p, b) /\ (p \in Prefixes(a) \/ p \in Prefixes(b))
      BY <1>5 DEF CommonPrefixes
    <2>2. CASE p \in Prefixes(a)
      <3>1. PICK l \in 0 .. Len(a) : p = SubSeq(a, 1, l)
        BY <2>2 DEF Prefixes
      <3> QED BY <1>1, <2>1, <3>1
    <2>3. CASE p \in Prefixes(b)
      <3>1. PICK l \in 0 .. Len(b) : p = SubSeq(b, 1, l)
        BY <2>3 DEF Prefixes
      <3>2. l \in Shared(b, a)
        BY <1>1, <2>1, <3>1
      <3>3. l \in Shared(a, b)
        BY <3>2 DEF Shared
      <3> QED BY <1>3, <3>1, <3>3
    <2> QED BY <2>1, <2>2, <2>3
  <1> QED BY <1>4, <1>5

\* The longest common prefix ends where the two differ, or one of them ends.
LEMMA LongestShared ==
  ASSUME NEW X, NEW a \in Seq(X), NEW b \in Seq(X)
  PROVE  LET n == Len(LongestCommonPrefix({a, b}))
         IN  /\ n \in Shared(a, b)
             /\ n < Len(a) /\ n < Len(b) => a[n + 1] # b[n + 1]
  <1>1. Len(a) \in Nat /\ Shared(a, b) \in SUBSET (0 .. Len(a)) /\ 0 \in Shared(a, b)
    BY DEF Shared
  <1>2. PICK g \in Shared(a, b) : \A l \in Shared(a, b) : l <= g
    BY <1>1, Greatest
  <1>3. ASSUME NEW l \in Shared(a, b) PROVE Len(SubSeq(a, 1, l)) = l
    BY <1>1, PrefixType
  <1>4. PICK C : C = CommonPrefixes({a, b})
    OBVIOUS
  <1>5. \A p : p \in C <=> \E l \in Shared(a, b) : p = SubSeq(a, 1, l)
    BY <1>4, CommonPrefixesType
  <1>5a. ASSUME NEW q \in C PROVE Len(q) \in Shared(a, b)
    <2>1. PICK l \in Shared(a, b) : q = SubSeq(a, 1, l)
      BY <1>5
    <2>2. Len(q) = l
      BY <1>3, <2>1
    <2> QED BY <2>2
  <1>5b. ASSUME NEW l \in Shared(a, b) PROVE \E q \in C : Len(q) = l
    <2>1. PICK q : q = SubSeq(a, 1, l)
      OBVIOUS
    <2>2. q \in C /\ Len(q) = l
      BY <1>3, <1>5, <2>1
    <2> QED BY <2>2
  <1>6. \E longest \in C : \A other \in C : Len(other) <= Len(longest)
    <2>1. PICK q \in C : Len(q) = g
      BY <1>5b
    <2> QED BY <1>2, <1>5a, <2>1
  <1>7. PICK p : p = LongestCommonPrefix({a, b})
    OBVIOUS
  <1>8. p \in C /\ \A other \in C : Len(other) <= Len(p)
    BY <1>4, <1>6, <1>7 DEF LongestCommonPrefix
  <1>9. PICK n : n = Len(p)
    OBVIOUS
  <1>10. n \in Shared(a, b) /\ \A l \in Shared(a, b) : l <= n
    BY <1>5a, <1>5b, <1>8, <1>9
  <1>11. n < Len(a) /\ n < Len(b) => a[n + 1] # b[n + 1]
    <2> SUFFICES ASSUME n < Len(a), n < Len(b), a[n + 1] = b[n + 1] PROVE FALSE
      OBVIOUS
    <2>1. n \in Nat /\ \A m \in 1 .. n : a[m] = b[m]
      BY <1>10 DEF Shared
    <2>2. Len(a) \in Nat /\ Len(b) \in Nat
      OBVIOUS
    <2>3. n + 1 \in 0 .. Len(a) /\ n + 1 <= Len(b)
      BY <2>1, <2>2
    <2>4. \A m \in 1 .. n + 1 : a[m] = b[m]
      BY <2>1
    <2>5. n + 1 \in Shared(a, b)
      BY <2>3, <2>4 DEF Shared
    <2> QED BY <1>10, <2>1, <2>5
  <1> QED BY <1>7, <1>9, <1>10, <1>11

-----------------------------------------------------------------------------
(* The shape of a tree after each of the changes.                           *)

\* A node with no more inline children than fit.
Fits(n) == n \in Nodes /\ Cardinality(DOMAIN n.childs) <= ChildsSize

\* U is T but for the node n in slot i.
Put(T, U, i, n) ==
  /\ Tree(U) /\ DOMAIN U = DOMAIN T \cup {i} /\ U[i] = n
  /\ \A x \in DOMAIN T \ {i} : U[x] = T[x]

LEMMA TreeFits == ASSUME NEW T, Tree(T), NEW i \in DOMAIN T PROVE Fits(T[i]) /\ i \in Indices
  BY DEF Tree, Fits

LEMMA PutNew ==
  ASSUME NEW T, Tree(T), NEW i \in Indices, NEW n, Fits(n), NEW U, U = Extend(T, i, n)
  PROVE  Put(T, U, i, n)
  <1>1. DOMAIN U = DOMAIN T \cup {i} /\ U[i] = n /\ \A x \in DOMAIN T \ {i} : U[x] = T[x]
    BY DEF Extend
  <1>2. U \in [DOMAIN U -> Nodes]
    BY DEF Tree, Extend, Fits
  <1>3. DOMAIN U \subseteq Indices /\ Root \in DOMAIN U
    BY <1>1 DEF Tree
  <1>4. \A x \in DOMAIN U : Cardinality(DOMAIN U[x].childs) <= ChildsSize
    BY <1>1 DEF Tree, Fits
  <1> QED BY <1>1, <1>2, <1>3, <1>4 DEF Tree, Put

LEMMA PutOld ==
  ASSUME NEW T, Tree(T), NEW i \in DOMAIN T, NEW n, Fits(n), NEW U, U = [T EXCEPT ![i] = n]
  PROVE  Put(T, U, i, n)
  <1>1. U = Extend(T, i, n)
    BY DEF Extend, Tree
  <1> QED BY <1>1, PutNew, TreeFits

\* A child map with one more child, and one with fewer.
ChildAdded(f, g, r, i) ==
  /\ g \in ChildMaps /\ DOMAIN g = DOMAIN f \cup {r} /\ g[r] = i
  /\ \A x \in DOMAIN f \ {r} : g[x] = f[x]
  /\ Cardinality(DOMAIN f) < ChildsSize => Cardinality(DOMAIN g) <= ChildsSize

ChildsDropped(f, g, S) ==
  /\ g \in ChildMaps /\ DOMAIN g = DOMAIN f \ S
  /\ \A x \in DOMAIN f \ S : g[x] = f[x]
  /\ Cardinality(DOMAIN f) <= ChildsSize => Cardinality(DOMAIN g) <= ChildsSize

LEMMA ExtendChildMap ==
  ASSUME NEW f \in ChildMaps, NEW r \in Radixes, NEW i \in Idx, NEW g, g = Extend(f, r, i)
  PROVE  ChildAdded(f, g, r, i)
  <1>1. DOMAIN f \subseteq Radixes /\ IsFiniteSet(DOMAIN f) /\ \A x \in DOMAIN f : f[x] \in Idx
    BY ChildMapsType
  <1>3. /\ DOMAIN g = DOMAIN f \cup {r} /\ g[r] = i /\ \A x \in DOMAIN f \ {r} : g[x] = f[x]
        /\ g = [x \in DOMAIN g |-> g[x]]
    BY DEF Extend
  <1>4. /\ IsFiniteSet(DOMAIN f \cup {r})
        /\ Cardinality(DOMAIN f \cup {r}) = Cardinality(DOMAIN f) \/
           Cardinality(DOMAIN f \cup {r}) = Cardinality(DOMAIN f) + 1
    BY <1>1, FS_AddElement
  <1>5. Cardinality(DOMAIN f) \in Nat
    BY <1>1, FS_CardinalityType
  <1>6. \A x \in DOMAIN g : g[x] \in Idx
    BY <1>1, <1>3
  <1>7. g \in ChildMaps
    BY <1>1, <1>3, <1>4, <1>6, ChildMapsType
  <1>8. Cardinality(DOMAIN f) < ChildsSize => Cardinality(DOMAIN g) <= ChildsSize
    BY <1>3, <1>4, <1>5, ConstantsAssumption
  <1> QED BY <1>3, <1>7, <1>8 DEF ChildAdded

LEMMA WithoutChildMap ==
  ASSUME NEW f \in ChildMaps, NEW S, NEW g, g = Without(f, S)
  PROVE  ChildsDropped(f, g, S)
  <1>1. DOMAIN f \subseteq Radixes /\ IsFiniteSet(DOMAIN f) /\ \A x \in DOMAIN f : f[x] \in Idx
    BY ChildMapsType
  <1>3. /\ DOMAIN g = DOMAIN f \ S /\ \A x \in DOMAIN f \ S : g[x] = f[x]
        /\ g = [x \in DOMAIN g |-> g[x]]
    BY DEF Without, Restrict
  <1>4. DOMAIN g \in SUBSET DOMAIN f
    BY <1>3
  <1>5. IsFiniteSet(DOMAIN g) /\ Cardinality(DOMAIN g) <= Cardinality(DOMAIN f)
    BY <1>1, <1>4, FS_Subset
  <1>6. Cardinality(DOMAIN f) \in Nat /\ Cardinality(DOMAIN g) \in Nat
    BY <1>1, <1>5, FS_CardinalityType
  <1>7. \A x \in DOMAIN g : g[x] \in Idx
    BY <1>1, <1>3
  <1>8. g \in ChildMaps
    BY <1>1, <1>3, <1>5, <1>7, ChildMapsType
  <1>9. Cardinality(DOMAIN f) <= ChildsSize => Cardinality(DOMAIN g) <= ChildsSize
    BY <1>5, <1>6, ConstantsAssumption
  <1> QED BY <1>3, <1>8, <1>9 DEF ChildsDropped

\* A new leaf a hangs below p, by a radix p had no child for.
Hung(T, U, p, a) ==
  /\ p \in DOMAIN T /\ a \in Idx \ DOMAIN T
  /\ \E rest \in Seq(Radixes) :
       rest # <<>> /\ Find(T, p, Head(rest)) = Nil /\ U = AddLeaf(T, p, rest, a)

HungInto(T, U, p, a, q) ==
  /\ Tree(U) /\ DOMAIN U = DOMAIN T \cup {a} /\ a # p /\ p \in DOMAIN T /\ a \in Idx \ DOMAIN T
  /\ \A x \in DOMAIN T \ {p} : U[x] = T[x]
  /\ DOMAIN U[a].childs = {} /\ DOMAIN U[a].overflow = {}
  /\ U[p].compression = T[p].compression /\ U[p].val = T[p].val
  /\ Find(T, p, q) = Nil
  /\ \/ ChildAdded(T[p].childs, U[p].childs, q, a) /\ U[p].overflow = T[p].overflow
     \/ U[p].childs = T[p].childs /\ ChildAdded(T[p].overflow, U[p].overflow, q, a)

LEMMA AddLeafShape ==
  ASSUME NEW T, Tree(T), NEW p \in DOMAIN T, NEW a \in Idx \ DOMAIN T, NEW rest \in Seq(Radixes),
         rest # <<>>, NEW q, q = Head(rest), Find(T, p, q) = Nil, NEW U, U = AddLeaf(T, p, rest, a)
  PROVE  /\ HungInto(T, U, p, a, q) /\ U[p].exp = T[p].exp
         /\ U[a].compression = Tail(rest) /\ U[a].val = Nil /\ U[a].exp = NoExpiracy
  <1>1. a \in Idx /\ a \notin DOMAIN T /\ a # p /\ a \in Indices /\ p \in Indices
    BY DEF Indices, Tree
  <1>4. q \in Radixes /\ Tail(rest) \in Seq(Radixes)
    BY HeadTailProperties
  <1>5. PICK n : n = Node(Tail(rest), Nil, NoExpiracy, p, q)
    OBVIOUS
  <1>6. /\ Fits(n) /\ DOMAIN n.childs = {} /\ DOMAIN n.overflow = {}
        /\ n.compression = Tail(rest) /\ n.val = Nil /\ n.exp = NoExpiracy
    <2>1. PICK none : none = <<>>
      OBVIOUS
    <2>2. none \in ChildMaps /\ DOMAIN none = {} /\ Cardinality(DOMAIN none) = 0
      BY <2>1, NoChild
    <2>3. n = [compression |-> Tail(rest), childs |-> none, overflow |-> none, val |-> Nil,
               exp |-> NoExpiracy, parent |-> p, radix |-> q]
      BY <1>5, <2>1 DEF Node
    <2>4. NoExpiracy \in 0 .. NoExpiracy /\ 0 <= ChildsSize
      BY ConstantsAssumption
    <2> QED BY <1>1, <1>4, <2>2, <2>3, <2>4 DEF Nodes, Fits
  <1>7. PICK V : V = Extend(T, a, n)
    OBVIOUS
  <1>8. /\ Tree(V) /\ DOMAIN V = DOMAIN T \cup {a} /\ V[a] = n
        /\ \A x \in DOMAIN T \ {a} : V[x] = T[x]
    <2>1. Put(T, V, a, n)
      BY <1>1, <1>6, <1>7, PutNew
    <2> QED BY <2>1 DEF Put
  <1>9. U = PushChild(V, p, q, a)
    BY <1>5, <1>7 DEF AddLeaf
  <1>10. V[p] = T[p] /\ T[p] \in Nodes /\ p \in DOMAIN V /\ T[p].childs \in ChildMaps /\ T[p].overflow \in ChildMaps
    BY <1>1, <1>8 DEF Tree, Nodes
  <1>11. CASE Cardinality(DOMAIN T[p].childs) < ChildsSize
    <2>1. PICK f : f = Extend(T[p].childs, q, a)
      OBVIOUS
    <2>0. ChildAdded(T[p].childs, f, q, a)
      BY <1>1, <1>4, <1>10, <2>1, ExtendChildMap
    <2>2. f \in ChildMaps /\ Cardinality(DOMAIN f) <= ChildsSize
      BY <1>11, <2>0 DEF ChildAdded
    <2>3. PICK m : m = [T[p] EXCEPT !.childs = f]
      OBVIOUS
    <2>4. m \in Nodes /\ m.childs = f /\ m.overflow = T[p].overflow /\ m.compression = T[p].compression /\ m.val = T[p].val
          /\ m.exp = T[p].exp
      BY <1>10, <2>2, <2>3 DEF Nodes
    <2>5. U = [V EXCEPT ![p] = m]
      BY <1>9, <1>10, <1>11, <2>1, <2>3 DEF PushChild
    <2>6. Fits(m)
      BY <2>2, <2>4 DEF Fits
    <2>7. Put(V, U, p, m)
      BY <1>8, <1>10, <2>5, <2>6, PutOld
    <2>8. U[a] = n /\ DOMAIN U = DOMAIN T \cup {a} /\ \A x \in DOMAIN T \ {p} : U[x] = T[x]
      BY <1>1, <1>8, <2>7 DEF Put
    <2>9. Tree(U) /\ U[p] = m
      BY <2>7 DEF Put
    <2>10. HungInto(T, U, p, a, q)
      BY <1>1, <1>6, <2>0, <2>4, <2>8, <2>9 DEF HungInto
    <2> QED BY <1>6, <2>4, <2>8, <2>9, <2>10
  <1>12. CASE ~(Cardinality(DOMAIN T[p].childs) < ChildsSize)
    <2>1. PICK f : f = Extend(T[p].overflow, q, a)
      OBVIOUS
    <2>0. ChildAdded(T[p].overflow, f, q, a)
      BY <1>1, <1>4, <1>10, <2>1, ExtendChildMap
    <2>2. f \in ChildMaps
      BY <2>0 DEF ChildAdded
    <2>3. PICK m : m = [T[p] EXCEPT !.overflow = f]
      OBVIOUS
    <2>4. m \in Nodes /\ m.overflow = f /\ m.childs = T[p].childs /\ m.compression = T[p].compression /\ m.val = T[p].val
          /\ m.exp = T[p].exp
      BY <1>10, <2>2, <2>3 DEF Nodes
    <2>5. U = [V EXCEPT ![p] = m]
      BY <1>9, <1>10, <1>12, <2>1, <2>3 DEF PushChild
    <2>6. Fits(m)
      BY <1>1, <2>4 DEF Fits, Tree
    <2>7. Put(V, U, p, m)
      BY <1>8, <1>10, <2>5, <2>6, PutOld
    <2>8. U[a] = n /\ DOMAIN U = DOMAIN T \cup {a} /\ \A x \in DOMAIN T \ {p} : U[x] = T[x]
      BY <1>1, <1>8, <2>7 DEF Put
    <2>9. Tree(U) /\ U[p] = m
      BY <2>7 DEF Put
    <2>10. HungInto(T, U, p, a, q)
      BY <1>1, <1>6, <2>0, <2>4, <2>8, <2>9 DEF HungInto
    <2> QED BY <1>6, <2>4, <2>8, <2>9, <2>10
  <1> QED BY <1>11, <1>12

LEMMA HungShape ==
  ASSUME NEW T, Tree(T), NEW U, NEW p, NEW a, Hung(T, U, p, a)
  PROVE  \E q : HungInto(T, U, p, a, q)
  <1>1. p \in DOMAIN T /\ a \in Idx \ DOMAIN T
    BY DEF Hung
  <1>2. PICK rest \in Seq(Radixes) :
          rest # <<>> /\ Find(T, p, Head(rest)) = Nil /\ U = AddLeaf(T, p, rest, a)
    BY DEF Hung
  <1> QED BY <1>1, <1>2, AddLeafShape

\* Node j is split: it keeps its slot and one child, b, which takes over the
\* children and the value j had.
SplitAt(T, U, j, b) ==
  /\ j \in DOMAIN T \ {Root} /\ b \in Idx \ DOMAIN T
  /\ \E n \in 0 .. Len(T[j].compression) - 1 : U = SplitNode(T, j, n, b)

SplitInto(T, U, j, b, q) ==
  /\ Tree(U) /\ DOMAIN U = DOMAIN T \cup {b} /\ b # j
  /\ \A x \in DOMAIN T \ {j} : U[x] = T[x]
  /\ U[b].childs = T[j].childs /\ U[b].overflow = T[j].overflow /\ U[b].val = T[j].val
  /\ DOMAIN U[j].childs = {q} /\ U[j].childs[q] = b /\ DOMAIN U[j].overflow = {}

\* The first n elements of s.
Upto(s, n) == SubSeq(s, 1, n)

LEMMA SplitShape ==
  ASSUME NEW T, Tree(T), NEW U, NEW j \in DOMAIN T \ {Root}, NEW b \in Idx \ DOMAIN T,
         NEW n \in 0 .. Len(T[j].compression) - 1, U = SplitNode(T, j, n, b)
  PROVE  /\ SplitInto(T, U, j, b, T[j].compression[n + 1])
         /\ U[b].compression = Rest(T[j].compression, n + 1) /\ U[b].exp = T[j].exp
         /\ U[j].compression = Upto(T[j].compression, n) /\ U[j].val = Nil /\ U[j].exp = NoExpiracy
  <1>1. PICK m \in Nodes : m = T[j]
    BY DEF Tree
  <1>2. PICK comp \in Seq(Radixes) : comp = m.compression /\ n \in 0 .. Len(comp) - 1 /\ Len(comp) \in Nat
    BY <1>1 DEF Nodes
  <1>3. PICK q \in Radixes : q = comp[n + 1]
    BY <1>2
  <1>4. PICK h \in Seq(Radixes) : h = SubSeq(comp, 1, n)
    BY <1>2, PrefixType, n \in 0 .. Len(comp)
  <1>5. PICK t \in Seq(Radixes) : t = Rest(comp, n + 1)
    BY <1>2, RestType, n + 1 \in 0 .. Len(comp)
  <1>6. PICK none : none = <<>>
    OBVIOUS
  <1>7. none \in ChildMaps /\ DOMAIN none = {} /\ Cardinality(DOMAIN none) = 0
    BY <1>6, NoChild
  <1>8. PICK f : f = Extend(none, q, b)
    OBVIOUS
  <1>9. f \in ChildMaps /\ DOMAIN f = {q} /\ f[q] = b /\ Cardinality(DOMAIN f) <= ChildsSize
    <2>1. f \in ChildMaps /\ DOMAIN f = DOMAIN none \cup {q} /\ f[q] = b
      <3>1. b \in Idx
        OBVIOUS
      <3>2. ChildAdded(none, f, q, b)
        BY <1>7, <1>8, <3>1, ExtendChildMap
      <3> QED BY <3>2 DEF ChildAdded
    <2>2. Cardinality({q}) = 1
      BY FS_Singleton
    <2>c. 1 <= ChildsSize
      BY ConstantsAssumption
    <2>3. DOMAIN f = {q}
      BY <1>7, <2>1
    <2> QED BY <2>1, <2>2, <2>3, <2>c
  <1>10. PICK top : top = Node(h, Nil, NoExpiracy, m.parent, m.radix)
    OBVIOUS
  <1>11. PICK top2 : top2 = [top EXCEPT !.childs = f]
    OBVIOUS
  <1>12. /\ Fits(top2) /\ top2.childs = f /\ top2.overflow = none
         /\ top2.compression = h /\ top2.val = Nil /\ top2.exp = NoExpiracy
    <2>1. top2 = [compression |-> h, childs |-> f, overflow |-> none, val |-> Nil,
                  exp |-> NoExpiracy, parent |-> m.parent, radix |-> m.radix]
      BY <1>6, <1>10, <1>11 DEF Node
    <2>2. NoExpiracy \in 0 .. NoExpiracy /\ m.parent \in Indices \cup {Nil} /\ m.radix \in Radixes \cup {Nil}
      BY <1>1, ConstantsAssumption DEF Nodes
    <2> QED BY <1>7, <1>9, <2>1, <2>2 DEF Nodes, Fits
  <1>13. PICK low : low = [m EXCEPT !.compression = t, !.parent = j]
    OBVIOUS
  <1>14. /\ Fits(low) /\ low.childs = m.childs /\ low.overflow = m.overflow /\ low.val = m.val
         /\ low.compression = t /\ low.exp = m.exp
    <2>1. j \in Indices /\ Cardinality(DOMAIN m.childs) <= ChildsSize
      BY <1>1 DEF Tree
    <2>2. /\ low \in Nodes /\ low.childs = m.childs /\ low.overflow = m.overflow /\ low.val = m.val
          /\ low.compression = t /\ low.exp = m.exp
      BY <1>1, <1>5, <1>13, <2>1 DEF Nodes
    <2> QED BY <2>1, <2>2 DEF Fits
  <1>15. PICK V : V = [T EXCEPT ![j] = top2]
    OBVIOUS
  <1>16. Put(T, V, j, top2)
    BY <1>12, <1>15, PutOld
  <1>17. Tree(V) /\ DOMAIN V = DOMAIN T /\ V[j] = top2 /\ \A x \in DOMAIN T \ {j} : V[x] = T[x]
    BY <1>16 DEF Put
  <1>18. U = Extend(V, b, low)
    BY <1>1, <1>2, <1>3, <1>4, <1>5, <1>6, <1>8, <1>10, <1>11, <1>13, <1>15 DEF SplitNode
  <1>19. b \in Indices
    BY DEF Indices
  <1>20. Put(V, U, b, low)
    BY <1>14, <1>17, <1>18, <1>19, PutNew
  <1>21. Tree(U) /\ DOMAIN U = DOMAIN V \cup {b} /\ U[b] = low /\ \A x \in DOMAIN V \ {b} : U[x] = V[x]
    BY <1>20 DEF Put
  <1>22. U[j] = top2 /\ \A x \in DOMAIN T \ {j} : U[x] = T[x]
    BY <1>17, <1>21
  <1>23. SplitInto(T, U, j, b, q)
    BY <1>1, <1>7, <1>9, <1>12, <1>14, <1>17, <1>21, <1>22 DEF SplitInto
  <1>24. h = Upto(comp, n)
    BY <1>4 DEF Upto
  <1> QED BY <1>1, <1>2, <1>3, <1>5, <1>12, <1>14, <1>21, <1>22, <1>23, <1>24

LEMMA SplitAtShape ==
  ASSUME NEW T, Tree(T), NEW U, NEW j, NEW b, SplitAt(T, U, j, b)
  PROVE  /\ b \in Idx \ DOMAIN T /\ j \in DOMAIN T \ {Root}
         /\ \E q : SplitInto(T, U, j, b, q)
  <1>1. j \in DOMAIN T \ {Root} /\ b \in Idx \ DOMAIN T
    BY DEF SplitAt
  <1>2. PICK n \in 0 .. Len(T[j].compression) - 1 : U = SplitNode(T, j, n, b)
    BY DEF SplitAt
  <1> QED BY <1>1, <1>2, SplitShape

\* The steps that make a node for a key.
LEMMA EnsureKeySteps ==
  ASSUME NEW T, Tree(T), NEW key \in Seq(Radixes), NEW r \in EnsureKey(T, key)
  PROVE  \/ r[1] = T /\ r[2] \in DOMAIN T
         \/ \E p : Hung(T, r[1], p, r[2])
         \/ \E b : SplitAt(T, r[1], r[2], b)
         \/ \E V, j, b : SplitAt(T, V, j, b) /\ Hung(V, r[1], j, r[2])
  <1>0. \A S : FreeIdx(S) \subseteq Idx \ DOMAIN S
    BY ConstantsAssumption DEF FreeIdx
  <1>1. CASE key = <<>>
    <2>1. r = <<T, Root>>
      BY <1>1 DEF EnsureKey
    <2> QED BY <2>1 DEF Tree
  <1>2. CASE key # <<>>
    <2>1. PICK i \in DOMAIN T, c \in 0 .. Len(key) - 1 :
            /\ Walk(T, key) = <<i, c, Find(T, i, key[c + 1])>>
            /\ ~GoesOn(T, key, <<i, c>>)
      BY <1>2, WalkStops
    <2>2. PICK j : j = Find(T, i, key[c + 1])
      OBVIOUS
    <2>3. PICK w : w = Walk(T, key) /\ w[1] = i /\ w[2] = c /\ w[3] = j
      BY <2>1, <2>2
    <2>4. CASE j = Nil
      <3>1. PICK rest \in Seq(Radixes) : rest = Rest(key, c) /\ Len(rest) = Len(key) - c /\ rest[1] = key[c + 1]
        <4>1. c \in 0 .. Len(key) /\ 1 \in 1 .. Len(key) - c /\ c + 1 = c + 1
          OBVIOUS
        <4> QED BY <4>1, RestType
      <3>2. rest # <<>> /\ Head(rest) = key[c + 1]
        BY <3>1
      <3>3. PICK a \in FreeIdx(T) : r = <<AddLeaf(T, i, rest, a), a>>
        BY <1>2, <2>3, <2>4, <3>1 DEF EnsureKey
      <3>4. Hung(T, r[1], i, r[2])
        BY <1>0, <2>1, <2>2, <2>4, <3>2, <3>3 DEF Hung
      <3> QED BY <3>4
    <2>5. CASE j # Nil
      <3>1. j \in Idx /\ j # Root
        BY <2>1, <2>2, <2>5, FindLink, LinkType
      <3>2. j \in DOMAIN T
        BY <1>2, <2>3, <2>5 DEF EnsureKey
      <3>3. PICK comp \in Seq(Radixes) : comp = T[j].compression
        BY <3>2 DEF Tree, Nodes
      <3>4. PICK rest \in Seq(Radixes) : rest = Rest(key, c + 1)
        BY RestType, c + 1 \in 0 .. Len(key)
      <3>5. ~IsStrictPrefix(comp, rest)
        <4>1. Below(T, key, <<i, c>>) = j
          BY <2>2 DEF Below
        <4> QED BY <2>1, <3>2, <3>3, <3>4, <4>1 DEF GoesOn
      <3>6. CASE comp = rest
        <4>1. r = <<T, j>>
          BY <1>2, <2>3, <2>5, <3>2, <3>3, <3>4, <3>6 DEF EnsureKey
        <4> QED BY <3>2, <4>1
      <3>7. CASE comp # rest
        <4>1. PICK n : n = Len(LongestCommonPrefix({comp, rest}))
          OBVIOUS
        <4>2. n \in Shared(comp, rest) /\ (n < Len(comp) /\ n < Len(rest) => comp[n + 1] # rest[n + 1])
          BY <4>1, LongestShared
        <4>3. n \in 0 .. Len(comp) /\ n <= Len(rest)
          BY <4>2 DEF Shared
        <4>4. n # Len(comp)
          BY <3>5, <3>7, <4>2, PrefixIsShared DEF IsStrictPrefix
        <4>5. n \in 0 .. Len(comp) - 1 /\ n < Len(comp)
          BY <4>3, <4>4
        <4>6. CASE n = Len(rest)
          <5>1. PICK b \in FreeIdx(T) : r = <<SplitNode(T, j, n, b), j>>
            BY <1>2, <2>3, <2>5, <3>2, <3>3, <3>4, <3>7, <4>1, <4>6 DEF EnsureKey
          <5>2. SplitAt(T, r[1], r[2], b)
            BY <1>0, <3>1, <3>2, <3>3, <4>5, <5>1 DEF SplitAt
          <5> QED BY <5>2
        <4>7. CASE n # Len(rest)
          <5>1. n < Len(rest) /\ comp[n + 1] # rest[n + 1]
            BY <4>2, <4>3, <4>5, <4>7
          <5>2. PICK tail \in Seq(Radixes) : tail = Rest(rest, n) /\ Len(tail) = Len(rest) - n /\ tail[1] = rest[n + 1]
            <6>1. n \in 0 .. Len(rest) /\ 1 \in 1 .. Len(rest) - n
              BY <4>3, <5>1
            <6> QED BY <6>1, RestType
          <5>3. tail # <<>> /\ Head(tail) = rest[n + 1]
            BY <4>3, <5>1, <5>2
          <5>4. PICK b \in FreeIdx(T) : \E a \in FreeIdx(SplitNode(T, j, n, b)) :
                  r = <<AddLeaf(SplitNode(T, j, n, b), j, tail, a), a>>
            <6>1. r \in Fork(T, j, n, tail)
              BY <1>2, <2>3, <2>5, <3>2, <3>3, <3>4, <3>7, <4>1, <4>7, <5>2 DEF EnsureKey
            <6> QED BY <6>1 DEF Fork
          <5>5. PICK V : V = SplitNode(T, j, n, b)
            OBVIOUS
          <5>a. PICK a \in FreeIdx(V) : r = <<AddLeaf(V, j, tail, a), a>>
            BY <5>4, <5>5
          <5>6. SplitAt(T, V, j, b)
            BY <1>0, <3>1, <3>2, <3>3, <4>5, <5>5 DEF SplitAt
          <5>7. /\ DOMAIN V = DOMAIN T \cup {b} /\ DOMAIN V[j].overflow = {}
                /\ DOMAIN V[j].childs = {T[j].compression[n + 1]}
            <6>1. b \in Idx \ DOMAIN T /\ j \in DOMAIN T \ {Root}
              BY <1>0, <3>1, <3>2
            <6>2. SplitInto(T, V, j, b, T[j].compression[n + 1])
              BY <3>3, <4>5, <5>5, <6>1, SplitShape
            <6> QED BY <6>2 DEF SplitInto
          <5>8. Find(V, j, Head(tail)) = Nil
            BY <3>3, <5>1, <5>3, <5>7 DEF Find
          <5>9. Hung(V, r[1], j, r[2])
            BY <1>0, <3>2, <5>3, <5>a, <5>7, <5>8 DEF Hung
          <5> QED BY <5>6, <5>9
        <4> QED BY <4>6, <4>7
      <3> QED BY <3>6, <3>7
    <2> QED BY <2>4, <2>5
  <1> QED BY <1>1, <1>2

\* Lookups of a key that is not empty end at a node with the link to it.
LEMMA TraverseFinds ==
  ASSUME NEW T, Tree(T), NEW key \in Seq(Radixes), key # <<>>,
         NEW j, j = Traverse(T, key), j # Nil
  PROVE  \E i \in DOMAIN T, c \in 0 .. Len(key) - 1 :
           /\ Walk(T, key) = <<i, c, j>> /\ Link(T, i, key[c + 1], j)
           /\ j \in DOMAIN T /\ j \in Idx /\ j # Root
  <1>1. PICK i \in DOMAIN T, c \in 0 .. Len(key) - 1 :
          Walk(T, key) = <<i, c, Find(T, i, key[c + 1])>>
    BY WalkStops
  <1>2. PICK k : k = Find(T, i, key[c + 1])
    OBVIOUS
  <1>3. PICK w : w = Walk(T, key) /\ w[3] = k
    BY <1>1, <1>2
  <1>4. j = k /\ k \in DOMAIN T
    BY <1>3 DEF Traverse
  <1>5. Link(T, i, key[c + 1], k)
    BY <1>2, <1>4, FindLink
  <1> QED BY <1>1, <1>2, <1>4, <1>5, LinkType

LEMMA CoverFinds ==
  ASSUME NEW T, Tree(T), NEW key \in Seq(Radixes), key # <<>>,
         NEW j, j = Cover(T, key), j # Nil
  PROVE  \E i \in DOMAIN T, c \in 0 .. Len(key) - 1 :
           /\ Walk(T, key) = <<i, c, j>> /\ Link(T, i, key[c + 1], j)
           /\ j \in DOMAIN T /\ j \in Idx /\ j # Root
  <1>1. PICK i \in DOMAIN T, c \in 0 .. Len(key) - 1 :
          Walk(T, key) = <<i, c, Find(T, i, key[c + 1])>>
    BY WalkStops
  <1>2. PICK k : k = Find(T, i, key[c + 1])
    OBVIOUS
  <1>3. PICK w : w = Walk(T, key) /\ w[3] = k
    BY <1>1, <1>2
  <1>4. j = k /\ k \in DOMAIN T
    BY <1>3 DEF Cover
  <1>5. Link(T, i, key[c + 1], k)
    BY <1>2, <1>4, FindLink
  <1> QED BY <1>1, <1>2, <1>4, <1>5, LinkType

\* A lookup answers an occupied slot or nothing.
LEMMA TraverseType ==
  ASSUME NEW T, Tree(T), NEW key \in Seq(Radixes)
  PROVE  Traverse(T, key) # Nil => Traverse(T, key) \in DOMAIN T
  <1>1. CASE key = <<>>
    BY <1>1 DEF Traverse, Tree
  <1>2. CASE key # <<>>
    BY <1>2, TraverseFinds
  <1> QED BY <1>1, <1>2

LEMMA ChildIdxsLink ==
  ASSUME NEW T, NEW x \in DOMAIN T, NEW j
  PROVE  j \in ChildIdxs(T[x]) <=> \E r : Link(T, x, r, j)
  BY DEF ChildIdxs, Range, Link

\* A subtree is the least set of slots closed under links.
Closed(T, C) == \A x \in C : \A r, j : Link(T, x, r, j) /\ j \in DOMAIN T => j \in C

LEMMA SubtreeLeast ==
  ASSUME NEW T, NEW A, NEW S, S = Subtree(T, A)
  PROVE  /\ S \in SUBSET DOMAIN T /\ A \cap DOMAIN T \subseteq S /\ Closed(T, S)
         /\ \A C \in SUBSET DOMAIN T : A \cap DOMAIN T \subseteq C /\ Closed(T, C) => S \subseteq C
  <1> DEFINE ClosedK(C) == \A x \in C : ChildIdxs(T[x]) \cap DOMAIN T \subseteq C
  <1>1. ASSUME NEW C \in SUBSET DOMAIN T PROVE ClosedK(C) <=> Closed(T, C)
    BY ChildIdxsLink DEF Closed
  <1>2. S = {i \in DOMAIN T : \A C \in SUBSET DOMAIN T :
                               A \cap DOMAIN T \subseteq C /\ ClosedK(C) => i \in C}
    BY DEF Subtree
  <1> HIDE DEF ClosedK
  <1>3. S = {i \in DOMAIN T : \A C \in SUBSET DOMAIN T :
                               A \cap DOMAIN T \subseteq C /\ Closed(T, C) => i \in C}
    BY <1>1, <1>2
  <1>4. ASSUME NEW C \in SUBSET DOMAIN T, A \cap DOMAIN T \subseteq C, Closed(T, C)
        PROVE  S \subseteq C
    BY <1>3, <1>4
  <1>5. Closed(T, S)
    <2> SUFFICES ASSUME NEW x \in S, NEW r, NEW j, Link(T, x, r, j), j \in DOMAIN T,
                        NEW C \in SUBSET DOMAIN T, A \cap DOMAIN T \subseteq C, Closed(T, C)
                 PROVE  j \in C
      BY <1>3 DEF Closed
    <2>1. x \in C
      BY <1>4
    <2> QED BY <2>1 DEF Closed
  <1> QED BY <1>3, <1>4, <1>5

\* Every subtree of nodes other than the root leaves the root out.
LEMMA SubtreeSparesRoot ==
  ASSUME NEW T, Tree(T), NEW A, Root \notin A
  PROVE  Root \notin Subtree(T, A)
  <1>1. PICK C : C = DOMAIN T \ {Root}
    OBVIOUS
  <1>2. C \in SUBSET DOMAIN T /\ A \cap DOMAIN T \subseteq C /\ Closed(T, C)
    BY <1>1, LinkType DEF Closed
  <1>3. Subtree(T, A) \subseteq C
    BY <1>2, SubtreeLeast
  <1> QED BY <1>1, <1>3

\* Two nodes with the same children, value and expiry.
Alike(n, m) ==
  n.childs = m.childs /\ n.overflow = m.overflow /\ n.val = m.val /\ n.exp = m.exp

\* The slots S are freed.
LEMMA WithoutShape ==
  ASSUME NEW T, Tree(T), NEW S, Root \notin S, NEW U, U = Without(T, S)
  PROVE  Tree(U) /\ DOMAIN U = DOMAIN T \ S /\ \A x \in DOMAIN U : U[x] = T[x]
  <1>1. DOMAIN U = DOMAIN T \ S /\ \A x \in DOMAIN U : U[x] = T[x]
    BY DEF Without, Restrict
  <1>2. U \in [DOMAIN U -> Nodes]
    BY DEF Without, Restrict, Tree
  <1> QED BY <1>1, <1>2 DEF Tree

\* The child of p by r is dropped, when there is one.
Dropped(T, U, p, r) ==
  /\ Tree(U) /\ DOMAIN U = DOMAIN T /\ \A x \in DOMAIN T \ {p} : U[x] = T[x]
  /\ p \in DOMAIN T =>
       /\ U[p].val = T[p].val /\ U[p].exp = T[p].exp /\ U[p].compression = T[p].compression
       /\ \/ /\ r \in DOMAIN T[p].childs /\ ChildsDropped(T[p].childs, U[p].childs, {r})
             /\ U[p].overflow = T[p].overflow
          \/ /\ r \notin DOMAIN T[p].childs /\ U[p].childs = T[p].childs
             /\ ChildsDropped(T[p].overflow, U[p].overflow, {r})

LEMMA RemoveChildShape ==
  ASSUME NEW T, Tree(T), NEW p, NEW r, NEW U, U = RemoveChild(T, p, r)
  PROVE  Dropped(T, U, p, r)
  <1>1. CASE p \notin DOMAIN T
    BY <1>1 DEF RemoveChild, Dropped
  <1>2. CASE p \in DOMAIN T
    <2>1. T[p] \in Nodes /\ T[p].childs \in ChildMaps /\ T[p].overflow \in ChildMaps
          /\ Cardinality(DOMAIN T[p].childs) <= ChildsSize
      BY <1>2 DEF Tree, Nodes
    <2>2. CASE r \in DOMAIN T[p].childs
      <3>1. PICK f : f = Without(T[p].childs, {r})
        OBVIOUS
      <3>2. ChildsDropped(T[p].childs, f, {r})
        BY <2>1, <3>1, WithoutChildMap
      <3>3. PICK m : m = [T[p] EXCEPT !.childs = f]
        OBVIOUS
      <3>4. m \in Nodes /\ m.childs = f /\ m.overflow = T[p].overflow /\ m.val = T[p].val
            /\ m.compression = T[p].compression /\ m.exp = T[p].exp
        BY <2>1, <3>2, <3>3 DEF Nodes, ChildsDropped
      <3>5. Fits(m)
        BY <2>1, <3>2, <3>4 DEF Fits, ChildsDropped
      <3>6. U = [T EXCEPT ![p] = m]
        BY <1>2, <2>2, <3>1, <3>3 DEF RemoveChild
      <3>7. Put(T, U, p, m)
        BY <1>2, <3>5, <3>6, PutOld
      <3> QED BY <1>2, <2>2, <3>2, <3>4, <3>7 DEF Put, Dropped
    <2>3. CASE r \notin DOMAIN T[p].childs
      <3>1. PICK f : f = Without(T[p].overflow, {r})
        OBVIOUS
      <3>2. ChildsDropped(T[p].overflow, f, {r})
        BY <2>1, <3>1, WithoutChildMap
      <3>3. PICK m : m = [T[p] EXCEPT !.overflow = f]
        OBVIOUS
      <3>4. m \in Nodes /\ m.childs = T[p].childs /\ m.overflow = f /\ m.val = T[p].val
            /\ m.compression = T[p].compression /\ m.exp = T[p].exp
        BY <2>1, <3>2, <3>3 DEF Nodes, ChildsDropped
      <3>5. Fits(m)
        BY <2>1, <3>4 DEF Fits
      <3>6. U = [T EXCEPT ![p] = m]
        BY <1>2, <2>3, <3>1, <3>3 DEF RemoveChild
      <3>7. Put(T, U, p, m)
        BY <1>2, <3>5, <3>6, PutOld
      <3> QED BY <1>2, <2>3, <3>2, <3>4, <3>7 DEF Put, Dropped
    <2> QED BY <2>2, <2>3
  <1> QED BY <1>1, <1>2

\* Node i absorbs its only child c, which hung by r.
Absorbed(T, U, i, r, c) ==
  /\ i \in DOMAIN T /\ ~HasVal(T[i])
  /\ DOMAIN T[i].childs = {r} /\ T[i].childs[r] = c /\ DOMAIN T[i].overflow = {}
  /\ c \in DOMAIN T /\ c \in Idx
  /\ Tree(U) /\ DOMAIN U = DOMAIN T \ {c}
  /\ i # c => /\ Alike(U[i], T[c])
              /\ U[i].compression = T[i].compression \o <<r>> \o T[c].compression
  /\ \A x \in DOMAIN U \ {i} : Alike(U[x], T[x]) /\ U[x].compression = T[x].compression

\* Node i has one child, an inline one, and no value.
Single(T, i) ==
  /\ i \in DOMAIN T /\ ~HasVal(T[i])
  /\ DOMAIN T[i].overflow = {} /\ \E r : DOMAIN T[i].childs = {r}

LEMMA RecompressShape ==
  ASSUME NEW T, Tree(T), NEW i, NEW U, U = Recompress(T, i)
  PROVE  \/ \E r, c : Absorbed(T, U, i, r, c)
         \/ U = T /\ (Single(T, i) => ~(ChildIdxs(T[i]) \subseteq DOMAIN T))
  <1> DEFINE ready == /\ i \in DOMAIN T
                      /\ ~HasVal(T[i])
                      /\ Cardinality(DOMAIN T[i].childs) = 1
                      /\ DOMAIN T[i].overflow = {}
                      /\ ChildIdxs(T[i]) \subseteq DOMAIN T
  <1>1. CASE ~ready
    <2>1. U = T
      BY <1>1 DEF Recompress
    <2>2. Single(T, i) => Cardinality(DOMAIN T[i].childs) = 1
      BY FS_Singleton DEF Single
    <2> QED BY <1>1, <2>1, <2>2 DEF Single
  <1>2. CASE ready
    <2>1. T[i] \in Nodes /\ T[i].childs \in ChildMaps /\ T[i].compression \in Seq(Radixes)
          /\ T[i].parent \in Indices \cup {Nil}
      BY <1>2 DEF Tree, Nodes
    <2>2. IsFiniteSet(DOMAIN T[i].childs)
      BY <2>1, ChildMapsType
    <2>3. PICK r : DOMAIN T[i].childs = {r}
      BY <1>2, <2>2, FS_Singleton
    <2>4. r = CHOOSE x \in DOMAIN T[i].childs : TRUE
      BY <2>3
    <2>5. PICK c : c = T[i].childs[r]
      OBVIOUS
    <2>6. Link(T, i, r, c)
      BY <1>2, <2>3, <2>5 DEF Link
    <2>7. c \in DOMAIN T /\ c \in Idx /\ c # Root /\ r \in Radixes
      BY <1>2, <2>6, ChildIdxsLink, LinkType
    <2>8. PICK n : n = [T[c] EXCEPT !.compression = T[i].compression \o <<r>> \o @,
                                    !.parent = T[i].parent]
      OBVIOUS
    <2>9. Fits(n) /\ Alike(n, T[c]) /\ n.compression = T[i].compression \o <<r>> \o T[c].compression
      <3>1. T[c] \in Nodes /\ T[c].compression \in Seq(Radixes) /\ Cardinality(DOMAIN T[c].childs) <= ChildsSize
        BY <2>7 DEF Tree, Nodes
      <3>2. PICK comp : comp = T[i].compression \o <<r>> \o T[c].compression
        OBVIOUS
      <3>3. comp \in Seq(Radixes)
        BY <2>1, <2>7, <3>1, <3>2
      <3>4. n = [T[c] EXCEPT !.compression = comp, !.parent = T[i].parent]
        BY <2>8, <3>2
      <3>5. /\ n \in Nodes /\ n.childs = T[c].childs /\ n.overflow = T[c].overflow
            /\ n.val = T[c].val /\ n.exp = T[c].exp /\ n.compression = comp
        BY <2>1, <3>1, <3>3, <3>4 DEF Nodes
      <3> QED BY <3>1, <3>2, <3>5 DEF Fits, Alike
    <2>10. U = [x \in DOMAIN T \ {c} |->
                 IF x = i THEN n
                 ELSE IF x \in ChildIdxs(T[c]) THEN [T[x] EXCEPT !.parent = i] ELSE T[x]]
      <3>1. U = Absorb(T, i, r, c)
        BY <1>2, <2>4, <2>5 DEF Recompress
      <3> QED BY <2>8, <3>1 DEF Absorb
    <2>11. ASSUME NEW x \in DOMAIN T \ {c, i}
           PROVE  Fits(U[x]) /\ Alike(U[x], T[x]) /\ U[x].compression = T[x].compression
      <3>1. T[x] \in Nodes /\ Cardinality(DOMAIN T[x].childs) <= ChildsSize
        BY DEF Tree
      <3>2. CASE x \in ChildIdxs(T[c])
        <4>1. U[x] = [T[x] EXCEPT !.parent = i] /\ i \in Indices
          BY <1>2, <2>10, <3>2 DEF Tree
        <4>2. /\ U[x] \in Nodes /\ U[x].childs = T[x].childs /\ U[x].overflow = T[x].overflow
              /\ U[x].val = T[x].val /\ U[x].compression = T[x].compression /\ U[x].exp = T[x].exp
          BY <3>1, <4>1 DEF Nodes
        <4> QED BY <3>1, <4>2 DEF Fits, Alike
      <3>3. CASE x \notin ChildIdxs(T[c])
        <4>1. U[x] = T[x]
          BY <2>10, <3>3
        <4> QED BY <3>1, <4>1 DEF Fits, Alike
      <3> QED BY <3>2, <3>3
    <2>12. DOMAIN U = DOMAIN T \ {c} /\ (i # c => U[i] = n) /\ U = [x \in DOMAIN U |-> U[x]]
      BY <1>2, <2>10
    <2>13. \A x \in DOMAIN U : Fits(U[x])
      BY <2>9, <2>11, <2>12
    <2>14. Tree(U)
      <3>1. U \in [DOMAIN U -> Nodes]
        BY <2>12, <2>13 DEF Fits
      <3>2. DOMAIN U \subseteq Indices /\ Root \in DOMAIN U
        BY <2>7, <2>12 DEF Tree
      <3> QED BY <2>13, <3>1, <3>2 DEF Tree, Fits
    <2>15. Absorbed(T, U, i, r, c)
      BY <1>2, <2>3, <2>5, <2>7, <2>9, <2>11, <2>12, <2>14 DEF Absorbed
    <2> QED BY <2>15
  <1> QED BY <1>1, <1>2

\* Only the value and the expiry of node i are written, and v is its value now.
Rewritten(T, U, i, v) ==
  /\ Tree(U) /\ DOMAIN U = DOMAIN T /\ i \in DOMAIN T
  /\ \A x \in DOMAIN T \ {i} : U[x] = T[x]
  /\ U[i].childs = T[i].childs /\ U[i].overflow = T[i].overflow
  /\ U[i].compression = T[i].compression /\ U[i].val = v

LEMMA WriteBoth ==
  ASSUME NEW T, Tree(T), NEW i \in DOMAIN T, NEW v \in Values \cup {Nil},
         NEW e \in 0 .. NoExpiracy, NEW U, U = [T EXCEPT ![i].val = v, ![i].exp = e]
  PROVE  Rewritten(T, U, i, v)
  <1>1. PICK n : n = [T[i] EXCEPT !.val = v, !.exp = e]
    OBVIOUS
  <1>2. T[i] \in Nodes /\ Cardinality(DOMAIN T[i].childs) <= ChildsSize
    BY DEF Tree
  <1>3. /\ n \in Nodes /\ n.childs = T[i].childs /\ n.overflow = T[i].overflow
        /\ n.compression = T[i].compression /\ n.val = v
    BY <1>1, <1>2 DEF Nodes
  <1>4. U = [T EXCEPT ![i] = n]
    BY <1>1 DEF Tree
  <1>5. Fits(n)
    BY <1>2, <1>3 DEF Fits
  <1>6. Put(T, U, i, n)
    BY <1>4, <1>5, PutOld
  <1> QED BY <1>3, <1>6 DEF Put, Rewritten

LEMMA WriteVal ==
  ASSUME NEW T, Tree(T), NEW i \in DOMAIN T, NEW v \in Values \cup {Nil},
         NEW U, U = [T EXCEPT ![i].val = v]
  PROVE  Rewritten(T, U, i, v)
  <1>1. PICK n : n = [T[i] EXCEPT !.val = v]
    OBVIOUS
  <1>2. T[i] \in Nodes /\ Cardinality(DOMAIN T[i].childs) <= ChildsSize
    BY DEF Tree
  <1>3. /\ n \in Nodes /\ n.childs = T[i].childs /\ n.overflow = T[i].overflow
        /\ n.compression = T[i].compression /\ n.val = v
    BY <1>1, <1>2 DEF Nodes
  <1>4. U = [T EXCEPT ![i] = n]
    BY <1>1 DEF Tree
  <1>5. Fits(n)
    BY <1>2, <1>3 DEF Fits
  <1>6. Put(T, U, i, n)
    BY <1>4, <1>5, PutOld
  <1> QED BY <1>3, <1>6 DEF Put, Rewritten

LEMMA WriteExp ==
  ASSUME NEW T, Tree(T), NEW i \in DOMAIN T, NEW e \in 0 .. NoExpiracy,
         NEW U, U = [T EXCEPT ![i].exp = e]
  PROVE  Rewritten(T, U, i, T[i].val)
  <1>1. PICK n : n = [T[i] EXCEPT !.exp = e]
    OBVIOUS
  <1>2. T[i] \in Nodes /\ Cardinality(DOMAIN T[i].childs) <= ChildsSize
    BY DEF Tree
  <1>3. /\ n \in Nodes /\ n.childs = T[i].childs /\ n.overflow = T[i].overflow
        /\ n.compression = T[i].compression /\ n.val = T[i].val
    BY <1>1, <1>2 DEF Nodes
  <1>4. U = [T EXCEPT ![i] = n]
    BY <1>1 DEF Tree
  <1>5. Fits(n)
    BY <1>2, <1>3 DEF Fits
  <1>6. Put(T, U, i, n)
    BY <1>4, <1>5, PutOld
  <1> QED BY <1>3, <1>6 DEF Put, Rewritten

-----------------------------------------------------------------------------
(* What one step does to the tree.                                          *)

\* V is T with a node x for some key.
Ensured(T, V, x) ==
  \/ V = T /\ x \in DOMAIN T
  \/ \E p : Hung(T, V, p, x)
  \/ \E b : SplitAt(T, V, x, b)
  \/ \E W, j, b : SplitAt(T, W, j, b) /\ Hung(W, V, j, x)

LEMMA EnsuredType ==
  ASSUME NEW T, Tree(T), NEW V, NEW x, Ensured(T, V, x)
  PROVE  Tree(V) /\ x \in DOMAIN V
  <1>1. CASE V = T /\ x \in DOMAIN T
    BY <1>1
  <1>2. CASE \E p : Hung(T, V, p, x)
    <2>1. PICK p : Hung(T, V, p, x)
      BY <1>2
    <2>2. PICK q : HungInto(T, V, p, x, q)
      BY <2>1, HungShape
    <2> QED BY <2>2 DEF HungInto
  <1>3. CASE \E b : SplitAt(T, V, x, b)
    <2>1. PICK b, q : SplitInto(T, V, x, b, q) /\ x \in DOMAIN T
      BY <1>3, SplitAtShape
    <2> QED BY <2>1 DEF SplitInto
  <1>4. CASE \E W, j, b : SplitAt(T, W, j, b) /\ Hung(W, V, j, x)
    <2>1. PICK W, j, b : SplitAt(T, W, j, b) /\ Hung(W, V, j, x)
      BY <1>4
    <2>2. Tree(W)
      BY <2>1, SplitAtShape DEF SplitInto
    <2>3. PICK q : HungInto(W, V, j, x, q)
      BY <2>1, <2>2, HungShape
    <2> QED BY <2>3 DEF HungInto
  <1> QED BY <1>1, <1>2, <1>3, <1>4 DEF Ensured

\* The effects every operation but three has.
Stays(T, U)     == U = T
Rewrites(T, U)  == \E i, v : Rewritten(T, U, i, v) /\ (v = Nil => T[i].val = Nil)
Adds(T, U)      == \E V, x, v : Ensured(T, V, x) /\ Rewritten(V, U, x, v) /\ v # Nil
Clears(T, U)    == \E i \in DOMAIN T \ {Root} : HasChildren(T[i]) /\ U = ClearVal(T, i)
CutsLeaf(T, U)  == \E i, p, r : /\ Link(T, p, r, i) /\ i \in DOMAIN T /\ ~HasChildren(T[i])
                                /\ U = Cut(T, {i}, p, r)
CutsBelow(T, U) == \E i, p, r : /\ Link(T, p, r, i) /\ i \in DOMAIN T
                                /\ U = Cut(T, Subtree(T, {i}), p, r)
Effect(T, U) ==
  \/ Stays(T, U) \/ Rewrites(T, U) \/ Adds(T, U)
  \/ Clears(T, U) \/ CutsLeaf(T, U) \/ CutsBelow(T, U)

\* The three others: DEL of the empty key or a GET that finds it expired,
\* DELN of the empty prefix, and the eviction of a leaf that is unlinked where
\* it believes it hangs.
ClearsRoot(T, U) == U = ClearVal(T, Root)
Flushes(T, U) ==
  U = [Without(T, Subtree(T, ChildIdxs(T[Root]))) EXCEPT ![Root].val = Nil,
                                                         ![Root].childs = <<>>]
EvictsLeaf(T, U, i) ==
  /\ i \in DOMAIN T /\ i \in Idx /\ ~HasChildren(T[i])
  /\ U = Cut(T, {i}, T[i].parent, T[i].radix)

Typed ==
  /\ Tree(nodes) /\ tagged \subseteq DOMAIN nodes
  /\ now \in 0 .. MaxNow /\ panicked \in BOOLEAN

LEMMA KeysAreSeqs == \A k \in Keys \cup PrefixArgs : k \in Seq(Radixes)
  BY DataAssumption

LEMMA ValuesType ==
  /\ Nil \notin Values /\ Collection \in Values /\ \A v \in Vals : v \in Values
  /\ \A n \in MinInt .. MaxInt : <<"Int", n>> \in Values
  BY DataAssumption DEF Values

LEMMA EnsureKeyEnsures ==
  ASSUME NEW T, Tree(T), NEW key \in Seq(Radixes), NEW r \in EnsureKey(T, key)
  PROVE  Ensured(T, r[1], r[2])
  BY EnsureKeySteps DEF Ensured

\* The rest of the state after a step.
Kept == tagged' \subseteq DOMAIN nodes' /\ now' \in 0 .. MaxNow /\ panicked' \in BOOLEAN

LEMMA UpdateKeeps ==
  ASSUME Typed, NEW T, Update(T), UNCHANGED <<now, panicked>>
  PROVE  nodes' = T /\ Kept
  BY DEF Typed, Update, Kept

LEMMA PanicStays ==
  ASSUME Typed, NEW cmd, NEW arg, Panic(cmd, arg)
  PROVE  Effect(nodes, nodes') /\ Kept
  BY DEF Typed, Panic, Kept, Effect, Stays

LEMMA SetEffect ==
  ASSUME Typed, NEW key \in Keys, NEW v \in Vals, NEW e \in Expiries, Set(key, v, e)
  PROVE  Effect(nodes, nodes') /\ Kept
  <1>1. Tree(nodes) /\ key \in Seq(Radixes) /\ v \in Values /\ v # Nil
    BY KeysAreSeqs, ValuesType DEF Typed
  <1>2. e \in Nat
    <2>1. now \in Nat /\ NoExpiracy \in Nat
      BY ConstantsAssumption DEF Typed
    <2>2. \A t \in Ttls : t \in Nat
      BY ConstantsAssumption
    <2> QED BY <2>1, <2>2 DEF Expiries
  <1>3. CASE e > NoExpiracy \/ Dangles(nodes, key)
    <2>1. Panic("set", key)
      BY <1>3 DEF Set
    <2> QED BY <2>1, PanicStays
  <1>4. CASE ~(e > NoExpiracy \/ Dangles(nodes, key))
    <2>1. PICK r \in EnsureKey(nodes, key) :
            Update([r[1] EXCEPT ![r[2]].val = v, ![r[2]].exp = e])
      BY <1>4 DEF Set
    <2>2. PICK V : V = r[1]
      OBVIOUS
    <2>3. PICK x : x = r[2]
      OBVIOUS
    <2>4. Ensured(nodes, V, x)
      BY <1>1, <2>2, <2>3, EnsureKeyEnsures
    <2>5. Tree(V) /\ x \in DOMAIN V
      BY <1>1, <2>4, EnsuredType
    <2>6. PICK U : U = [V EXCEPT ![x].val = v, ![x].exp = e]
      OBVIOUS
    <2>7. e \in 0 .. NoExpiracy
      BY <1>2, <1>4, ConstantsAssumption
    <2>8. Rewritten(V, U, x, v)
      BY <1>1, <2>5, <2>6, <2>7, WriteBoth
    <2>9. Update(U)
      BY <2>1, <2>2, <2>3, <2>6
    <2>10. UNCHANGED <<now, panicked>>
      BY <1>4 DEF Set
    <2>11. nodes' = U /\ Kept
      BY <2>9, <2>10, UpdateKeeps
    <2> QED BY <1>1, <2>4, <2>8, <2>11 DEF Effect, Adds
  <1> QED BY <1>3, <1>4

\* What deleting the node a walk ends at does.
LEMMA DeleteAtEffect ==
  ASSUME NEW T, Tree(T), NEW key \in Seq(Radixes), key # <<>>, Traverse(T, key) # Nil,
         NEW U, U = DeleteAt(T, key)
  PROVE  Effect(T, U)
  <1>1. PICK j : j = Traverse(T, key)
    OBVIOUS
  <1>2. PICK p \in DOMAIN T, c \in 0 .. Len(key) - 1 :
          /\ Walk(T, key) = <<p, c, j>> /\ Link(T, p, key[c + 1], j)
          /\ j \in DOMAIN T /\ j \in Idx /\ j # Root
    BY <1>1, TraverseFinds
  <1>3. PICK r : r = key[c + 1]
    OBVIOUS
  <1>4. U = DeleteNode(T, j, p, r)
    BY <1>1, <1>2, <1>3 DEF DeleteAt
  <1>5. CASE HasChildren(T[j])
    BY <1>2, <1>4, <1>5 DEF DeleteNode, Effect, Clears
  <1>6. CASE ~HasChildren(T[j])
    BY <1>2, <1>3, <1>4, <1>6 DEF DeleteNode, Effect, CutsLeaf
  <1> QED BY <1>5, <1>6

LEMMA GetEffect ==
  ASSUME Typed, NEW key \in Keys, Get(key)
  PROVE  /\ Kept
         /\ \/ Effect(nodes, nodes')
            \/ key = <<>> /\ IsExpired(nodes[Root]) /\ ClearsRoot(nodes, nodes')
  <1>1. Tree(nodes) /\ key \in Seq(Radixes)
    BY KeysAreSeqs DEF Typed
  <1>2. PICK i : i = Traverse(nodes, key)
    OBVIOUS
  <1>3. UNCHANGED <<now, panicked>>
    BY DEF Get
  <1>4. CASE i = Nil \/ ~IsExpired(nodes[i])
    <2>1. UNCHANGED <<nodes, tagged>>
      BY <1>2, <1>4 DEF Get
    <2> QED BY <1>3, <2>1 DEF Typed, Kept, Effect, Stays
  <1>5. CASE ~(i = Nil \/ ~IsExpired(nodes[i]))
    <2>1. Update(IF key = <<>> THEN ClearVal(nodes, Root) ELSE DeleteAt(nodes, key))
      BY <1>2, <1>5 DEF Get
    <2>2. CASE key = <<>>
      <3>1. Update(ClearVal(nodes, Root))
        BY <2>1, <2>2
      <3>2. i = Root
        BY <1>2, <2>2 DEF Traverse
      <3> QED BY <1>3, <1>5, <2>2, <3>1, <3>2, UpdateKeeps DEF ClearsRoot
    <2>3. CASE key # <<>>
      <3>1. Update(DeleteAt(nodes, key))
        BY <2>1, <2>3
      <3>2. nodes' = DeleteAt(nodes, key) /\ Kept
        BY <1>3, <3>1, UpdateKeeps
      <3> QED BY <1>1, <1>2, <1>5, <2>3, <3>2, DeleteAtEffect
    <2> QED BY <2>2, <2>3
  <1> QED BY <1>4, <1>5

LEMMA DelEffect ==
  ASSUME Typed, NEW key \in Keys, Del(key)
  PROVE  /\ Kept
         /\ \/ Effect(nodes, nodes')
            \/ key = <<>> /\ ClearsRoot(nodes, nodes')
  <1>1. Tree(nodes) /\ key \in Seq(Radixes)
    BY KeysAreSeqs DEF Typed
  <1>2. PICK i : i = Traverse(nodes, key)
    OBVIOUS
  <1>3. UNCHANGED <<now, panicked>>
    BY DEF Del
  <1> DEFINE idle == i = Nil \/ (HasChildren(nodes[i]) /\ ~HasVal(nodes[i]))
  <1>5. CASE key = <<>>
    <2>1. Update(ClearVal(nodes, Root))
      BY <1>5 DEF Del
    <2> QED BY <1>3, <1>5, <2>1, UpdateKeeps DEF ClearsRoot
  <1>6. CASE key # <<>> /\ idle
    <2>1. Update(nodes)
      BY <1>2, <1>6 DEF Del
    <2> QED BY <1>3, <2>1, UpdateKeeps DEF Effect, Stays
  <1>7. CASE key # <<>> /\ ~idle
    <2>1. Update(DeleteAt(nodes, key))
      BY <1>2, <1>7 DEF Del
    <2>2. nodes' = DeleteAt(nodes, key) /\ Kept
      BY <1>3, <2>1, UpdateKeeps
    <2>3. Traverse(nodes, key) # Nil
      BY <1>2, <1>7
    <2> QED BY <1>1, <1>7, <2>2, <2>3, DeleteAtEffect
  <1> QED BY <1>5, <1>6, <1>7

LEMMA DelnEffect ==
  ASSUME Typed, NEW p \in PrefixArgs, Deln(p)
  PROVE  /\ Kept
         /\ \/ Effect(nodes, nodes')
            \/ p = <<>> /\ Flushes(nodes, nodes')
  <1>1. Tree(nodes) /\ p \in Seq(Radixes)
    BY KeysAreSeqs DEF Typed
  <1>2. PICK t : t = Cover(nodes, p)
    OBVIOUS
  <1>3. UNCHANGED <<now, panicked>>
    BY DEF Deln
  <1>4. CASE p = <<>>
    <2>1. t = Root /\ t # Nil
      BY <1>2, <1>4, ConstantsAssumption DEF Cover
    <2>2. Update([Without(nodes, Subtree(nodes, ChildIdxs(nodes[Root])))
                    EXCEPT ![Root].val = Nil, ![Root].childs = <<>>])
      BY <1>2, <1>4, <2>1 DEF Deln
    <2> QED BY <1>3, <1>4, <2>2, UpdateKeeps DEF Flushes
  <1>5. CASE p # <<>> /\ t = Nil
    <2>1. Update(nodes)
      BY <1>2, <1>5 DEF Deln
    <2> QED BY <1>3, <2>1, UpdateKeeps DEF Effect, Stays
  <1>6. CASE p # <<>> /\ t # Nil
    <2>1. PICK i \in DOMAIN nodes, c \in 0 .. Len(p) - 1 :
            /\ Walk(nodes, p) = <<i, c, t>> /\ Link(nodes, i, p[c + 1], t)
            /\ t \in DOMAIN nodes /\ t \in Idx /\ t # Root
      BY <1>1, <1>2, <1>6, CoverFinds
    <2>2. PICK w : w = Walk(nodes, p) /\ w[1] = i /\ w[2] = c
      BY <2>1
    <2>3. Update(Cut(nodes, Subtree(nodes, {t}), i, p[c + 1]))
      BY <1>2, <1>6, <2>2 DEF Deln
    <2>4. nodes' = Cut(nodes, Subtree(nodes, {t}), i, p[c + 1]) /\ Kept
      BY <1>3, <2>3, UpdateKeeps
    <2> QED BY <2>1, <2>4 DEF Effect, CutsBelow
  <1> QED BY <1>4, <1>5, <1>6

LEMMA ExpireEffect ==
  ASSUME Typed, NEW key \in Keys, NEW t \in Ttls, Expire(key, now + t)
  PROVE  Effect(nodes, nodes') /\ Kept
  <1>1. Tree(nodes) /\ key \in Seq(Radixes)
    BY KeysAreSeqs DEF Typed
  <1>2. PICK e : e = now + t
    OBVIOUS
  <1>3. e \in Nat /\ Expire(key, e)
    BY <1>2, ConstantsAssumption DEF Typed
  <1>4. PICK i : i = Traverse(nodes, key)
    OBVIOUS
  <1> DEFINE gone == IF i = Nil THEN TRUE ELSE IsExpired(nodes[i])
  <1>5. CASE gone
    <2>1. UNCHANGED <<nodes, tagged, now, panicked>>
      BY <1>3, <1>4, <1>5 DEF Expire
    <2> QED BY <2>1 DEF Typed, Kept, Effect, Stays
  <1>6. CASE ~gone /\ e > NoExpiracy
    <2>1. Panic("expire", key)
      BY <1>3, <1>4, <1>6 DEF Expire
    <2> QED BY <2>1, PanicStays
  <1>7. CASE ~gone /\ ~(e > NoExpiracy)
    <2>1. i \in DOMAIN nodes
      BY <1>1, <1>4, <1>7, TraverseType
    <2>2. /\ nodes' = [nodes EXCEPT ![i].exp = e]
          /\ tagged' = IF nodes[i].exp = NoExpiracy THEN tagged \cup {i} ELSE tagged
          /\ UNCHANGED <<now, panicked>>
      BY <1>3, <1>4, <1>7 DEF Expire
    <2>3. e \in 0 .. NoExpiracy
      BY <1>3, <1>7, ConstantsAssumption
    <2>4. Rewritten(nodes, nodes', i, nodes[i].val)
      BY <1>1, <2>1, <2>2, <2>3, WriteExp
    <2>5. DOMAIN nodes' = DOMAIN nodes
      BY <2>4 DEF Rewritten
    <2>6. Kept
      BY <2>1, <2>2, <2>5 DEF Typed, Kept
    <2> QED BY <2>4, <2>6 DEF Effect, Rewrites
  <1> QED BY <1>5, <1>6, <1>7

LEMMA PersistEffect ==
  ASSUME Typed, NEW key \in Keys, Persist(key)
  PROVE  Effect(nodes, nodes') /\ Kept
  <1>1. Tree(nodes) /\ key \in Seq(Radixes)
    BY KeysAreSeqs DEF Typed
  <1>2. PICK i : i = Traverse(nodes, key)
    OBVIOUS
  <1>3. UNCHANGED <<now, panicked>>
    BY DEF Persist
  <1> DEFINE idle == IF i = Nil THEN TRUE ELSE nodes[i].exp = NoExpiracy
  <1>4. CASE idle
    <2>1. UNCHANGED <<nodes, tagged>>
      BY <1>2, <1>4 DEF Persist
    <2> QED BY <1>3, <2>1 DEF Typed, Kept, Effect, Stays
  <1>5. CASE ~idle
    <2>1. i \in DOMAIN nodes
      BY <1>1, <1>2, <1>5, TraverseType
    <2>2. /\ nodes' = [nodes EXCEPT ![i].exp = NoExpiracy]
          /\ tagged' = IF HasVal(nodes[i]) THEN tagged \ {i} ELSE tagged
      BY <1>2, <1>5 DEF Persist
    <2>3. NoExpiracy \in 0 .. NoExpiracy
      BY ConstantsAssumption
    <2>4. Rewritten(nodes, nodes', i, nodes[i].val)
      BY <1>1, <2>1, <2>2, <2>3, WriteExp
    <2>5. DOMAIN nodes' = DOMAIN nodes
      BY <2>4 DEF Rewritten
    <2>6. Kept
      BY <1>3, <2>2, <2>5 DEF Typed, Kept
    <2> QED BY <2>4, <2>6 DEF Effect, Rewrites
  <1> QED BY <1>4, <1>5

LEMMA CollectEffect ==
  ASSUME Typed, NEW key \in Keys, Collect(key)
  PROVE  Effect(nodes, nodes') /\ Kept
  <1>1. Tree(nodes) /\ key \in Seq(Radixes)
    BY KeysAreSeqs DEF Typed
  <1>2. CASE Dangles(nodes, key)
    <2>1. Panic("collect", key)
      BY <1>2 DEF Collect
    <2> QED BY <2>1, PanicStays
  <1>3. CASE ~Dangles(nodes, key)
    <2>1. PICK r \in EnsureKey(nodes, key) :
            LET n == r[1][r[2]]
            IN  IF GetValue(n) # Nil
                THEN UNCHANGED <<nodes, tagged, now, panicked>>
                ELSE IF IsExpired(n) THEN Panic("collect", key)
                ELSE /\ Update([r[1] EXCEPT ![r[2]].val = Collection])
                     /\ UNCHANGED <<now, panicked>>
      BY <1>3 DEF Collect
    <2>2. PICK V : V = r[1]
      OBVIOUS
    <2>3. PICK x : x = r[2]
      OBVIOUS
    <2>4. Ensured(nodes, V, x)
      BY <1>1, <2>2, <2>3, EnsureKeyEnsures
    <2>5. Tree(V) /\ x \in DOMAIN V
      BY <1>1, <2>4, EnsuredType
    <2>6. PICK U : U = [V EXCEPT ![x].val = Collection]
      OBVIOUS
    <2>7. Rewritten(V, U, x, Collection) /\ Collection # Nil
      BY <2>5, <2>6, WriteVal, ValuesType
    <2>8. CASE UNCHANGED <<nodes, tagged, now, panicked>>
      BY <2>8 DEF Typed, Kept, Effect, Stays
    <2>9. CASE Panic("collect", key)
      BY <2>9, PanicStays
    <2>10. CASE Update(U) /\ UNCHANGED <<now, panicked>>
      <3>1. nodes' = U /\ Kept
        BY <2>10, UpdateKeeps
      <3> QED BY <2>4, <2>7, <3>1 DEF Effect, Adds
    <2> QED BY <2>1, <2>2, <2>3, <2>6, <2>8, <2>9, <2>10
  <1> QED BY <1>2, <1>3

LEMMA CountEffect ==
  ASSUME Typed, NEW cmd, NEW key \in Keys, NEW d \in MinInt .. MaxInt, Count(cmd, key, d)
  PROVE  Effect(nodes, nodes') /\ Kept
  <1>1. Tree(nodes) /\ key \in Seq(Radixes) /\ \A n \in MinInt .. MaxInt :
          <<"Int", n>> \in Values /\ <<"Int", n>> # Nil
    BY KeysAreSeqs, ValuesType DEF Typed
  <1>2. PICK i : i = Traverse(nodes, key)
    OBVIOUS
  <1> DEFINE there == IF i = Nil THEN FALSE ELSE GetValue(nodes[i]) # Nil
  <1>3. CASE there
    <2>1. IncrInPlace(i, d)
      BY <1>2, <1>3 DEF Count
    <2>2. i \in DOMAIN nodes
      BY <1>1, <1>2, <1>3, TraverseType
    <2>3. UNCHANGED <<tagged, now, panicked>>
      BY <2>1 DEF IncrInPlace
    <2>4. CASE UNCHANGED nodes
      BY <2>3, <2>4 DEF Typed, Kept, Effect, Stays
    <2>5. CASE \E n \in MinInt .. MaxInt : nodes' = [nodes EXCEPT ![i].val = <<"Int", n>>]
      <3>1. PICK n \in MinInt .. MaxInt : nodes' = [nodes EXCEPT ![i].val = <<"Int", n>>]
        BY <2>5
      <3>2. PICK v : v = <<"Int", n>>
        OBVIOUS
      <3>3. v \in Values /\ v # Nil
        BY <1>1, <3>2
      <3>4. Rewritten(nodes, nodes', i, v)
        BY <1>1, <2>2, <3>1, <3>2, <3>3, WriteVal
      <3>5. DOMAIN nodes' = DOMAIN nodes
        BY <3>4 DEF Rewritten
      <3>6. Kept
        BY <2>3, <3>5 DEF Typed, Kept
      <3> QED BY <3>3, <3>4, <3>6 DEF Effect, Rewrites
    <2>6. UNCHANGED nodes \/ \E n \in MinInt .. MaxInt : nodes' = [nodes EXCEPT ![i].val = <<"Int", n>>]
      BY <2>1 DEF IncrInPlace, NodeIncr
    <2> QED BY <2>4, <2>5, <2>6
  <1>4. CASE ~there /\ Dangles(nodes, key)
    <2>1. Panic(cmd, key)
      BY <1>2, <1>4 DEF Count, IncrCreates
    <2> QED BY <2>1, PanicStays
  <1>5. CASE ~there /\ ~Dangles(nodes, key)
    <2>1. PICK v : v = <<"Int", d>>
      OBVIOUS
    <2>2. v \in Values /\ v # Nil
      BY <1>1, <2>1
    <2>3. PICK r \in EnsureKey(nodes, key) :
            Update([r[1] EXCEPT ![r[2]].val = v, ![r[2]].exp = NoExpiracy])
      BY <1>2, <1>5, <2>1 DEF Count, IncrCreates
    <2>4. UNCHANGED <<now, panicked>>
      BY <1>2, <1>5 DEF Count, IncrCreates
    <2>5. PICK V : V = r[1]
      OBVIOUS
    <2>6. PICK x : x = r[2]
      OBVIOUS
    <2>7. Ensured(nodes, V, x)
      BY <1>1, <2>5, <2>6, EnsureKeyEnsures
    <2>8. Tree(V) /\ x \in DOMAIN V
      BY <1>1, <2>7, EnsuredType
    <2>9. PICK U : U = [V EXCEPT ![x].val = v, ![x].exp = NoExpiracy]
      OBVIOUS
    <2>10. NoExpiracy \in 0 .. NoExpiracy
      BY ConstantsAssumption
    <2>11. Rewritten(V, U, x, v)
      BY <2>2, <2>8, <2>9, <2>10, WriteBoth
    <2>12. Update(U)
      BY <2>3, <2>5, <2>6, <2>9
    <2>13. nodes' = U /\ Kept
      BY <2>4, <2>12, UpdateKeeps
    <2> QED BY <2>2, <2>7, <2>11, <2>13 DEF Effect, Adds
  <1> QED BY <1>3, <1>4, <1>5

LEMMA WrappingNegType ==
  ASSUME NEW d \in Deltas
  PROVE  d \in MinInt .. MaxInt /\ WrappingNeg(d) \in MinInt .. MaxInt
  BY ConstantsAssumption DEF WrappingNeg

LEMMA EvictEffect ==
  ASSUME Typed, NEW i \in Idx, Evict(i)
  PROVE  /\ Kept
         /\ \/ Effect(nodes, nodes')
            \/ EvictsLeaf(nodes, nodes', i)
  <1>1. i \in DOMAIN nodes /\ i # Root
    BY ConstantsAssumption DEF Evict, Typed
  <1>2. PICK T : T = DeleteNode(nodes, i, nodes[i].parent, nodes[i].radix)
    OBVIOUS
  <1>3. nodes' = T /\ tagged' = (tagged \ {i}) \cap DOMAIN T /\ UNCHANGED <<now, panicked>>
    BY <1>2 DEF Evict
  <1>4. Kept
    BY <1>3 DEF Typed, Kept
  <1>5. CASE HasChildren(nodes[i])
    BY <1>1, <1>2, <1>3, <1>4, <1>5 DEF DeleteNode, Effect, Clears
  <1>6. CASE ~HasChildren(nodes[i])
    BY <1>1, <1>2, <1>3, <1>4, <1>6 DEF DeleteNode, EvictsLeaf
  <1> QED BY <1>5, <1>6

\* What a step does to the tree, and which steps have one of the three
\* special effects.
LEMMA NextEffect ==
  ASSUME Typed, Next
  PROVE  /\ Kept
         /\ \/ Effect(nodes, nodes')
            \/ /\ <<>> \in Keys /\ ClearsRoot(nodes, nodes')
               /\ Del(<<>>) \/ (Get(<<>>) /\ IsExpired(nodes[Root]))
            \/ <<>> \in PrefixArgs /\ Deln(<<>>) /\ Flushes(nodes, nodes')
            \/ \E i \in Idx : Evict(i) /\ EvictsLeaf(nodes, nodes', i)
  <1>1. ASSUME NEW key \in Keys, NEW v \in Vals, NEW e \in Expiries, Set(key, v, e)
        PROVE  Effect(nodes, nodes') /\ Kept
    BY <1>1, SetEffect
  <1>2. ASSUME NEW key \in Keys, Get(key)
        PROVE  /\ Kept
               /\ \/ Effect(nodes, nodes')
                  \/ key = <<>> /\ IsExpired(nodes[Root]) /\ ClearsRoot(nodes, nodes')
    BY <1>2, GetEffect
  <1>3. ASSUME NEW key \in Keys, Del(key)
        PROVE  Kept /\ (Effect(nodes, nodes') \/ (key = <<>> /\ ClearsRoot(nodes, nodes')))
    BY <1>3, DelEffect
  <1>4. ASSUME NEW p \in PrefixArgs, Deln(p)
        PROVE  Kept /\ (Effect(nodes, nodes') \/ (p = <<>> /\ Flushes(nodes, nodes')))
    BY <1>4, DelnEffect
  <1>5. ASSUME NEW p \in PrefixArgs, Getn(p) PROVE Effect(nodes, nodes') /\ Kept
    BY <1>5 DEF Getn, Typed, Kept, Effect, Stays
  <1>6. ASSUME NEW key \in Keys, GetTtl(key) PROVE Effect(nodes, nodes') /\ Kept
    BY <1>6 DEF GetTtl, Typed, Kept, Effect, Stays
  <1>7. ASSUME NEW key \in Keys, NEW t \in Ttls, Expire(key, now + t)
        PROVE  Effect(nodes, nodes') /\ Kept
    BY <1>7, ExpireEffect
  <1>8. ASSUME NEW key \in Keys, Persist(key) PROVE Effect(nodes, nodes') /\ Kept
    BY <1>8, PersistEffect
  <1>9. ASSUME NEW key \in Keys, Collect(key) PROVE Effect(nodes, nodes') /\ Kept
    BY <1>9, CollectEffect
  <1>10. ASSUME NEW key \in Keys, NEW d \in Deltas, IncrBy(key, d)
         PROVE  Effect(nodes, nodes') /\ Kept
    <2>1. Count("incrby", key, d) /\ d \in MinInt .. MaxInt
      BY <1>10, WrappingNegType DEF IncrBy
    <2> QED BY <2>1, CountEffect
  <1>11. ASSUME NEW key \in Keys, NEW d \in Deltas, DecrBy(key, d)
         PROVE  Effect(nodes, nodes') /\ Kept
    <2>1. PICK n : n = WrappingNeg(d)
      OBVIOUS
    <2>2. Count("decrby", key, n) /\ n \in MinInt .. MaxInt
      BY <1>11, <2>1, WrappingNegType DEF DecrBy
    <2> QED BY <2>2, CountEffect
  <1>12. ASSUME NEW t \in 0 .. MaxNow, Tick(t) PROVE Effect(nodes, nodes') /\ Kept
    BY <1>12 DEF Tick, Typed, Kept, Effect, Stays
  <1>13. ASSUME NEW i \in Idx, Evict(i)
         PROVE  Kept /\ (Effect(nodes, nodes') \/ EvictsLeaf(nodes, nodes', i))
    BY <1>13, EvictEffect
  <1> QED BY <1>1, <1>2, <1>3, <1>4, <1>5, <1>6, <1>7, <1>8, <1>9, <1>10, <1>11, <1>12, <1>13
          DEF Next

-----------------------------------------------------------------------------
(* Types.                                                                   *)

LEMMA RecompressType ==
  ASSUME NEW T, Tree(T), NEW i
  PROVE  Tree(Recompress(T, i))
  <1>1. PICK U : U = Recompress(T, i)
    OBVIOUS
  <1>2. (\E r, c : Absorbed(T, U, i, r, c)) \/ U = T
    BY <1>1, RecompressShape
  <1> QED BY <1>1, <1>2 DEF Absorbed

LEMMA CutType ==
  ASSUME NEW T, Tree(T), NEW S, Root \notin S, NEW p, NEW r
  PROVE  Tree(Cut(T, S, p, r))
  <1>1. PICK V : V = Without(T, S)
    OBVIOUS
  <1>2. Tree(V)
    BY <1>1, WithoutShape
  <1>3. PICK W : W = RemoveChild(V, p, r)
    OBVIOUS
  <1>4. Tree(W)
    BY <1>2, <1>3, RemoveChildShape DEF Dropped
  <1>5. Tree(Recompress(W, p))
    BY <1>4, RecompressType
  <1> QED BY <1>1, <1>3, <1>4, <1>5 DEF Cut

\* What ClearVal recompresses.
LEMMA ClearValShape ==
  ASSUME NEW T, Tree(T), NEW i \in DOMAIN T
  PROVE  \E V : Rewritten(T, V, i, Nil) /\ ClearVal(T, i) = Recompress(V, i)
  <1>1. PICK V : V = [T EXCEPT ![i].val = Nil]
    OBVIOUS
  <1>2. Rewritten(T, V, i, Nil)
    BY <1>1, WriteVal
  <1> QED BY <1>1, <1>2 DEF ClearVal

\* The whole tree is emptied, but for the root and its overflow list.
Flushed(T, U, S) ==
  /\ Tree(U) /\ DOMAIN U = DOMAIN T \ S /\ Root \notin S
  /\ \A x \in DOMAIN U \ {Root} : U[x] = T[x]
  /\ DOMAIN U[Root].childs = {} /\ U[Root].overflow = T[Root].overflow
  /\ U[Root].compression = T[Root].compression

LEMMA FlushShape ==
  ASSUME NEW T, Tree(T), NEW U, Flushes(T, U)
  PROVE  Flushed(T, U, Subtree(T, ChildIdxs(T[Root])))
  <1>0. Root \in DOMAIN T
    BY DEF Tree
  <1>1. PICK S : S = Subtree(T, ChildIdxs(T[Root]))
    OBVIOUS
  <1>2. Root \notin ChildIdxs(T[Root])
    BY <1>0, ChildIdxsLink, LinkType
  <1>3. Root \notin S
    BY <1>1, <1>2, SubtreeSparesRoot
  <1>4. PICK V : V = Without(T, S)
    OBVIOUS
  <1>5. Tree(V) /\ DOMAIN V = DOMAIN T \ S /\ \A x \in DOMAIN V : V[x] = T[x]
    BY <1>3, <1>4, WithoutShape
  <1>6. Root \in DOMAIN V /\ V[Root] = T[Root] /\ V[Root] \in Nodes
    BY <1>0, <1>3, <1>5 DEF Tree
  <1>7. PICK none : none = <<>>
    OBVIOUS
  <1>8. none \in ChildMaps /\ DOMAIN none = {} /\ Cardinality(DOMAIN none) <= ChildsSize
    <2>1. none \in ChildMaps /\ DOMAIN none = {} /\ Cardinality(DOMAIN none) = 0
      BY <1>7, NoChild
    <2> QED BY <2>1, ConstantsAssumption
  <1>9. PICK n : n = [V[Root] EXCEPT !.val = Nil, !.childs = none]
    OBVIOUS
  <1>10. n \in Nodes /\ n.childs = none /\ n.overflow = V[Root].overflow /\ n.compression = V[Root].compression
    BY <1>6, <1>8, <1>9 DEF Nodes
  <1>11. U = [V EXCEPT ![Root] = n]
    BY <1>1, <1>4, <1>6, <1>7, <1>9 DEF Flushes
  <1>12. Fits(n)
    BY <1>8, <1>10 DEF Fits
  <1>13. Put(V, U, Root, n)
    BY <1>5, <1>6, <1>11, <1>12, PutOld
  <1> QED BY <1>1, <1>3, <1>5, <1>6, <1>8, <1>10, <1>13 DEF Put, Flushed

LEMMA EffectType ==
  ASSUME NEW T, Tree(T), NEW U, Effect(T, U)
  PROVE  Tree(U)
  <1>1. CASE Stays(T, U)
    BY <1>1 DEF Stays
  <1>2. CASE Rewrites(T, U)
    BY <1>2 DEF Rewrites, Rewritten
  <1>3. CASE Adds(T, U)
    BY <1>3 DEF Adds, Rewritten
  <1>4. CASE Clears(T, U)
    <2>1. PICK i \in DOMAIN T : U = ClearVal(T, i)
      BY <1>4 DEF Clears
    <2>2. PICK V : Rewritten(T, V, i, Nil) /\ ClearVal(T, i) = Recompress(V, i)
      BY ClearValShape
    <2>3. Tree(V)
      BY <2>2 DEF Rewritten
    <2> QED BY <2>1, <2>2, <2>3, RecompressType
  <1>5. CASE CutsLeaf(T, U)
    <2>1. PICK i, p, r : Link(T, p, r, i) /\ U = Cut(T, {i}, p, r)
      BY <1>5 DEF CutsLeaf
    <2>2. Root \notin {i}
      BY <2>1, LinkType
    <2> QED BY <2>1, <2>2, CutType
  <1>6. CASE CutsBelow(T, U)
    <2>1. PICK i, p, r : Link(T, p, r, i) /\ U = Cut(T, Subtree(T, {i}), p, r)
      BY <1>6 DEF CutsBelow
    <2>2. Root \notin {i}
      BY <2>1, LinkType
    <2>3. Root \notin Subtree(T, {i})
      BY <2>2, SubtreeSparesRoot
    <2> QED BY <2>1, <2>3, CutType
  <1> QED BY <1>1, <1>2, <1>3, <1>4, <1>5, <1>6 DEF Effect

LEMMA ClearsRootType ==
  ASSUME NEW T, Tree(T), NEW U, ClearsRoot(T, U)
  PROVE  Tree(U)
  <1>1. Root \in DOMAIN T
    BY DEF Tree
  <1>2. PICK V : Rewritten(T, V, Root, Nil) /\ ClearVal(T, Root) = Recompress(V, Root)
    BY <1>1, ClearValShape
  <1>3. Tree(V)
    BY <1>2 DEF Rewritten
  <1> QED BY <1>2, <1>3, RecompressType DEF ClearsRoot

LEMMA TypedNext ==
  ASSUME Typed, [Next]_vars
  PROVE  Typed'
  <1>1. CASE UNCHANGED vars
    BY <1>1 DEF Typed, vars, Tree
  <1>2. CASE Next
    <2>1. Kept
      BY <1>2, NextEffect
    <2>2. Tree(nodes)
      BY DEF Typed
    <2>3. PICK U : U = nodes'
      OBVIOUS
    <2>4. Effect(nodes, U) => Tree(U)
      BY <2>2, EffectType
    <2>5. ClearsRoot(nodes, U) => Tree(U)
      BY <2>2, ClearsRootType
    <2>6. Flushes(nodes, U) => Tree(U)
      BY <2>2, FlushShape DEF Flushed
    <2>7. ASSUME NEW i \in Idx, EvictsLeaf(nodes, U, i) PROVE Tree(U)
      <3>2. U = Cut(nodes, {i}, nodes[i].parent, nodes[i].radix) /\ Root \notin {i}
        BY <2>7, ConstantsAssumption DEF EvictsLeaf
      <3> QED BY <2>2, <3>2, CutType
    <2>8. Tree(U)
      BY <1>2, <2>3, <2>4, <2>5, <2>6, <2>7, NextEffect
    <2>9. Tree(nodes)'
      BY <2>3, <2>8 DEF Tree
    <2> QED BY <2>1, <2>9 DEF Typed, Kept
  <1> QED BY <1>1, <1>2

LEMMA TypedInit == Init => Typed
  <1> SUFFICES ASSUME Init PROVE Typed
    OBVIOUS
  <1>1. PICK none : none = <<>>
    OBVIOUS
  <1>2. none \in ChildMaps /\ DOMAIN none = {} /\ Cardinality(DOMAIN none) = 0
    BY <1>1, NoChild
  <1>3. none \in Seq(Radixes)
    BY <1>1
  <1>4. PICK n : n = [compression |-> none, childs |-> none, overflow |-> none, val |-> Nil,
                      exp |-> NoExpiracy, parent |-> Nil, radix |-> Nil]
    OBVIOUS
  <1>5. NoExpiracy \in 0 .. NoExpiracy /\ 0 <= ChildsSize /\ 0 \in 0 .. MaxNow
    BY ConstantsAssumption
  <1>6. n \in Nodes /\ Cardinality(DOMAIN n.childs) <= ChildsSize
    BY <1>2, <1>3, <1>4, <1>5 DEF Nodes
  <1>7. nodes = [i \in {Root} |-> n]
    BY <1>1, <1>4 DEF Init, Node
  <1>8. Tree(nodes)
    BY <1>6, <1>7 DEF Tree, Indices
  <1> QED BY <1>5, <1>8 DEF Init, Typed

LEMMA TypedOK == Typed => TypeOK
  <1> SUFFICES ASSUME Typed PROVE TypeOK
    OBVIOUS
  <1>1. Tree(nodes)
    BY DEF Typed
  <1>2. ASSUME NEW i \in DOMAIN nodes
        PROVE  /\ nodes[i].compression \in Seq(Radixes)
               /\ \A k \in Kids(nodes[i]) : k \in Radixes \X Idx
               /\ Cardinality(DOMAIN nodes[i].childs) <= ChildsSize
               /\ nodes[i].val \in Values \cup {Nil}
               /\ nodes[i].exp \in 0 .. NoExpiracy
               /\ nodes[i].parent \in Indices \cup {Nil}
               /\ nodes[i].radix \in Radixes \cup {Nil}
    <2>1. nodes[i] \in Nodes /\ Cardinality(DOMAIN nodes[i].childs) <= ChildsSize
      BY <1>1 DEF Tree
    <2>2. nodes[i].childs \in ChildMaps /\ nodes[i].overflow \in ChildMaps
      BY <2>1 DEF Nodes
    <2>3. \A k \in Kids(nodes[i]) : k \in Radixes \X Idx
      BY <2>2, ChildMapsType DEF Kids
    <2> QED BY <2>1, <2>3 DEF Nodes
  <1> QED BY <1>1, <1>2 DEF Typed, Tree, TypeOK

LEMMA TypedAlways == Spec => []Typed
  <1>1. Typed /\ [Next]_vars => Typed'
    BY TypedNext
  <1> QED BY <1>1, TypedInit, PTL DEF Spec

\* Every index a node stores is one the slab hands out, the inline children
\* fit, and a tag is on an occupied slot, whatever is written, expired,
\* evicted or panicked on (oxidart/src/lib.rs).
THEOREM TypeCorrect == Spec => []TypeOK
  BY TypedAlways, TypedOK, PTL

-----------------------------------------------------------------------------
(* Forests.                                                                 *)

\* The links make the slots a forest with the roots R: no link dangles or
\* leads to a root, no node has two links to it, and a set that holds the
\* roots and is closed under links holds every node.
Graph(T, R) ==
  /\ R \subseteq DOMAIN T
  /\ \A i, r, j : Link(T, i, r, j) => j \in DOMAIN T /\ j \notin R
  /\ \A i, r, k, q, j : Link(T, i, r, j) /\ Link(T, k, q, j) => i = k /\ r = q
  /\ \A C \in SUBSET DOMAIN T : R \subseteq C /\ Closed(T, C) => C = DOMAIN T

\* A node has at most one child for a radix, inline or in the overflow list.
Apart(T) == \A i \in DOMAIN T : \A r : ~(r \in DOMAIN T[i].childs /\ r \in DOMAIN T[i].overflow)

Forest(T, R) == Apart(T) /\ Graph(T, R)

LEMMA LinkFunctional ==
  ASSUME NEW T, Apart(T), NEW i, NEW r, NEW j, NEW k, Link(T, i, r, j), Link(T, i, r, k)
  PROVE  j = k
  BY DEF Apart, Link

LEMMA GraphSame ==
  ASSUME NEW T, NEW R, Graph(T, R), NEW U, DOMAIN U = DOMAIN T,
         \A i, r, j : Link(U, i, r, j) <=> Link(T, i, r, j)
  PROVE  Graph(U, R)
  BY DEF Graph, Closed

\* A new leaf a below p.
HangLinks(T, U, p, q, a) ==
  /\ p \in DOMAIN T /\ a \notin DOMAIN T /\ DOMAIN U = DOMAIN T \cup {a}
  /\ \A i, r, j : Link(U, i, r, j) <=> Link(T, i, r, j) \/ (i = p /\ r = q /\ j = a)

LEMMA GraphHang ==
  ASSUME NEW T, NEW R, Graph(T, R), NEW U, NEW p, NEW q, NEW a, HangLinks(T, U, p, q, a)
  PROVE  Graph(U, R)
  <1> USE DEF HangLinks
  <1>1. R \subseteq DOMAIN U
    BY DEF Graph
  <1>2. \A i, r, j : Link(U, i, r, j) => j \in DOMAIN U /\ j \notin R
    BY DEF Graph
  <1>3. \A i, r, k, s, j : Link(U, i, r, j) /\ Link(U, k, s, j) => i = k /\ r = s
    BY DEF Graph
  <1>4. ASSUME NEW C \in SUBSET DOMAIN U, R \subseteq C, Closed(U, C) PROVE C = DOMAIN U
    <2>1. PICK B : B = C \cap DOMAIN T
      OBVIOUS
    <2>2. R \subseteq B
      BY <1>4, <2>1 DEF Graph
    <2>3. Closed(T, B)
      <3> SUFFICES ASSUME NEW x \in B, NEW r, NEW j, Link(T, x, r, j), j \in DOMAIN T
                   PROVE  j \in B
        BY DEF Closed
      <3>1. j \in C
        BY <1>4, <2>1 DEF Closed
      <3> QED BY <2>1, <3>1
    <2>4. B = DOMAIN T
      BY <2>1, <2>2, <2>3 DEF Graph
    <2>5. a \in C
      <3>1. p \in C /\ Link(U, p, q, a) /\ a \in DOMAIN U
        BY <2>1, <2>4
      <3> QED BY <1>4, <3>1 DEF Closed
    <2> QED BY <2>1, <2>4, <2>5
  <1> QED BY <1>1, <1>2, <1>3, <1>4 DEF Graph

\* Node n passes its links on to a new node b, and keeps one, to b.
SplitLinks(T, U, n, q, b) ==
  /\ n \in DOMAIN T /\ b \notin DOMAIN T /\ DOMAIN U = DOMAIN T \cup {b}
  /\ \A i, r, j : Link(T, i, r, j) => i \in DOMAIN T
  /\ \A i, r, j : Link(U, i, r, j) <=> \/ i = n /\ r = q /\ j = b
                                       \/ i = b /\ Link(T, n, r, j)
                                       \/ i # n /\ Link(T, i, r, j)

LEMMA GraphSplit ==
  ASSUME NEW T, NEW R, Graph(T, R), NEW U, NEW n, NEW q, NEW b, SplitLinks(T, U, n, q, b)
  PROVE  Graph(U, R)
  <1> USE DEF SplitLinks
  <1>1. R \subseteq DOMAIN U
    BY DEF Graph
  <1>2. \A i, r, j : Link(U, i, r, j) => j \in DOMAIN U /\ j \notin R
    BY DEF Graph
  <1>3. \A i, r, k, s, j : Link(U, i, r, j) /\ Link(U, k, s, j) => i = k /\ r = s
    BY DEF Graph
  <1>4. ASSUME NEW C \in SUBSET DOMAIN U, R \subseteq C, Closed(U, C) PROVE C = DOMAIN U
    <2>1. PICK B : B = C \cap DOMAIN T
      OBVIOUS
    <2>2. R \subseteq B
      BY <1>4, <2>1 DEF Graph
    <2>b. n \in C => b \in C
      <3>1. Link(U, n, q, b) /\ b \in DOMAIN U
        OBVIOUS
      <3> QED BY <1>4, <3>1 DEF Closed
    <2>3. Closed(T, B)
      <3> SUFFICES ASSUME NEW x \in B, NEW r, NEW j, Link(T, x, r, j), j \in DOMAIN T
                   PROVE  j \in B
        BY DEF Closed
      <3>1. CASE x = n
        <4>1. b \in C /\ Link(U, b, r, j) /\ j \in DOMAIN U
          BY <2>1, <2>b, <3>1
        <4> QED BY <1>4, <2>1, <4>1 DEF Closed
      <3>2. CASE x # n
        <4>1. x \in C /\ Link(U, x, r, j) /\ j \in DOMAIN U
          BY <2>1, <3>2
        <4> QED BY <1>4, <2>1, <4>1 DEF Closed
      <3> QED BY <3>1, <3>2
    <2>4. B = DOMAIN T
      BY <2>1, <2>2, <2>3 DEF Graph
    <2> QED BY <2>1, <2>4, <2>b
  <1> QED BY <1>1, <1>2, <1>3, <1>4 DEF Graph

\* No node of a forest is its own parent.
LEMMA NoLoop ==
  ASSUME NEW T, NEW R, Graph(T, R), NEW i, NEW r
  PROVE  ~Link(T, i, r, i)
  <1> SUFFICES ASSUME Link(T, i, r, i) PROVE FALSE
    OBVIOUS
  <1>1. PICK C : C = DOMAIN T \ {i}
    OBVIOUS
  <1>2. C \in SUBSET DOMAIN T /\ R \subseteq C
    BY <1>1 DEF Graph
  <1>3. Closed(T, C)
    BY <1>1 DEF Closed, Graph
  <1>4. C = DOMAIN T /\ i \in DOMAIN T
    BY <1>2, <1>3 DEF Graph
  <1> QED BY <1>1, <1>4

\* Node n takes over the links of its only child c, which goes.
AbsorbLinks(T, U, n, q, c) ==
  /\ n \in DOMAIN T /\ n # c /\ Link(T, n, q, c) /\ DOMAIN U = DOMAIN T \ {c}
  /\ \A r, j : Link(T, n, r, j) => r = q /\ j = c
  /\ \A i, r, j : Link(T, i, r, j) => i \in DOMAIN T
  /\ \A i, r, j : Link(U, i, r, j) <=> \/ i = n /\ Link(T, c, r, j)
                                       \/ i # n /\ i # c /\ Link(T, i, r, j)

LEMMA GraphAbsorb ==
  ASSUME NEW T, NEW R, Graph(T, R), NEW U, NEW n, NEW q, NEW c, AbsorbLinks(T, U, n, q, c)
  PROVE  Graph(U, R)
  <1> USE DEF AbsorbLinks
  <1>1. R \subseteq DOMAIN U
    BY DEF Graph
  <1>2. \A i, r, j : Link(U, i, r, j) => j \in DOMAIN U /\ j \notin R
    <2> SUFFICES ASSUME NEW i, NEW r, NEW j, Link(U, i, r, j) PROVE j \in DOMAIN U /\ j \notin R
      OBVIOUS
    <2>1. PICK k : Link(T, k, r, j) /\ k # n
      <3>1. CASE i = n /\ Link(T, c, r, j)
        BY <3>1
      <3>2. CASE i # n /\ i # c /\ Link(T, i, r, j)
        BY <3>2
      <3> QED BY <3>1, <3>2
    <2>2. j # c
      BY <2>1 DEF Graph
    <2> QED BY <2>1, <2>2 DEF Graph
  <1>3. \A i, r, k, s, j : Link(U, i, r, j) /\ Link(U, k, s, j) => i = k /\ r = s
    BY DEF Graph
  <1>4. ASSUME NEW C \in SUBSET DOMAIN U, R \subseteq C, Closed(U, C) PROVE C = DOMAIN U
    <2>1. PICK B : B = C \cup {x \in {c} : n \in C}
      OBVIOUS
    <2>2. B \in SUBSET DOMAIN T /\ R \subseteq B
      BY <1>4, <2>1 DEF Graph
    <2>3. Closed(T, B)
      <3> SUFFICES ASSUME NEW x \in B, NEW r, NEW j, Link(T, x, r, j), j \in DOMAIN T
                   PROVE  j \in B
        BY DEF Closed
      <3>1. CASE x = n
        BY <2>1, <3>1
      <3>2. CASE x = c
        <4>1. n \in C /\ Link(U, n, r, j)
          BY <2>1, <3>2
        <4>2. j \in DOMAIN U
          BY <1>2, <4>1
        <4> QED BY <1>4, <2>1, <4>1, <4>2 DEF Closed
      <3>3. CASE x # n /\ x # c
        <4>1. x \in C /\ Link(U, x, r, j)
          BY <2>1, <3>3
        <4>2. j \in DOMAIN U
          BY <1>2, <4>1
        <4> QED BY <1>4, <2>1, <4>1, <4>2 DEF Closed
      <3> QED BY <3>1, <3>2, <3>3
    <2>4. B = DOMAIN T
      BY <2>2, <2>3 DEF Graph
    <2> QED BY <2>1, <2>4
  <1> QED BY <1>1, <1>2, <1>3, <1>4 DEF Graph

\* A closed set of nodes without a root goes, and the links to it.
LEMMA GraphTrim ==
  ASSUME NEW T, NEW R, Graph(T, R), NEW S, Closed(T, S), S \cap R = {},
         S \in SUBSET DOMAIN T,
         NEW U, DOMAIN U = DOMAIN T \ S,
         \A i, r, j : Link(U, i, r, j) <=> Link(T, i, r, j) /\ i \notin S /\ j \notin S
  PROVE  Graph(U, R)
  <1>1. R \subseteq DOMAIN U
    BY DEF Graph
  <1>2. \A i, r, j : Link(U, i, r, j) => j \in DOMAIN U /\ j \notin R
    BY DEF Graph
  <1>3. \A i, r, k, s, j : Link(U, i, r, j) /\ Link(U, k, s, j) => i = k /\ r = s
    BY DEF Graph
  <1>4. ASSUME NEW C \in SUBSET DOMAIN U, R \subseteq C, Closed(U, C) PROVE C = DOMAIN U
    <2>1. PICK B : B = C \cup S
      OBVIOUS
    <2>2. B \in SUBSET DOMAIN T /\ R \subseteq B
      BY <1>4, <2>1 DEF Graph
    <2>3. Closed(T, B)
      <3> SUFFICES ASSUME NEW x \in B, NEW r, NEW j, Link(T, x, r, j), j \in DOMAIN T
                   PROVE  j \in B
        BY DEF Closed
      <3>1. CASE x \in S
        BY <2>1, <3>1 DEF Closed
      <3>2. CASE x \notin S /\ j \notin S
        <4>1. x \in C /\ Link(U, x, r, j) /\ j \in DOMAIN U
          BY <2>1, <3>2
        <4> QED BY <1>4, <2>1, <4>1 DEF Closed
      <3>3. CASE j \in S
        BY <2>1, <3>3
      <3> QED BY <3>1, <3>2, <3>3
    <2>4. B = DOMAIN T
      BY <2>2, <2>3 DEF Graph
    <2> QED BY <2>1, <2>4
  <1> QED BY <1>1, <1>2, <1>3, <1>4 DEF Graph

\* S is a part of the tree that one link, from p by q, leads into.
Pendant(T, R, S, p, q) ==
  /\ S \in SUBSET DOMAIN T /\ Closed(T, S) /\ S \cap R = {} /\ p \in DOMAIN T \ S
  /\ \E t \in S : Link(T, p, q, t)
  /\ \A i, r, j : Link(T, i, r, j) /\ j \in S /\ i \notin S => i = p /\ r = q

\* Only the link to its top leads into a subtree, from outside of it.
LEMMA SubtreePendant ==
  ASSUME NEW T, NEW R, Graph(T, R), NEW p, NEW q, NEW t, Link(T, p, q, t),
         NEW S, S = Subtree(T, {t})
  PROVE  Pendant(T, R, S, p, q)
  <1>1. /\ S \in SUBSET DOMAIN T /\ {t} \cap DOMAIN T \subseteq S /\ Closed(T, S)
        /\ \A C \in SUBSET DOMAIN T : {t} \cap DOMAIN T \subseteq C /\ Closed(T, C) => S \subseteq C
    BY SubtreeLeast
  <1>2. t \in S
    BY <1>1 DEF Graph
  <1>3. ASSUME NEW y \in S, y # t PROVE \E x \in S : \E r : Link(T, x, r, y)
    <2> SUFFICES ASSUME \A x \in S : \A r : ~Link(T, x, r, y) PROVE FALSE
      OBVIOUS
    <2>1. PICK C : C = S \ {y}
      OBVIOUS
    <2>2. C \in SUBSET DOMAIN T /\ {t} \cap DOMAIN T \subseteq C
      BY <1>1, <1>3, <2>1
    <2>3. Closed(T, C)
      BY <1>1, <2>1 DEF Closed
    <2> QED BY <1>1, <2>1, <2>2, <2>3
  <1>4. S \cap R = {}
    <2> SUFFICES ASSUME NEW y \in S PROVE y \notin R
      OBVIOUS
    <2>1. \E x, r : Link(T, x, r, y)
      BY <1>3
    <2> QED BY <2>1 DEF Graph
  <1>5. \A i, r, j : Link(T, i, r, j) /\ j \in S /\ i \notin S => i = p /\ r = q /\ j = t
    <2> SUFFICES ASSUME NEW i, NEW r, NEW j, Link(T, i, r, j), j \in S, i \notin S
                 PROVE  i = p /\ r = q /\ j = t
      OBVIOUS
    <2>1. CASE j = t
      BY <2>1 DEF Graph
    <2>2. CASE j # t
      <3>1. PICK x, s : x \in S /\ Link(T, x, s, j)
        BY <1>3, <2>2
      <3>2. x = i
        BY <3>1 DEF Graph
      <3> QED BY <3>1, <3>2
    <2> QED BY <2>1, <2>2
  <1>6. p \notin S
    <2> SUFFICES ASSUME p \in S PROVE FALSE
      OBVIOUS
    <2>1. PICK C : C = DOMAIN T \ S
      OBVIOUS
    <2>2. C \in SUBSET DOMAIN T /\ R \subseteq C
      BY <1>4, <2>1 DEF Graph
    <2>3. Closed(T, C)
      BY <1>5, <2>1 DEF Closed
    <2>4. C = DOMAIN T
      BY <2>2, <2>3 DEF Graph
    <2> QED BY <1>1, <1>2, <2>1, <2>4
  <1>7. p \in DOMAIN T
    BY DEF Link
  <1> QED BY <1>1, <1>2, <1>4, <1>5, <1>6, <1>7 DEF Pendant

-----------------------------------------------------------------------------
(* Every change of the tree keeps it a forest.                              *)

LEMMA ForestRewritten ==
  ASSUME NEW T, NEW R, Forest(T, R), NEW U, NEW i, NEW v, Rewritten(T, U, i, v)
  PROVE  Forest(U, R)
  <1>1. DOMAIN U = DOMAIN T
    BY DEF Rewritten
  <1>2. \A x \in DOMAIN T : U[x].childs = T[x].childs /\ U[x].overflow = T[x].overflow
    BY DEF Rewritten
  <1>3. \A x, r, j : Link(U, x, r, j) <=> Link(T, x, r, j)
    BY <1>1, <1>2 DEF Link
  <1>4. Graph(U, R)
    BY <1>1, <1>3, GraphSame DEF Forest
  <1>5. Apart(U)
    BY <1>1, <1>2 DEF Forest, Apart
  <1> QED BY <1>4, <1>5 DEF Forest

LEMMA ForestHung ==
  ASSUME NEW T, Tree(T), NEW R, Forest(T, R), NEW U, NEW p, NEW a, Hung(T, U, p, a)
  PROVE  Forest(U, R)
  <1>1. PICK q : HungInto(T, U, p, a, q)
    BY HungShape
  <1>2. /\ DOMAIN U = DOMAIN T \cup {a} /\ a # p /\ p \in DOMAIN T /\ a \notin DOMAIN T
        /\ \A x \in DOMAIN T \ {p} : U[x] = T[x]
        /\ DOMAIN U[a].childs = {} /\ DOMAIN U[a].overflow = {}
    BY <1>1 DEF HungInto
  <1>3. \A j : ~Link(T, p, q, j)
    BY <1>1, <1>2, FindLink DEF HungInto
  <1>4. q \notin DOMAIN T[p].childs /\ q \notin DOMAIN T[p].overflow
    BY <1>2, <1>3 DEF Link
  <1>5. /\ \A r, j : Link(U, p, r, j) <=> Link(T, p, r, j) \/ (r = q /\ j = a)
        /\ \A r : ~(r \in DOMAIN U[p].childs /\ r \in DOMAIN U[p].overflow)
    <2>1. CASE ChildAdded(T[p].childs, U[p].childs, q, a) /\ U[p].overflow = T[p].overflow
      BY <1>2, <1>4, <2>1 DEF ChildAdded, Link, Forest, Apart
    <2>2. CASE U[p].childs = T[p].childs /\ ChildAdded(T[p].overflow, U[p].overflow, q, a)
      BY <1>2, <1>4, <2>2 DEF ChildAdded, Link, Forest, Apart
    <2> QED BY <1>1, <2>1, <2>2 DEF HungInto
  <1>6. \A x, r, j : Link(U, x, r, j) <=> Link(T, x, r, j) \/ (x = p /\ r = q /\ j = a)
    <2> SUFFICES ASSUME NEW x, NEW r, NEW j
                 PROVE  Link(U, x, r, j) <=> Link(T, x, r, j) \/ (x = p /\ r = q /\ j = a)
      OBVIOUS
    <2>1. CASE x = p
      BY <1>5, <2>1
    <2>2. CASE x = a
      BY <1>2, <2>2 DEF Link
    <2>3. CASE x # p /\ x # a
      BY <1>2, <2>3 DEF Link
    <2> QED BY <2>1, <2>2, <2>3
  <1>7. Graph(U, R)
    <2>1. HangLinks(T, U, p, q, a)
      BY <1>2, <1>6 DEF HangLinks
    <2> QED BY <2>1, GraphHang DEF Forest
  <1>8. Apart(U)
    BY <1>2, <1>5 DEF Forest, Apart
  <1> QED BY <1>7, <1>8 DEF Forest

LEMMA ForestSplit ==
  ASSUME NEW T, Tree(T), NEW R, Forest(T, R), NEW U, NEW n, NEW b, SplitAt(T, U, n, b)
  PROVE  Forest(U, R)
  <1>1. PICK q : SplitInto(T, U, n, b, q) /\ n \in DOMAIN T /\ b \notin DOMAIN T
    BY SplitAtShape
  <1>2. /\ DOMAIN U = DOMAIN T \cup {b} /\ b # n
        /\ \A x \in DOMAIN T \ {n} : U[x] = T[x]
        /\ U[b].childs = T[n].childs /\ U[b].overflow = T[n].overflow
        /\ DOMAIN U[n].childs = {q} /\ U[n].childs[q] = b /\ DOMAIN U[n].overflow = {}
    BY <1>1 DEF SplitInto
  <1>3. \A i, r, j : Link(T, i, r, j) => i \in DOMAIN T
    BY DEF Link
  <1>4. \A i, r, j : Link(U, i, r, j) <=> \/ i = n /\ r = q /\ j = b
                                          \/ i = b /\ Link(T, n, r, j)
                                          \/ i # n /\ Link(T, i, r, j)
    <2> SUFFICES ASSUME NEW i, NEW r, NEW j
                 PROVE  Link(U, i, r, j) <=> \/ i = n /\ r = q /\ j = b
                                             \/ i = b /\ Link(T, n, r, j)
                                             \/ i # n /\ Link(T, i, r, j)
      OBVIOUS
    <2>1. CASE i = n
      BY <1>1, <1>2, <2>1 DEF Link
    <2>2. CASE i = b
      BY <1>1, <1>2, <2>2 DEF Link
    <2>3. CASE i # n /\ i # b
      BY <1>1, <1>2, <2>3 DEF Link
    <2> QED BY <2>1, <2>2, <2>3
  <1>5. Graph(U, R)
    <2>1. SplitLinks(T, U, n, q, b)
      BY <1>1, <1>2, <1>3, <1>4 DEF SplitLinks
    <2> QED BY <2>1, GraphSplit DEF Forest
  <1>6. Apart(U)
    <2> SUFFICES ASSUME NEW i \in DOMAIN U, NEW r
                 PROVE  ~(r \in DOMAIN U[i].childs /\ r \in DOMAIN U[i].overflow)
      BY DEF Apart
    <2>1. CASE i = n
      BY <1>2, <2>1
    <2>2. CASE i = b
      BY <1>1, <1>2, <2>2 DEF Forest, Apart
    <2>3. CASE i # n /\ i # b
      BY <1>2, <2>3 DEF Forest, Apart
    <2> QED BY <2>1, <2>2, <2>3
  <1> QED BY <1>5, <1>6 DEF Forest

LEMMA ForestEnsured ==
  ASSUME NEW T, Tree(T), NEW R, Forest(T, R), NEW V, NEW x, Ensured(T, V, x)
  PROVE  Forest(V, R)
  <1>1. CASE V = T /\ x \in DOMAIN T
    BY <1>1
  <1>2. CASE \E p : Hung(T, V, p, x)
    BY <1>2, ForestHung
  <1>3. CASE \E b : SplitAt(T, V, x, b)
    BY <1>3, ForestSplit
  <1>4. CASE \E W, j, b : SplitAt(T, W, j, b) /\ Hung(W, V, j, x)
    <2>1. PICK W, j, b : SplitAt(T, W, j, b) /\ Hung(W, V, j, x)
      BY <1>4
    <2>2. Tree(W) /\ Forest(W, R)
      BY <2>1, SplitAtShape, ForestSplit DEF SplitInto
    <2> QED BY <2>1, <2>2, ForestHung
  <1> QED BY <1>1, <1>2, <1>3, <1>4 DEF Ensured

LEMMA ForestRecompress ==
  ASSUME NEW T, Tree(T), NEW R, Forest(T, R), NEW n
  PROVE  Forest(Recompress(T, n), R)
  <1>1. PICK U : U = Recompress(T, n)
    OBVIOUS
  <1>2. CASE U = T
    BY <1>1, <1>2
  <1>3. CASE \E q, c : Absorbed(T, U, n, q, c)
    <2>1. PICK q, c : Absorbed(T, U, n, q, c)
      BY <1>3
    <2>2. /\ n \in DOMAIN T /\ DOMAIN T[n].childs = {q} /\ T[n].childs[q] = c
          /\ DOMAIN T[n].overflow = {} /\ c \in DOMAIN T /\ DOMAIN U = DOMAIN T \ {c}
      BY <2>1 DEF Absorbed
    <2>3. Link(T, n, q, c) /\ \A r, j : Link(T, n, r, j) => r = q /\ j = c
      BY <2>2 DEF Link
    <2>4. n # c
      BY <2>3, NoLoop DEF Forest
    <2>5. /\ U[n].childs = T[c].childs /\ U[n].overflow = T[c].overflow
          /\ \A x \in DOMAIN U \ {n} : U[x].childs = T[x].childs /\ U[x].overflow = T[x].overflow
      BY <2>1, <2>4 DEF Absorbed, Alike
    <2>6. \A i, r, j : Link(T, i, r, j) => i \in DOMAIN T
      BY DEF Link
    <2>7. \A i, r, j : Link(U, i, r, j) <=> \/ i = n /\ Link(T, c, r, j)
                                            \/ i # n /\ i # c /\ Link(T, i, r, j)
      <3> SUFFICES ASSUME NEW i, NEW r, NEW j
                   PROVE  Link(U, i, r, j) <=> \/ i = n /\ Link(T, c, r, j)
                                               \/ i # n /\ i # c /\ Link(T, i, r, j)
        OBVIOUS
      <3>1. CASE i = n
        BY <2>2, <2>4, <2>5, <3>1 DEF Link
      <3>2. CASE i # n
        BY <2>2, <2>5, <3>2 DEF Link
      <3> QED BY <3>1, <3>2
    <2>8. Graph(U, R)
      <3>1. AbsorbLinks(T, U, n, q, c)
        BY <2>2, <2>3, <2>4, <2>6, <2>7 DEF AbsorbLinks
      <3> QED BY <3>1, GraphAbsorb DEF Forest
    <2>9. Apart(U)
      BY <2>2, <2>4, <2>5 DEF Forest, Apart
    <2> QED BY <1>1, <2>8, <2>9 DEF Forest
  <1> QED BY <1>1, <1>2, <1>3, RecompressShape

\* The links after the child of p by q is dropped.
LEMMA DroppedLinks ==
  ASSUME NEW T, Apart(T), NEW U, NEW p, NEW q, Dropped(T, U, p, q)
  PROVE  /\ Apart(U)
         /\ \A i, r, j : Link(U, i, r, j) <=> Link(T, i, r, j) /\ ~(i = p /\ r = q)
  <1>1. DOMAIN U = DOMAIN T /\ \A x \in DOMAIN T \ {p} : U[x] = T[x]
    BY DEF Dropped
  <1>2. ASSUME p \in DOMAIN T
        PROVE  /\ \A r, j : Link(U, p, r, j) <=> Link(T, p, r, j) /\ r # q
               /\ \A r : ~(r \in DOMAIN U[p].childs /\ r \in DOMAIN U[p].overflow)
    <2>1. CASE /\ q \in DOMAIN T[p].childs /\ ChildsDropped(T[p].childs, U[p].childs, {q})
               /\ U[p].overflow = T[p].overflow
      BY <1>1, <1>2, <2>1 DEF ChildsDropped, Link, Apart
    <2>2. CASE /\ q \notin DOMAIN T[p].childs /\ U[p].childs = T[p].childs
               /\ ChildsDropped(T[p].overflow, U[p].overflow, {q})
      BY <1>1, <1>2, <2>2 DEF ChildsDropped, Link, Apart
    <2> QED BY <1>2, <2>1, <2>2 DEF Dropped
  <1>3. Apart(U)
    BY <1>1, <1>2 DEF Apart
  <1>4. \A i, r, j : Link(U, i, r, j) <=> Link(T, i, r, j) /\ ~(i = p /\ r = q)
    <2> SUFFICES ASSUME NEW i, NEW r, NEW j
                 PROVE  Link(U, i, r, j) <=> Link(T, i, r, j) /\ ~(i = p /\ r = q)
      OBVIOUS
    <2>1. CASE i = p
      BY <1>1, <1>2, <2>1 DEF Link
    <2>2. CASE i # p
      BY <1>1, <2>2 DEF Link
    <2> QED BY <2>1, <2>2
  <1> QED BY <1>3, <1>4

LEMMA LeafPendant ==
  ASSUME NEW T, NEW R, Graph(T, R), NEW p, NEW q, NEW t, Link(T, p, q, t), t \in DOMAIN T,
         ~HasChildren(T[t])
  PROVE  Pendant(T, R, {t}, p, q)
  <1>1. \A r, j : ~Link(T, t, r, j)
    BY DEF Link, HasChildren
  <1>2. p \in DOMAIN T /\ p # t
    BY <1>1 DEF Link
  <1>3. {t} \cap R = {} /\ Closed(T, {t})
    BY <1>1 DEF Graph, Closed
  <1>4. \A i, r, j : Link(T, i, r, j) /\ j \in {t} => i = p /\ r = q
    BY DEF Graph
  <1> QED BY <1>2, <1>3, <1>4 DEF Pendant

\* Two nodes that spell and hold the same.
SameData(n, m) == n.compression = m.compression /\ n.val = m.val /\ n.exp = m.exp

\* The tree without S, before the parent is recompressed.
Pruned(T, U, R, S, p, q) ==
  /\ Tree(U) /\ Forest(U, R) /\ DOMAIN U = DOMAIN T \ S
  /\ Dropped(Without(T, S), U, p, q)
  /\ \A i, r, j : Link(U, i, r, j) <=> Link(T, i, r, j) /\ i \notin S /\ j \notin S
  /\ \A x \in DOMAIN U : SameData(U[x], T[x])

LEMMA ForestPruned ==
  ASSUME NEW T, Tree(T), NEW R, Forest(T, R), Root \in R, NEW S, NEW p, NEW q,
         Pendant(T, R, S, p, q), NEW U, U = RemoveChild(Without(T, S), p, q)
  PROVE  Pruned(T, U, R, S, p, q)
  <1>1. PICK V : V = Without(T, S)
    OBVIOUS
  <1>2. Root \notin S
    BY DEF Pendant
  <1>3. Tree(V) /\ DOMAIN V = DOMAIN T \ S /\ \A x \in DOMAIN V : V[x] = T[x]
    BY <1>1, <1>2, WithoutShape
  <1>4. Dropped(V, U, p, q)
    BY <1>1, <1>3, RemoveChildShape
  <1>5. Tree(U) /\ DOMAIN U = DOMAIN T \ S
    BY <1>3, <1>4 DEF Dropped
  <1>6. Apart(V)
    BY <1>3 DEF Forest, Apart
  <1>7. \A i, r, j : Link(V, i, r, j) <=> Link(T, i, r, j) /\ i \notin S
    BY <1>3 DEF Link
  <1>8. /\ Apart(U)
        /\ \A i, r, j : Link(U, i, r, j) <=> Link(V, i, r, j) /\ ~(i = p /\ r = q)
    BY <1>4, <1>6, DroppedLinks
  <1>9. \A i, r, j : Link(U, i, r, j) <=> Link(T, i, r, j) /\ i \notin S /\ j \notin S
    <2> SUFFICES ASSUME NEW i, NEW r, NEW j, Link(T, i, r, j), i \notin S
                 PROVE  j \in S <=> (i = p /\ r = q)
      BY <1>7, <1>8
    <2>1. j \in S => i = p /\ r = q
      BY DEF Pendant
    <2>2. i = p /\ r = q => j \in S
      <3> SUFFICES ASSUME i = p, r = q PROVE j \in S
        OBVIOUS
      <3>1. PICK t \in S : Link(T, p, q, t)
        BY DEF Pendant
      <3>2. j = t
        BY <3>1, LinkFunctional DEF Forest
      <3> QED BY <3>1, <3>2
    <2> QED BY <2>1, <2>2
  <1>10. S \in SUBSET DOMAIN T /\ Closed(T, S) /\ S \cap R = {}
    BY DEF Pendant
  <1>11. Graph(U, R)
    BY <1>5, <1>9, <1>10, GraphTrim DEF Forest
  <1>12. \A x \in DOMAIN U : SameData(U[x], T[x])
    <2> SUFFICES ASSUME NEW x \in DOMAIN U PROVE SameData(U[x], T[x])
      OBVIOUS
    <2>1. SameData(U[x], V[x])
      BY <1>3, <1>4, <1>5 DEF Dropped, SameData
    <2> QED BY <1>3, <1>5, <2>1 DEF SameData
  <1> QED BY <1>1, <1>4, <1>5, <1>8, <1>9, <1>11, <1>12 DEF Forest, Pruned

LEMMA ForestCut ==
  ASSUME NEW T, Tree(T), NEW R, Forest(T, R), Root \in R, NEW S, NEW p, NEW q,
         Pendant(T, R, S, p, q)
  PROVE  Forest(Cut(T, S, p, q), R)
  <1>1. PICK U : U = RemoveChild(Without(T, S), p, q)
    OBVIOUS
  <1>a. Pruned(T, U, R, S, p, q)
    BY <1>1, ForestPruned
  <1>2. Tree(U) /\ Forest(U, R)
    BY <1>a DEF Pruned
  <1>3. Forest(Recompress(U, p), R)
    BY <1>2, ForestRecompress
  <1> QED BY <1>1, <1>2, <1>3 DEF Cut

LEMMA ForestClearVal ==
  ASSUME NEW T, Tree(T), NEW R, Forest(T, R), NEW i \in DOMAIN T
  PROVE  Forest(ClearVal(T, i), R)
  <1>1. PICK V : Rewritten(T, V, i, Nil) /\ ClearVal(T, i) = Recompress(V, i)
    BY ClearValShape
  <1>2. Tree(V) /\ Forest(V, R)
    BY <1>1, ForestRewritten DEF Rewritten
  <1> QED BY <1>1, <1>2, ForestRecompress

LEMMA ForestEffect ==
  ASSUME NEW T, Tree(T), NEW R, Forest(T, R), Root \in R, NEW U, Effect(T, U)
  PROVE  Forest(U, R)
  <1>1. CASE Stays(T, U)
    BY <1>1 DEF Stays
  <1>2. CASE Rewrites(T, U)
    BY <1>2, ForestRewritten DEF Rewrites
  <1>3. CASE Adds(T, U)
    <2>1. PICK V, x, v : Ensured(T, V, x) /\ Rewritten(V, U, x, v)
      BY <1>3 DEF Adds
    <2>2. Forest(V, R)
      BY <2>1, ForestEnsured
    <2> QED BY <2>1, <2>2, ForestRewritten
  <1>4. CASE Clears(T, U)
    BY <1>4, ForestClearVal DEF Clears
  <1>5. CASE CutsLeaf(T, U)
    <2>1. PICK i, p, r : /\ Link(T, p, r, i) /\ i \in DOMAIN T /\ ~HasChildren(T[i])
                         /\ U = Cut(T, {i}, p, r)
      BY <1>5 DEF CutsLeaf
    <2>2. Pendant(T, R, {i}, p, r)
      BY <2>1, LeafPendant DEF Forest
    <2> QED BY <2>1, <2>2, ForestCut
  <1>6. CASE CutsBelow(T, U)
    <2>1. PICK i, p, r : Link(T, p, r, i) /\ U = Cut(T, Subtree(T, {i}), p, r)
      BY <1>6 DEF CutsBelow
    <2>2. Pendant(T, R, Subtree(T, {i}), p, r)
      BY <2>1, SubtreePendant DEF Forest
    <2> QED BY <2>1, <2>2, ForestCut
  <1> QED BY <1>1, <1>2, <1>3, <1>4, <1>5, <1>6 DEF Effect

\* Emptying the whole tree, when the root's overflow list is empty too.
LEMMA ForestFlush ==
  ASSUME NEW T, Tree(T), NEW R, Forest(T, R), Root \in R, NEW U, Flushes(T, U),
         DOMAIN T[Root].overflow = {}
  PROVE  Forest(U, R)
  <1>0. Root \in DOMAIN T
    BY DEF Tree
  <1>1. PICK A : A = ChildIdxs(T[Root])
    OBVIOUS
  <1>2. PICK S : S = Subtree(T, A)
    OBVIOUS
  <1>3. Flushed(T, U, S)
    BY <1>1, <1>2, FlushShape
  <1>4. /\ S \in SUBSET DOMAIN T /\ A \cap DOMAIN T \subseteq S /\ Closed(T, S)
        /\ \A C \in SUBSET DOMAIN T : A \cap DOMAIN T \subseteq C /\ Closed(T, C) => S \subseteq C
    BY <1>2, SubtreeLeast
  <1>5. \A j : j \in A <=> \E r : Link(T, Root, r, j)
    BY <1>0, <1>1, ChildIdxsLink
  <1>6. ASSUME NEW y \in S PROVE \E x \in S \cup {Root} : \E r : Link(T, x, r, y)
    <2> SUFFICES ASSUME \A x \in S \cup {Root} : \A r : ~Link(T, x, r, y) PROVE FALSE
      OBVIOUS
    <2>1. PICK C : C = S \ {y}
      OBVIOUS
    <2>2. C \in SUBSET DOMAIN T /\ A \cap DOMAIN T \subseteq C
      BY <1>4, <1>5, <2>1
    <2>3. Closed(T, C)
      BY <1>4, <2>1 DEF Closed
    <2> QED BY <1>4, <2>1, <2>2, <2>3
  <1>7. S \cap R = {}
    <2> SUFFICES ASSUME NEW y \in S PROVE y \notin R
      OBVIOUS
    <2>1. \E x, r : Link(T, x, r, y)
      BY <1>6
    <2> QED BY <2>1 DEF Forest, Graph
  <1>8. \A i, r, j : Link(T, i, r, j) /\ j \in S => i \in S \cup {Root}
    BY <1>6 DEF Forest, Graph
  <1>9. \A r, j : Link(T, Root, r, j) => j \in S
    BY <1>4, <1>5 DEF Forest, Graph
  <1>10. /\ DOMAIN U = DOMAIN T \ S /\ Root \notin S
         /\ \A x \in DOMAIN U \ {Root} : U[x] = T[x]
         /\ DOMAIN U[Root].childs = {} /\ DOMAIN U[Root].overflow = {}
    BY <1>3 DEF Flushed
  <1>11. \A i, r, j : Link(U, i, r, j) <=> Link(T, i, r, j) /\ i \notin S /\ j \notin S
    <2> SUFFICES ASSUME NEW i, NEW r, NEW j
                 PROVE  Link(U, i, r, j) <=> Link(T, i, r, j) /\ i \notin S /\ j \notin S
      OBVIOUS
    <2>1. CASE i = Root
      <3>1. ~Link(U, i, r, j)
        BY <1>10, <2>1 DEF Link
      <3> QED BY <1>9, <2>1, <3>1
    <2>2. CASE i # Root
      <3>1. Link(U, i, r, j) <=> Link(T, i, r, j) /\ i \notin S
        BY <1>10, <2>2 DEF Link
      <3> QED BY <1>8, <2>2, <3>1
    <2> QED BY <2>1, <2>2
  <1>12. Graph(U, R)
    BY <1>4, <1>7, <1>10, <1>11, GraphTrim DEF Forest
  <1>13. Apart(U)
    BY <1>10 DEF Forest, Apart
  <1> QED BY <1>12, <1>13 DEF Forest

\* The steps that leave the links in order: an emptied root has no overflow
\* list, and an evicted leaf hangs where it believes to hang.
Orderly ==
  /\ Deln(<<>>) => DOMAIN nodes[Root].overflow = {}
  /\ \A i \in Idx : Evict(i) /\ ~HasChildren(nodes[i]) =>
       /\ nodes[i].parent \in DOMAIN nodes
       /\ Find(nodes, nodes[i].parent, nodes[i].radix) = i

LEMMA OrderlyEvictEffect ==
  ASSUME Typed, Orderly, NEW i \in Idx, Evict(i), NEW U, EvictsLeaf(nodes, U, i)
  PROVE  Effect(nodes, U)
  <1>1. PICK p : p = nodes[i].parent
    OBVIOUS
  <1>2. PICK r : r = nodes[i].radix
    OBVIOUS
  <1>3. i \in DOMAIN nodes /\ ~HasChildren(nodes[i]) /\ U = Cut(nodes, {i}, p, r)
    BY <1>1, <1>2 DEF EvictsLeaf
  <1>4. p \in DOMAIN nodes /\ Find(nodes, p, r) = i
    BY <1>1, <1>2, <1>3 DEF Orderly
  <1>5. Link(nodes, p, r, i)
    BY <1>4, FindLink, ConstantsAssumption DEF Typed
  <1> QED BY <1>3, <1>5 DEF Effect, CutsLeaf

LEMMA ForestStep ==
  ASSUME Typed, Next, Orderly, NEW R, Forest(nodes, R), Root \in R
  PROVE  Forest(nodes', R)
  <1>1. Tree(nodes) /\ Root \in DOMAIN nodes
    BY DEF Typed, Tree
  <1>2. PICK U : U = nodes'
    OBVIOUS
  <1>3. Effect(nodes, U) => Forest(U, R)
    BY <1>1, ForestEffect
  <1>4. ClearsRoot(nodes, U) => Forest(U, R)
    BY <1>1, ForestClearVal DEF ClearsRoot
  <1>5. Flushes(nodes, U) /\ Deln(<<>>) => Forest(U, R)
    <2>1. Deln(<<>>) => DOMAIN nodes[Root].overflow = {}
      BY DEF Orderly
    <2> QED BY <1>1, <2>1, ForestFlush
  <1>6. ASSUME NEW i \in Idx, Evict(i), EvictsLeaf(nodes, U, i) PROVE Forest(U, R)
    BY <1>3, <1>6, OrderlyEvictEffect
  <1>7. \/ Effect(nodes, U) \/ ClearsRoot(nodes, U)
        \/ Deln(<<>>) /\ Flushes(nodes, U)
        \/ \E i \in Idx : Evict(i) /\ EvictsLeaf(nodes, U, i)
    BY <1>2, NextEffect
  <1>8. Forest(U, R)
    BY <1>3, <1>4, <1>5, <1>6, <1>7
  <1> QED BY <1>2, <1>8

-----------------------------------------------------------------------------
(* No link dangles, none is shared and no node is lost.                     *)

LEMMA ForestInit == Init => Forest(nodes, {Root})
  <1> SUFFICES ASSUME Init PROVE Forest(nodes, {Root})
    OBVIOUS
  <1>1. PICK none : none = <<>>
    OBVIOUS
  <1>2. DOMAIN none = {}
    BY <1>1
  <1>3. /\ DOMAIN nodes = {Root} /\ DOMAIN nodes[Root].childs = {}
        /\ DOMAIN nodes[Root].overflow = {}
    BY <1>1, <1>2 DEF Init, Node
  <1>4. \A i, r, j : ~Link(nodes, i, r, j)
    BY <1>3 DEF Link
  <1>5. Graph(nodes, {Root})
    BY <1>3, <1>4 DEF Graph
  <1>6. Apart(nodes)
    BY <1>3 DEF Apart
  <1> QED BY <1>5, <1>6 DEF Forest

\* In a forest every node but a root has a link to it.
LEMMA GraphReaches ==
  ASSUME NEW T, NEW R, Graph(T, R), NEW j \in DOMAIN T \ R
  PROVE  \E i, r : Link(T, i, r, j)
  <1> SUFFICES ASSUME \A i, r : ~Link(T, i, r, j) PROVE FALSE
    OBVIOUS
  <1>1. PICK C : C = DOMAIN T \ {j}
    OBVIOUS
  <1>2. C \in SUBSET DOMAIN T /\ R \subseteq C
    BY <1>1 DEF Graph
  <1>3. Closed(T, C)
    BY <1>1 DEF Closed
  <1>4. C = DOMAIN T
    BY <1>2, <1>3 DEF Graph
  <1> QED BY <1>1, <1>4

\* In a forest the subtrees of the roots hold every node.
LEMMA GraphSpans ==
  ASSUME NEW T, NEW R, Graph(T, R)
  PROVE  Subtree(T, R) = DOMAIN T
  <1>1. PICK S : S = Subtree(T, R)
    OBVIOUS
  <1>2. S \in SUBSET DOMAIN T /\ R \cap DOMAIN T \subseteq S /\ Closed(T, S)
    BY <1>1, SubtreeLeast
  <1>3. R \subseteq S
    BY <1>2 DEF Graph
  <1> QED BY <1>1, <1>2, <1>3 DEF Graph

LinksOf(T) == UNION {{<<i, k[1], k[2]>> : k \in Kids(T[i])} : i \in DOMAIN T}

LEMMA LinksOfLink ==
  ASSUME NEW T
  PROVE  /\ \A i, r, j : Link(T, i, r, j) => <<i, r, j>> \in LinksOf(T)
         /\ \A l \in LinksOf(T) : l = <<l[1], l[2], l[3]>> /\ Link(T, l[1], l[2], l[3])
  <1>1. \A i \in DOMAIN T : \A k : k \in Kids(T[i]) <=> \E r, j : k = <<r, j>> /\ Link(T, i, r, j)
    BY DEF Kids, Link
  <1>2. \A l : l \in LinksOf(T) <=> \E i \in DOMAIN T : \E k \in Kids(T[i]) : l = <<i, k[1], k[2]>>
    BY DEF LinksOf
  <1>3. ASSUME NEW i, NEW r, NEW j, Link(T, i, r, j) PROVE <<i, r, j>> \in LinksOf(T)
    <2>1. i \in DOMAIN T /\ <<r, j>> \in Kids(T[i])
      BY <1>1, <1>3 DEF Link
    <2>2. PICK k : k = <<r, j>>
      OBVIOUS
    <2>3. k \in Kids(T[i]) /\ <<i, r, j>> = <<i, k[1], k[2]>>
      BY <2>1, <2>2
    <2> QED BY <1>2, <2>1, <2>3
  <1>4. ASSUME NEW l \in LinksOf(T)
        PROVE  l = <<l[1], l[2], l[3]>> /\ Link(T, l[1], l[2], l[3])
    <2>1. PICK i \in DOMAIN T : \E k \in Kids(T[i]) : l = <<i, k[1], k[2]>>
      BY <1>2
    <2>2. PICK k \in Kids(T[i]) : l = <<i, k[1], k[2]>>
      BY <2>1
    <2>3. PICK r, j : k = <<r, j>> /\ Link(T, i, r, j)
      BY <1>1, <2>2
    <2> QED BY <2>2, <2>3
  <1> QED BY <1>3, <1>4

LEMMA ForestWellLinked == Forest(nodes, {Root}) => WellLinked
  <1> SUFFICES ASSUME Forest(nodes, {Root}) PROVE WellLinked
    OBVIOUS
  <1>1. PICK L : L = LinksOf(nodes)
    OBVIOUS
  <1>2. /\ \A i, r, j : Link(nodes, i, r, j) => <<i, r, j>> \in L
        /\ \A l \in L : l = <<l[1], l[2], l[3]>> /\ Link(nodes, l[1], l[2], l[3])
    BY <1>1, LinksOfLink
  <1>3. \A l \in L : l[3] \in DOMAIN nodes \ {Root}
    BY <1>2 DEF Forest, Graph
  <1>4. ASSUME NEW j \in DOMAIN nodes \ {Root} PROVE Cardinality({l \in L : l[3] = j}) = 1
    <2>1. PICK i, r : Link(nodes, i, r, j)
      BY GraphReaches DEF Forest
    <2>2. PICK x : x = <<i, r, j>>
      OBVIOUS
    <2>3. x \in L /\ x[3] = j
      BY <1>2, <2>1, <2>2
    <2>4. ASSUME NEW l \in L, l[3] = j PROVE l = x
      <3>1. Link(nodes, l[1], l[2], j) /\ l = <<l[1], l[2], j>>
        BY <1>2, <2>4
      <3>2. l[1] = i /\ l[2] = r
        BY <2>1, <3>1 DEF Forest, Graph
      <3> QED BY <2>2, <3>1, <3>2
    <2>5. {l \in L : l[3] = j} = {x}
      BY <2>3, <2>4
    <2> QED BY <2>5, FS_Singleton
  <1>5. Subtree(nodes, {Root}) = DOMAIN nodes
    BY GraphSpans DEF Forest
  <1> QED BY <1>1, <1>3, <1>4, <1>5 DEF WellLinked, LinksOf

LEMMA ForestNext ==
  ASSUME Typed, Forest(nodes, {Root}), [Next /\ Orderly]_vars
  PROVE  Forest(nodes, {Root})'
  <1>1. CASE UNCHANGED vars
    BY <1>1 DEF vars, Forest, Apart, Graph, Closed, Link
  <1>2. CASE Next /\ Orderly
    <2>1. Forest(nodes', {Root})
      BY <1>2, ForestStep
    <2> QED BY <2>1
  <1> QED BY <1>1, <1>2

LEMMA ForestAlways == Spec /\ [][Orderly]_vars => []Forest(nodes, {Root})
  <1>1. Typed /\ Forest(nodes, {Root}) /\ [Next]_vars /\ [Orderly]_vars => Forest(nodes, {Root})'
    BY ForestNext
  <1> QED BY <1>1, ForestInit, TypedAlways, PTL DEF Spec

\* As long as FLUSHDB meets an empty overflow list at the root and the evictor
\* meets no leaf that a split or a merge has moved away from the parent it
\* remembers, every write, deletion, split and merge leaves every occupied
\* slot hanging in the tree by exactly one link (set_internal, split_node,
\* try_recompress, remove_child, free_subtree_iterative).
THEOREM LinksWell == Spec /\ [][Orderly]_vars => []WellLinked
  BY ForestAlways, ForestWellLinked, PTL

-----------------------------------------------------------------------------
(* The root spells nothing.                                                 *)

RootSpells(T, U) == U[Root].compression = T[Root].compression

LEMMA RecompressSparesRoot ==
  ASSUME NEW T, Tree(T), NEW i, i # Root
  PROVE  RootSpells(T, Recompress(T, i))
  <1>1. PICK U : U = Recompress(T, i)
    OBVIOUS
  <1>2. CASE U = T
    BY <1>1, <1>2 DEF RootSpells
  <1>3. CASE \E r, c : Absorbed(T, U, i, r, c)
    <2>1. Root \in DOMAIN U \ {i}
      BY <1>3 DEF Absorbed, Tree
    <2> QED BY <1>1, <1>3, <2>1 DEF Absorbed, RootSpells
  <1> QED BY <1>1, <1>2, <1>3, RecompressShape

LEMMA CutSparesRoot ==
  ASSUME NEW T, Tree(T), NEW S, Root \notin S, NEW p, NEW r
  PROVE  RootSpells(T, Cut(T, S, p, r))
  <1>1. PICK V : V = Without(T, S)
    OBVIOUS
  <1>2. Tree(V) /\ DOMAIN V = DOMAIN T \ S /\ \A x \in DOMAIN V : V[x] = T[x]
    BY <1>1, WithoutShape
  <1>3. PICK W : W = RemoveChild(V, p, r)
    OBVIOUS
  <1>4. Dropped(V, W, p, r)
    BY <1>2, <1>3, RemoveChildShape
  <1>5. Tree(W) /\ RootSpells(V, W)
    BY <1>2, <1>4 DEF Dropped, RootSpells, Tree
  <1>6. RootSpells(T, V)
    BY <1>2 DEF RootSpells, Tree
  <1>7. p # Root => RootSpells(W, Recompress(W, p))
    BY <1>5, RecompressSparesRoot
  <1>8. Cut(T, S, p, r) = IF p = Root THEN W ELSE Recompress(W, p)
    BY <1>1, <1>3 DEF Cut
  <1> QED BY <1>5, <1>6, <1>7, <1>8 DEF RootSpells

LEMMA HungSparesRoot ==
  ASSUME NEW T, Tree(T), NEW U, NEW p, NEW a, Hung(T, U, p, a)
  PROVE  RootSpells(T, U)
  <1>1. PICK q : HungInto(T, U, p, a, q)
    BY HungShape
  <1> QED BY <1>1 DEF HungInto, RootSpells, Tree

LEMMA SplitSparesRoot ==
  ASSUME NEW T, Tree(T), NEW U, NEW j, NEW b, SplitAt(T, U, j, b)
  PROVE  RootSpells(T, U) /\ Tree(U)
  <1>1. PICK q : SplitInto(T, U, j, b, q)
    BY SplitAtShape
  <1>2. j # Root
    BY DEF SplitAt
  <1> QED BY <1>1, <1>2 DEF SplitInto, RootSpells, Tree

LEMMA EnsuredSparesRoot ==
  ASSUME NEW T, Tree(T), NEW V, NEW x, Ensured(T, V, x)
  PROVE  RootSpells(T, V)
  <1>1. CASE V = T /\ x \in DOMAIN T
    BY <1>1 DEF RootSpells
  <1>2. CASE \E p : Hung(T, V, p, x)
    BY <1>2, HungSparesRoot
  <1>3. CASE \E b : SplitAt(T, V, x, b)
    BY <1>3, SplitSparesRoot
  <1>4. CASE \E W, j, b : SplitAt(T, W, j, b) /\ Hung(W, V, j, x)
    <2>1. PICK W, j, b : SplitAt(T, W, j, b) /\ Hung(W, V, j, x)
      BY <1>4
    <2>2. RootSpells(T, W) /\ Tree(W)
      BY <2>1, SplitSparesRoot
    <2>3. RootSpells(W, V)
      BY <2>1, <2>2, HungSparesRoot
    <2> QED BY <2>2, <2>3 DEF RootSpells
  <1> QED BY <1>1, <1>2, <1>3, <1>4 DEF Ensured

LEMMA RewrittenSparesRoot ==
  ASSUME NEW T, Tree(T), NEW U, NEW i, NEW v, Rewritten(T, U, i, v)
  PROVE  RootSpells(T, U)
  BY DEF Rewritten, RootSpells, Tree

LEMMA EffectSparesRoot ==
  ASSUME NEW T, Tree(T), NEW U, Effect(T, U)
  PROVE  RootSpells(T, U)
  <1>1. CASE Stays(T, U)
    BY <1>1 DEF Stays, RootSpells
  <1>2. CASE Rewrites(T, U)
    BY <1>2, RewrittenSparesRoot DEF Rewrites
  <1>3. CASE Adds(T, U)
    <2>1. PICK V, x, v : Ensured(T, V, x) /\ Rewritten(V, U, x, v)
      BY <1>3 DEF Adds
    <2>2. Tree(V) /\ RootSpells(T, V)
      BY <2>1, EnsuredType, EnsuredSparesRoot
    <2>3. RootSpells(V, U)
      BY <2>1, <2>2, RewrittenSparesRoot
    <2> QED BY <2>2, <2>3 DEF RootSpells
  <1>4. CASE Clears(T, U)
    <2>1. PICK i \in DOMAIN T \ {Root} : U = ClearVal(T, i)
      BY <1>4 DEF Clears
    <2>2. PICK V : Rewritten(T, V, i, Nil) /\ ClearVal(T, i) = Recompress(V, i)
      BY ClearValShape
    <2>3. Tree(V) /\ RootSpells(T, V)
      BY <2>2, RewrittenSparesRoot DEF Rewritten
    <2>4. RootSpells(V, U)
      BY <2>1, <2>2, <2>3, RecompressSparesRoot
    <2> QED BY <2>3, <2>4 DEF RootSpells
  <1>5. CASE CutsLeaf(T, U)
    <2>1. PICK i, p, r : Link(T, p, r, i) /\ U = Cut(T, {i}, p, r)
      BY <1>5 DEF CutsLeaf
    <2>2. Root \notin {i}
      BY <2>1, LinkType
    <2> QED BY <2>1, <2>2, CutSparesRoot
  <1>6. CASE CutsBelow(T, U)
    <2>1. PICK i, p, r : Link(T, p, r, i) /\ U = Cut(T, Subtree(T, {i}), p, r)
      BY <1>6 DEF CutsBelow
    <2>2. Root \notin {i}
      BY <2>1, LinkType
    <2>3. Root \notin Subtree(T, {i})
      BY <2>2, SubtreeSparesRoot
    <2> QED BY <2>1, <2>3, CutSparesRoot
  <1> QED BY <1>1, <1>2, <1>3, <1>4, <1>5, <1>6 DEF Effect

\* The steps that leave the root its empty spelling: its value is not removed
\* while it has one child, an inline one.
RootKept ==
  Del(<<>>) \/ (Get(<<>>) /\ IsExpired(nodes[Root])) =>
    ~(Cardinality(DOMAIN nodes[Root].childs) = 1 /\ DOMAIN nodes[Root].overflow = {})

LEMMA ClearRootSparesRoot ==
  ASSUME NEW T, Tree(T), NEW U, ClearsRoot(T, U),
         ~(Cardinality(DOMAIN T[Root].childs) = 1 /\ DOMAIN T[Root].overflow = {})
  PROVE  RootSpells(T, U)
  <1>1. Root \in DOMAIN T
    BY DEF Tree
  <1>2. PICK V : Rewritten(T, V, Root, Nil) /\ ClearVal(T, Root) = Recompress(V, Root)
    BY <1>1, ClearValShape
  <1>3. Tree(V) /\ V[Root].childs = T[Root].childs /\ V[Root].overflow = T[Root].overflow
    BY <1>2 DEF Rewritten
  <1>4. ~\E r, c : Absorbed(V, U, Root, r, c)
    <2> SUFFICES ASSUME NEW r, NEW c, Absorbed(V, U, Root, r, c) PROVE FALSE
      OBVIOUS
    <2>1. DOMAIN T[Root].childs = {r} /\ DOMAIN T[Root].overflow = {}
      BY <1>3 DEF Absorbed
    <2> QED BY <2>1, FS_Singleton
  <1>5. U = V
    BY <1>2, <1>3, <1>4, RecompressShape DEF ClearsRoot
  <1> QED BY <1>2, <1>5, RewrittenSparesRoot

LEMMA RootUncompressedNext ==
  ASSUME Typed, RootUncompressed, [Next /\ RootKept]_vars
  PROVE  RootUncompressed'
  <1>1. CASE UNCHANGED vars
    BY <1>1 DEF vars, RootUncompressed
  <1>2. CASE Next /\ RootKept
    <2>1. Tree(nodes)
      BY DEF Typed
    <2>2. PICK U : U = nodes'
      OBVIOUS
    <2>3. Effect(nodes, U) => RootSpells(nodes, U)
      BY <2>1, EffectSparesRoot
    <2>4. ASSUME ClearsRoot(nodes, U), Del(<<>>) \/ (Get(<<>>) /\ IsExpired(nodes[Root]))
          PROVE  RootSpells(nodes, U)
      <3>1. ~(Cardinality(DOMAIN nodes[Root].childs) = 1 /\ DOMAIN nodes[Root].overflow = {})
        BY <1>2, <2>4 DEF RootKept
      <3> QED BY <2>1, <2>4, <3>1, ClearRootSparesRoot
    <2>5. Flushes(nodes, U) => RootSpells(nodes, U)
      BY <2>1, FlushShape DEF Flushed, RootSpells
    <2>6. ASSUME NEW i \in Idx, EvictsLeaf(nodes, U, i) PROVE RootSpells(nodes, U)
      <3>1. U = Cut(nodes, {i}, nodes[i].parent, nodes[i].radix) /\ Root \notin {i}
        BY <2>6, ConstantsAssumption DEF EvictsLeaf
      <3> QED BY <2>1, <3>1, CutSparesRoot
    <2>7. \/ Effect(nodes, U)
          \/ ClearsRoot(nodes, U) /\ (Del(<<>>) \/ (Get(<<>>) /\ IsExpired(nodes[Root])))
          \/ Flushes(nodes, U)
          \/ \E i \in Idx : EvictsLeaf(nodes, U, i)
      BY <1>2, <2>2, NextEffect
    <2>8. RootSpells(nodes, U)
      BY <2>3, <2>4, <2>5, <2>6, <2>7
    <2> QED BY <2>2, <2>8 DEF RootSpells, RootUncompressed
  <1> QED BY <1>1, <1>2

\* As long as DEL of the empty key (or a GET that finds it expired) does not
\* meet a root with a single inline child, no operation gives the root a
\* compression, which the lookups would not read (split_node,
\* try_recompress, delete_node_inline, deln).
THEOREM RootStaysUncompressed == Spec /\ [][RootKept]_vars => []RootUncompressed
  <1>1. Typed /\ RootUncompressed /\ [Next]_vars /\ [RootKept]_vars => RootUncompressed'
    BY RootUncompressedNext
  <1>2. Init => RootUncompressed
    BY DEF Init, RootUncompressed, Node
  <1> QED BY <1>1, <1>2, TypedAlways, PTL DEF Spec

-----------------------------------------------------------------------------
(* A node without value branches.                                           *)

Branches(T, i) ==
  HasVal(T[i]) \/ \E q, r, j, k : q # r /\ Link(T, i, q, j) /\ Link(T, i, r, k)

AllBranchBut(T, X) == \A i \in DOMAIN T \ X : Branches(T, i)

\* Node i has no value and one child, in its overflow list.
Overhung(n) == ~HasVal(n) /\ DOMAIN n.childs = {} /\ \E r : DOMAIN n.overflow = {r}

\* What a node has of links and value decides whether it branches.
LEMMA SameBranches ==
  ASSUME NEW T, NEW U, NEW i \in DOMAIN T, NEW x \in DOMAIN U,
         U[x].childs = T[i].childs, U[x].overflow = T[i].overflow,
         HasVal(T[i]) => HasVal(U[x]), Branches(T, i)
  PROVE  Branches(U, x)
  <1>1. \A r, j : Link(T, i, r, j) => Link(U, x, r, j)
    BY DEF Link
  <1> QED BY <1>1 DEF Branches

LEMMA BranchesUnchanged ==
  ASSUME NEW T, NEW U, NEW i \in DOMAIN T, i \in DOMAIN U, U[i] = T[i], Branches(T, i)
  PROVE  Branches(U, i)
  BY SameBranches

LEMMA HungBranches ==
  ASSUME NEW T, Tree(T), NEW U, NEW p, NEW a, Hung(T, U, p, a)
  PROVE  /\ \A i \in DOMAIN T : Branches(T, i) => Branches(U, i)
         /\ DOMAIN U = DOMAIN T \cup {a}
         /\ \A q, b : Link(T, p, q, b) => Branches(U, p)
  <1>1. PICK q : HungInto(T, U, p, a, q)
    BY HungShape
  <1>2. /\ DOMAIN U = DOMAIN T \cup {a} /\ p \in DOMAIN T
        /\ \A x \in DOMAIN T \ {p} : U[x] = T[x]
        /\ U[p].val = T[p].val /\ Find(T, p, q) = Nil
    BY <1>1 DEF HungInto
  <1>3. \A j : ~Link(T, p, q, j)
    BY <1>2, FindLink
  <1>4. q \notin DOMAIN T[p].childs /\ q \notin DOMAIN T[p].overflow
    BY <1>2, <1>3 DEF Link
  <1>5. Link(U, p, q, a) /\ \A r, j : Link(T, p, r, j) => Link(U, p, r, j)
    <2>1. CASE ChildAdded(T[p].childs, U[p].childs, q, a) /\ U[p].overflow = T[p].overflow
      BY <1>2, <1>4, <2>1 DEF ChildAdded, Link
    <2>2. CASE U[p].childs = T[p].childs /\ ChildAdded(T[p].overflow, U[p].overflow, q, a)
      BY <1>2, <1>4, <2>2 DEF ChildAdded, Link
    <2> QED BY <1>1, <2>1, <2>2 DEF HungInto
  <1>6. Branches(T, p) => Branches(U, p)
    BY <1>2, <1>5 DEF Branches, HasVal
  <1>7. \A i \in DOMAIN T \ {p} : Branches(T, i) => Branches(U, i)
    BY <1>2, BranchesUnchanged
  <1>8. \A s, b : Link(T, p, s, b) => Branches(U, p)
    <2> SUFFICES ASSUME NEW s, NEW b, Link(T, p, s, b) PROVE Branches(U, p)
      OBVIOUS
    <2>1. s # q
      BY <1>3
    <2> QED BY <1>5, <2>1 DEF Branches
  <1> QED BY <1>2, <1>6, <1>7, <1>8

LEMMA SplitBranches ==
  ASSUME NEW T, Tree(T), NEW U, NEW j, NEW b, SplitAt(T, U, j, b), AllBranchBut(T, {Root})
  PROVE  /\ Tree(U) /\ j \in DOMAIN U /\ \E q : Link(U, j, q, b)
         /\ AllBranchBut(U, {Root, j})
  <1>1. PICK q : SplitInto(T, U, j, b, q)
    BY SplitAtShape
  <1>2. j \in DOMAIN T \ {Root} /\ b \notin DOMAIN T
    BY DEF SplitAt
  <1>3. /\ Tree(U) /\ DOMAIN U = DOMAIN T \cup {b}
        /\ \A x \in DOMAIN T \ {j} : U[x] = T[x]
        /\ U[b].childs = T[j].childs /\ U[b].overflow = T[j].overflow /\ U[b].val = T[j].val
        /\ DOMAIN U[j].childs = {q} /\ U[j].childs[q] = b
    BY <1>1 DEF SplitInto
  <1>4. Link(U, j, q, b)
    BY <1>2, <1>3 DEF Link
  <1>5. Branches(T, j) /\ (HasVal(T[j]) => HasVal(U[b]))
    BY <1>2, <1>3 DEF AllBranchBut, HasVal
  <1>6. Branches(U, b)
    BY <1>2, <1>3, <1>5, SameBranches
  <1>7. ASSUME NEW i \in DOMAIN T \ {Root, j} PROVE Branches(U, i)
    <2>1. Branches(T, i) /\ i \in DOMAIN U /\ U[i] = T[i]
      BY <1>3 DEF AllBranchBut
    <2> QED BY <2>1, BranchesUnchanged
  <1> QED BY <1>2, <1>3, <1>4, <1>6, <1>7 DEF AllBranchBut

LEMMA EnsuredBranches ==
  ASSUME NEW T, Tree(T), AllBranchBut(T, {Root}), NEW V, NEW x, Ensured(T, V, x)
  PROVE  AllBranchBut(V, {Root, x})
  <1>1. CASE V = T /\ x \in DOMAIN T
    BY <1>1 DEF AllBranchBut
  <1>2. CASE \E p : Hung(T, V, p, x)
    <2>1. PICK p : Hung(T, V, p, x)
      BY <1>2
    <2>2. /\ \A i \in DOMAIN T : Branches(T, i) => Branches(V, i)
          /\ DOMAIN V = DOMAIN T \cup {x}
      BY <2>1, HungBranches
    <2> QED BY <2>2 DEF AllBranchBut
  <1>3. CASE \E b : SplitAt(T, V, x, b)
    BY <1>3, SplitBranches
  <1>4. CASE \E W, j, b : SplitAt(T, W, j, b) /\ Hung(W, V, j, x)
    <2>1. PICK W, j, b : SplitAt(T, W, j, b) /\ Hung(W, V, j, x)
      BY <1>4
    <2>2. /\ Tree(W) /\ j \in DOMAIN W /\ \E q : Link(W, j, q, b)
          /\ AllBranchBut(W, {Root, j})
      BY <2>1, SplitBranches
    <2>3. /\ \A i \in DOMAIN W : Branches(W, i) => Branches(V, i)
          /\ DOMAIN V = DOMAIN W \cup {x} /\ Branches(V, j)
      BY <2>1, <2>2, HungBranches
    <2> QED BY <2>2, <2>3 DEF AllBranchBut
  <1> QED BY <1>1, <1>2, <1>3, <1>4 DEF Ensured

LEMMA RewrittenBranches ==
  ASSUME NEW T, NEW U, NEW i, NEW v, Rewritten(T, U, i, v), NEW X
  PROVE  /\ AllBranchBut(T, X) /\ (v = Nil => T[i].val = Nil) => AllBranchBut(U, X)
         /\ AllBranchBut(T, X \cup {i}) /\ v # Nil => AllBranchBut(U, X)
         /\ AllBranchBut(T, X) => AllBranchBut(U, X \cup {i})
  <1>1. /\ DOMAIN U = DOMAIN T /\ i \in DOMAIN T
        /\ \A x \in DOMAIN T \ {i} : U[x] = T[x]
        /\ U[i].childs = T[i].childs /\ U[i].overflow = T[i].overflow /\ U[i].val = v
    BY DEF Rewritten
  <1>2. \A x \in DOMAIN T \ {i} : Branches(T, x) => Branches(U, x)
    BY <1>1, BranchesUnchanged
  <1>3. v # Nil => Branches(U, i)
    BY <1>1 DEF Branches, HasVal
  <1>4. ASSUME v = Nil => T[i].val = Nil, Branches(T, i) PROVE Branches(U, i)
    <2>1. HasVal(T[i]) => HasVal(U[i])
      BY <1>1, <1>4 DEF HasVal
    <2> QED BY <1>1, <1>4, <2>1, SameBranches
  <1> QED BY <1>1, <1>2, <1>3, <1>4 DEF AllBranchBut

\* try_recompress makes a branching point, or one node less, of the node it
\* is called for.
LEMMA RecompressBranches ==
  ASSUME NEW T, Tree(T), NEW R, Forest(T, R), NEW n \in DOMAIN T,
         AllBranchBut(T, {Root, n}), n # Root => HasVal(T[n]) \/ HasChildren(T[n]),
         NEW U, U = Recompress(T, n), n # Root => ~Overhung(U[n])
  PROVE  AllBranchBut(U, {Root})
  <1>1. CASE \E q, c : Absorbed(T, U, n, q, c)
    <2>1. PICK q, c : Absorbed(T, U, n, q, c)
      BY <1>1
    <2>2. /\ DOMAIN T[n].childs = {q} /\ T[n].childs[q] = c
          /\ c \in DOMAIN T /\ c \in Idx /\ DOMAIN U = DOMAIN T \ {c}
      BY <2>1 DEF Absorbed
    <2>3. Link(T, n, q, c)
      BY <2>2 DEF Link
    <2>4. n # c /\ c # Root
      BY <2>2, <2>3, NoLoop, ConstantsAssumption DEF Forest
    <2>5. Alike(U[n], T[c]) /\ \A x \in DOMAIN U \ {n} : Alike(U[x], T[x])
      BY <2>1, <2>4 DEF Absorbed
    <2>6. Branches(U, n)
      <3>1. Branches(T, c) /\ n \in DOMAIN U
        BY <2>2, <2>4 DEF AllBranchBut
      <3>2. /\ U[n].childs = T[c].childs /\ U[n].overflow = T[c].overflow
            /\ HasVal(T[c]) => HasVal(U[n])
        BY <2>5 DEF Alike, HasVal
      <3> QED BY <2>2, <3>1, <3>2, SameBranches
    <2>7. ASSUME NEW x \in DOMAIN U \ {Root, n} PROVE Branches(U, x)
      <3>1. Branches(T, x) /\ x \in DOMAIN T
        BY <2>2 DEF AllBranchBut
      <3>2. /\ U[x].childs = T[x].childs /\ U[x].overflow = T[x].overflow
            /\ HasVal(T[x]) => HasVal(U[x])
        BY <2>5 DEF Alike, HasVal
      <3> QED BY <3>1, <3>2, SameBranches
    <2> QED BY <2>6, <2>7 DEF AllBranchBut
  <1>2. CASE U = T /\ (Single(T, n) => ~(ChildIdxs(T[n]) \subseteq DOMAIN T))
    <2>1. ChildIdxs(T[n]) \subseteq DOMAIN T
      BY ChildIdxsLink DEF Forest, Graph
    <2>2. ~Single(T, n)
      BY <1>2, <2>1
    <2>3. ASSUME n # Root PROVE Branches(T, n)
      <3> SUFFICES ASSUME ~HasVal(T[n]),
                          ~\E q, r, j, k : q # r /\ Link(T, n, q, j) /\ Link(T, n, r, k)
                   PROVE  FALSE
        BY DEF Branches
      <3>1. HasChildren(T[n]) /\ ~Overhung(T[n])
        BY <1>2, <2>3
      <3>2. PICK s : s \in DOMAIN T[n].childs \/ s \in DOMAIN T[n].overflow
        BY <3>1 DEF HasChildren
      <3>3. \A r : r \in DOMAIN T[n].childs \/ r \in DOMAIN T[n].overflow => r = s
        <4> SUFFICES ASSUME NEW r, r \in DOMAIN T[n].childs \/ r \in DOMAIN T[n].overflow
                     PROVE  r = s
          OBVIOUS
        <4>1. \E j : Link(T, n, r, j)
          BY DEF Link
        <4>2. \E k : Link(T, n, s, k)
          BY <3>2 DEF Link
        <4> QED BY <4>1, <4>2
      <3>4. CASE s \in DOMAIN T[n].childs
        <4>1. DOMAIN T[n].childs = {s} /\ DOMAIN T[n].overflow = {}
          BY <3>3, <3>4 DEF Forest, Apart
        <4> QED BY <2>2, <4>1 DEF Single
      <3>5. CASE s \notin DOMAIN T[n].childs
        <4>1. DOMAIN T[n].childs = {} /\ DOMAIN T[n].overflow = {s}
          BY <3>2, <3>3, <3>5
        <4> QED BY <3>1, <4>1 DEF Overhung
      <3> QED BY <3>4, <3>5
    <2> QED BY <1>2, <2>3 DEF AllBranchBut
  <1> QED BY <1>1, <1>2, RecompressShape

LEMMA CutBranches ==
  ASSUME NEW T, Tree(T), NEW R, Forest(T, R), Root \in R, AllBranchBut(T, {Root}),
         NEW S, NEW p, NEW q, Pendant(T, R, S, p, q), NEW U, U = Cut(T, S, p, q),
         \A i \in DOMAIN U \ {Root} : ~Overhung(U[i])
  PROVE  AllBranchBut(U, {Root})
  <1>1. PICK V : V = Without(T, S)
    OBVIOUS
  <1>2. PICK W : W = RemoveChild(V, p, q)
    OBVIOUS
  <1>3. Tree(W) /\ Forest(W, R) /\ DOMAIN W = DOMAIN T \ S /\ Dropped(V, W, p, q)
    <2>1. W = RemoveChild(Without(T, S), p, q)
      BY <1>1, <1>2
    <2>2. Pruned(T, W, R, S, p, q)
      BY <2>1, ForestPruned
    <2> QED BY <1>1, <2>2 DEF Pruned
  <1>4. Root \notin S /\ p \in DOMAIN T \ S
    BY DEF Pendant
  <1>5. DOMAIN V = DOMAIN T \ S /\ \A x \in DOMAIN V : V[x] = T[x]
    BY <1>1, <1>4, WithoutShape
  <1>6. ASSUME NEW i \in DOMAIN W \ {Root, p} PROVE Branches(W, i)
    <2>1. W[i] = T[i] /\ i \in DOMAIN T /\ Branches(T, i)
      BY <1>3, <1>5 DEF Dropped, AllBranchBut
    <2> QED BY <2>1, BranchesUnchanged
  <1>7. U = IF p = Root THEN W ELSE Recompress(W, p)
    BY <1>1, <1>2 DEF Cut
  <1>8. CASE p = Root
    BY <1>6, <1>7, <1>8 DEF AllBranchBut
  <1>9. CASE p # Root
    <2>1. HasVal(W[p]) \/ HasChildren(W[p])
      <3>1. Branches(T, p) /\ p \in DOMAIN V /\ V[p] = T[p]
        BY <1>4, <1>5, <1>9 DEF AllBranchBut
      <3>2. CASE HasVal(T[p])
        BY <1>3, <3>1, <3>2 DEF Dropped, HasVal
      <3>3. CASE \E s, r, j, k : s # r /\ Link(T, p, s, j) /\ Link(T, p, r, k)
        <4>1. PICK s, j : s # q /\ Link(T, p, s, j)
          BY <3>3
        <4>2. Link(V, p, s, j)
          BY <3>1, <4>1 DEF Link
        <4>3. Apart(V)
          BY <1>5 DEF Forest, Apart
        <4>4. Link(W, p, s, j)
          BY <1>3, <4>1, <4>2, <4>3, DroppedLinks
        <4> QED BY <4>4 DEF Link, HasChildren
      <3> QED BY <3>1, <3>2, <3>3 DEF Branches
    <2>2. p \in DOMAIN W /\ AllBranchBut(W, {Root, p}) /\ U = Recompress(W, p)
      BY <1>3, <1>4, <1>6, <1>7, <1>9 DEF AllBranchBut
    <2>3. p \in DOMAIN U
      <3>1. (\E r, c : Absorbed(W, U, p, r, c)) \/ U = W
        BY <1>3, <2>2, RecompressShape
      <3>2. ASSUME NEW r, NEW c, Absorbed(W, U, p, r, c) PROVE p \in DOMAIN U
        <4>1. DOMAIN U = DOMAIN W \ {c} /\ Link(W, p, r, c)
          BY <3>2 DEF Absorbed, Link
        <4>2. p # c
          BY <1>3, <4>1, NoLoop DEF Forest
        <4> QED BY <2>2, <4>1, <4>2
      <3> QED BY <2>2, <3>1, <3>2
    <2>4. ~Overhung(U[p])
      BY <1>9, <2>3
    <2> QED BY <1>3, <2>1, <2>2, <2>4, RecompressBranches
  <1> QED BY <1>8, <1>9

LEMMA ClearValBranches ==
  ASSUME NEW T, Tree(T), NEW R, Forest(T, R), AllBranchBut(T, {Root}),
         NEW i \in DOMAIN T, i # Root => HasChildren(T[i]), NEW U, U = ClearVal(T, i),
         \A x \in DOMAIN U \ {Root} : ~Overhung(U[x])
  PROVE  AllBranchBut(U, {Root})
  <1>1. PICK V : Rewritten(T, V, i, Nil) /\ U = Recompress(V, i)
    BY ClearValShape
  <1>2. /\ Tree(V) /\ i \in DOMAIN V /\ V[i].childs = T[i].childs
        /\ V[i].overflow = T[i].overflow
    BY <1>1 DEF Rewritten
  <1>3. Forest(V, R)
    BY <1>1, ForestRewritten
  <1>4. AllBranchBut(V, {Root} \cup {i})
    BY <1>1, RewrittenBranches
  <1>5. AllBranchBut(V, {Root, i})
    BY <1>4 DEF AllBranchBut
  <1>6. i # Root => HasVal(V[i]) \/ HasChildren(V[i])
    BY <1>2 DEF HasChildren
  <1>7. i \in DOMAIN U
    <2>1. (\E r, c : Absorbed(V, U, i, r, c)) \/ U = V
      BY <1>1, <1>2, RecompressShape
    <2>2. ASSUME NEW r, NEW c, Absorbed(V, U, i, r, c) PROVE i \in DOMAIN U
      <3>1. DOMAIN U = DOMAIN V \ {c} /\ Link(V, i, r, c)
        BY <2>2 DEF Absorbed, Link
      <3>2. i # c
        BY <1>3, <3>1, NoLoop DEF Forest
      <3> QED BY <1>2, <3>1, <3>2
    <2> QED BY <1>2, <2>1, <2>2
  <1>8. i # Root => ~Overhung(U[i])
    BY <1>7
  <1> QED BY <1>1, <1>2, <1>3, <1>5, <1>6, <1>8, RecompressBranches

LEMMA EffectBranches ==
  ASSUME NEW T, Tree(T), NEW R, Forest(T, R), Root \in R, AllBranchBut(T, {Root}),
         NEW U, Effect(T, U), \A i \in DOMAIN U \ {Root} : ~Overhung(U[i])
  PROVE  AllBranchBut(U, {Root})
  <1>1. CASE Stays(T, U)
    BY <1>1 DEF Stays
  <1>2. CASE Rewrites(T, U)
    <2>1. PICK i, v : Rewritten(T, U, i, v) /\ (v = Nil => T[i].val = Nil)
      BY <1>2 DEF Rewrites
    <2> QED BY <2>1, RewrittenBranches
  <1>3. CASE Adds(T, U)
    <2>1. PICK V, x, v : Ensured(T, V, x) /\ Rewritten(V, U, x, v) /\ v # Nil
      BY <1>3 DEF Adds
    <2>2. AllBranchBut(V, {Root, x})
      BY <2>1, EnsuredBranches
    <2>3. AllBranchBut(V, {Root} \cup {x})
      BY <2>2 DEF AllBranchBut
    <2> QED BY <2>1, <2>3, RewrittenBranches
  <1>4. CASE Clears(T, U)
    <2>1. PICK i \in DOMAIN T \ {Root} : HasChildren(T[i]) /\ U = ClearVal(T, i)
      BY <1>4 DEF Clears
    <2> QED BY <2>1, ClearValBranches
  <1>5. CASE CutsLeaf(T, U)
    <2>1. PICK i, p, r : /\ Link(T, p, r, i) /\ i \in DOMAIN T /\ ~HasChildren(T[i])
                         /\ U = Cut(T, {i}, p, r)
      BY <1>5 DEF CutsLeaf
    <2>2. Pendant(T, R, {i}, p, r)
      BY <2>1, LeafPendant DEF Forest
    <2> QED BY <2>1, <2>2, CutBranches
  <1>6. CASE CutsBelow(T, U)
    <2>1. PICK i, p, r : Link(T, p, r, i) /\ U = Cut(T, Subtree(T, {i}), p, r)
      BY <1>6 DEF CutsBelow
    <2>2. PICK S : S = Subtree(T, {i})
      OBVIOUS
    <2>3. Pendant(T, R, S, p, r) /\ U = Cut(T, S, p, r)
      BY <2>1, <2>2, SubtreePendant DEF Forest
    <2> QED BY <2>3, CutBranches
  <1> QED BY <1>1, <1>2, <1>3, <1>4, <1>5, <1>6 DEF Effect

LEMMA FlushBranches ==
  ASSUME NEW T, Tree(T), AllBranchBut(T, {Root}), NEW U, Flushes(T, U)
  PROVE  AllBranchBut(U, {Root})
  <1>1. PICK S : Flushed(T, U, S)
    BY FlushShape
  <1>2. DOMAIN U \subseteq DOMAIN T /\ \A x \in DOMAIN U \ {Root} : U[x] = T[x]
    BY <1>1 DEF Flushed
  <1>3. ASSUME NEW x \in DOMAIN U \ {Root} PROVE Branches(U, x)
    <2>1. x \in DOMAIN T /\ U[x] = T[x] /\ Branches(T, x)
      BY <1>2 DEF AllBranchBut
    <2> QED BY <2>1, BranchesUnchanged
  <1> QED BY <1>3 DEF AllBranchBut

\* No node without value is left with one child in its overflow list and
\* none inline, the one shape try_recompress does not merge.
NoneOverhung == \A i \in DOMAIN nodes \ {Root} : ~Overhung(nodes[i])

LEMMA BranchStep ==
  ASSUME Typed, Forest(nodes, {Root}), AllBranchBut(nodes, {Root}),
         Next, Orderly, NEW U, U = nodes', \A i \in DOMAIN U \ {Root} : ~Overhung(U[i])
  PROVE  AllBranchBut(U, {Root})
  <1>1. Tree(nodes) /\ Root \in DOMAIN nodes
    BY DEF Typed, Tree
  <1>2. Effect(nodes, U) => AllBranchBut(U, {Root})
    BY <1>1, EffectBranches
  <1>3. ClearsRoot(nodes, U) => AllBranchBut(U, {Root})
    BY <1>1, ClearValBranches DEF ClearsRoot
  <1>4. Flushes(nodes, U) => AllBranchBut(U, {Root})
    BY <1>1, FlushBranches
  <1>5. ASSUME NEW i \in Idx, Evict(i), EvictsLeaf(nodes, U, i) PROVE AllBranchBut(U, {Root})
    BY <1>2, <1>5, OrderlyEvictEffect
  <1>6. \/ Effect(nodes, U) \/ ClearsRoot(nodes, U) \/ Flushes(nodes, U)
        \/ \E i \in Idx : Evict(i) /\ EvictsLeaf(nodes, U, i)
    BY NextEffect
  <1> QED BY <1>2, <1>3, <1>4, <1>5, <1>6

LEMMA BranchNext ==
  ASSUME Typed, Forest(nodes, {Root}), AllBranchBut(nodes, {Root}),
         [Next /\ Orderly]_vars, NoneOverhung'
  PROVE  AllBranchBut(nodes, {Root})'
  <1>1. CASE UNCHANGED vars
    BY <1>1 DEF vars, AllBranchBut, Branches, Link, HasVal
  <1>2. CASE Next /\ Orderly
    <2>1. PICK U : U = nodes'
      OBVIOUS
    <2>2. \A i \in DOMAIN U \ {Root} : ~Overhung(U[i])
      BY <2>1 DEF NoneOverhung, Overhung, HasVal
    <2>3. AllBranchBut(U, {Root})
      BY <1>2, <2>1, <2>2, BranchStep
    <2> QED BY <2>1, <2>3
  <1> QED BY <1>1, <1>2

\* Two children are two.
LEMMA BranchesCounts ==
  ASSUME NEW T, Tree(T), Apart(T), NEW i \in DOMAIN T, Branches(T, i)
  PROVE  HasVal(T[i]) \/ Cardinality(Kids(T[i])) >= 2
  <1> SUFFICES ASSUME ~HasVal(T[i]) PROVE Cardinality(Kids(T[i])) >= 2
    OBVIOUS
  <1>1. PICK q, r, j, k : q # r /\ Link(T, i, q, j) /\ Link(T, i, r, k)
    BY DEF Branches
  <1>2. PICK K : K = Kids(T[i])
    OBVIOUS
  <1>3. <<q, j>> \in K /\ <<r, k>> \in K /\ <<q, j>> # <<r, k>>
    BY <1>1, <1>2 DEF Kids, Link
  <1>4. IsFiniteSet(K)
    <2>1. PICK D : D = DOMAIN T[i].childs \cup DOMAIN T[i].overflow
      OBVIOUS
    <2>2. T[i].childs \in ChildMaps /\ T[i].overflow \in ChildMaps
      BY DEF Tree, Nodes
    <2>3. IsFiniteSet(D)
      BY <2>1, <2>2, ChildMapsType, FS_Union
    <2>4. PICK f : f = [s \in D |-> <<s, Find(T, i, s)>>]
      OBVIOUS
    <2>5. \A s \in DOMAIN T[i].childs : Find(T, i, s) = T[i].childs[s]
      BY DEF Find
    <2>6. \A s \in DOMAIN T[i].overflow : Find(T, i, s) = T[i].overflow[s]
      BY DEF Find, Apart
    <2>7. \A s \in D : f[s] \in K
      BY <1>2, <2>1, <2>4, <2>5, <2>6 DEF Kids
    <2>8. \A x \in K : \E s \in D : f[s] = x
      BY <1>2, <2>1, <2>4, <2>5, <2>6 DEF Kids
    <2>9. f \in Surjection(D, K)
      BY <2>4, <2>7, <2>8 DEF Surjection
    <2> QED BY <2>3, <2>9, FS_Surjection
  <1>5. PICK a, b : a = <<q, j>> /\ b = <<r, k>>
    OBVIOUS
  <1>6. IsFiniteSet({a}) /\ Cardinality({a}) = 1 /\ b \notin {a}
    BY <1>3, <1>5, FS_Singleton
  <1>7. Cardinality({a} \cup {b}) = Cardinality({a}) + 1
    BY <1>6, FS_AddElement
  <1>8. {a} \cup {b} \in SUBSET K
    BY <1>3, <1>5
  <1>9. Cardinality({a} \cup {b}) <= Cardinality(K)
    BY <1>4, <1>8, FS_Subset
  <1>10. Cardinality(K) \in Nat
    BY <1>4, FS_CardinalityType
  <1> QED BY <1>2, <1>6, <1>7, <1>9, <1>10

\* As long as the links stay in order (LinksWell) and no valueless node is
\* left with a single child that sits in its overflow list, every deletion,
\* eviction and prefix deletion leaves the tree path-compressed: a node that
\* holds no value has two children (try_recompress, split_node).
THEOREM StaysCompressed == Spec /\ [][Orderly]_vars /\ []NoneOverhung => []Compressed
  <1>1. /\ Typed /\ Forest(nodes, {Root}) /\ AllBranchBut(nodes, {Root})
        /\ [Next]_vars /\ [Orderly]_vars /\ NoneOverhung'
        => AllBranchBut(nodes, {Root})'
    BY BranchNext
  <1>2. Init => AllBranchBut(nodes, {Root})
    BY DEF Init, AllBranchBut
  <1>3. Typed /\ Forest(nodes, {Root}) /\ AllBranchBut(nodes, {Root}) => Compressed
    <2> SUFFICES ASSUME Typed, Forest(nodes, {Root}), AllBranchBut(nodes, {Root}),
                        NEW i \in DOMAIN nodes \ {Root}
                 PROVE  HasVal(nodes[i]) \/ Cardinality(Kids(nodes[i])) >= 2
      BY DEF Compressed
    <2>1. Tree(nodes) /\ Apart(nodes) /\ Branches(nodes, i)
      BY DEF Typed, Forest, AllBranchBut
    <2> QED BY <2>1, BranchesCounts
  <1> QED BY <1>1, <1>2, <1>3, TypedAlways, ForestAlways, PTL DEF Spec
=============================================================================
