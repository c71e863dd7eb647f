-------------------------- MODULE OxidArtAsyncProofs --------------------------
(***************************************************************************)
(* However the chunks of running UNLINKs interleave with the calls of      *)
(* other connections, with the evictor and with each other, the slots an   *)
(* UNLINK has still to free are its own, for every number of walks and     *)
(* every chunk size.                                                       *)
(*                                                                         *)
(* The slots on the stacks of the running UNLINKs are roots of the forest  *)
(* of OxidArtProofs, beside the root of the tree.  Subtrees of different   *)
(* roots are disjoint, so what an operation below the tree's root does     *)
(* leaves the severed ones alone, and a step of a chunk only replaces one  *)
(* root by its children.  A key is looked up from the tree's root and      *)
(* never enters a severed subtree: an UNLINK takes its keys out of the     *)
(* entries when it cuts them off, and its chunks change no entry.          *)
(***************************************************************************)
EXTENDS OxidArtAsync, EntriesProofs

-----------------------------------------------------------------------------
(* Forests that lose a root, and forests that get more.                     *)

\* What hangs below some roots is one of them or hangs from another such node.
LEMMA SubtreeTop ==
  ASSUME NEW T, NEW R, Graph(T, R), NEW A, A \subseteq R, NEW y \in Subtree(T, A)
  PROVE  \/ y \in A
         \/ \E x \in Subtree(T, A) : \E r : Link(T, x, r, y)
  <1> SUFFICES ASSUME y \notin A, \A x \in Subtree(T, A) : \A r : ~Link(T, x, r, y)
               PROVE  FALSE
    OBVIOUS
  <1>1. PICK S : S = Subtree(T, A)
    OBVIOUS
  <1>2. /\ S \in SUBSET DOMAIN T /\ A \cap DOMAIN T \subseteq S /\ Closed(T, S)
        /\ \A C \in SUBSET DOMAIN T : A \cap DOMAIN T \subseteq C /\ Closed(T, C) => S \subseteq C
    BY <1>1, SubtreeLeast
  <1>3. PICK C : C = S \ {y}
    OBVIOUS
  <1>4. C \in SUBSET DOMAIN T /\ A \cap DOMAIN T \subseteq C
    BY <1>2, <1>3
  <1>5. Closed(T, C)
    BY <1>1, <1>2, <1>3 DEF Closed
  <1> QED BY <1>1, <1>2, <1>3, <1>4, <1>5

\* The subtrees of different roots have no node in common.
LEMMA GraphDisjoint ==
  ASSUME NEW T, NEW R, Graph(T, R), NEW A, A \subseteq R, NEW B, B \subseteq R, A \cap B = {}
  PROVE  Subtree(T, A) \cap Subtree(T, B) = {}
  <1>1. PICK SA : SA = Subtree(T, A)
    OBVIOUS
  <1>2. PICK SB : SB = Subtree(T, B)
    OBVIOUS
  <1>3. SA \in SUBSET DOMAIN T /\ SB \in SUBSET DOMAIN T
    BY <1>1, <1>2, SubtreeLeast
  <1>4. \A y \in SA : y \in A \/ \E x \in SA : \E r : Link(T, x, r, y)
    BY <1>1, SubtreeTop
  <1>5. \A y \in SB : y \in B \/ \E x \in SB : \E r : Link(T, x, r, y)
    BY <1>2, SubtreeTop
  <1>6. PICK C : C = DOMAIN T \ (SA \cap SB)
    OBVIOUS
  <1>7. C \in SUBSET DOMAIN T /\ R \subseteq C
    <2> SUFFICES ASSUME NEW y \in R, y \in SA, y \in SB PROVE FALSE
      BY <1>6 DEF Graph
    <2>1. \A x, r : ~Link(T, x, r, y)
      BY DEF Graph
    <2>2. y \in A /\ y \in B
      BY <1>4, <1>5, <2>1
    <2> QED BY <2>2
  <1>8. Closed(T, C)
    <2> SUFFICES ASSUME NEW x \in C, NEW r, NEW j, Link(T, x, r, j), j \in SA, j \in SB
                 PROVE  FALSE
      BY <1>6 DEF Closed
    <2>1. j \notin A /\ j \notin B
      BY DEF Graph
    <2>2. x \in SA
      BY <1>4, <2>1 DEF Graph
    <2>3. x \in SB
      BY <1>5, <2>1 DEF Graph
    <2> QED BY <1>6, <2>2, <2>3
  <1>9. C = DOMAIN T
    BY <1>7, <1>8 DEF Graph
  <1> QED BY <1>1, <1>2, <1>3, <1>6, <1>9

\* The links to A are cut.
SeverLinks(T, U, A) ==
  /\ DOMAIN U = DOMAIN T /\ A \subseteq DOMAIN T
  /\ \A i, r, j : Link(U, i, r, j) <=> Link(T, i, r, j) /\ j \notin A

LEMMA GraphSever ==
  ASSUME NEW T, NEW R, Graph(T, R), NEW U, NEW A, SeverLinks(T, U, A)
  PROVE  Graph(U, R \cup A)
  <1> USE DEF SeverLinks
  <1>1. R \cup A \subseteq DOMAIN U
    BY DEF Graph
  <1>2. \A i, r, j : Link(U, i, r, j) => j \in DOMAIN U /\ j \notin R \cup A
    BY DEF Graph
  <1>3. \A i, r, k, s, j : Link(U, i, r, j) /\ Link(U, k, s, j) => i = k /\ r = s
    BY DEF Graph
  <1>4. ASSUME NEW C \in SUBSET DOMAIN U, R \cup A \subseteq C, Closed(U, C)
        PROVE  C = DOMAIN U
    <2>1. Closed(T, C)
      BY <1>4 DEF Closed
    <2> QED BY <1>4, <2>1 DEF Graph
  <1> QED BY <1>1, <1>2, <1>3, <1>4 DEF Graph

\* The root i is freed, and its children, K, are roots now.
FreeLinks(T, U, i, K) ==
  /\ DOMAIN U = DOMAIN T \ {i}
  /\ \A j : j \in K <=> \E r : Link(T, i, r, j)
  /\ \A x, r, j : Link(U, x, r, j) <=> Link(T, x, r, j) /\ x # i

LEMMA GraphFree ==
  ASSUME NEW T, NEW R, Graph(T, R), NEW i \in R, NEW U, NEW K, FreeLinks(T, U, i, K)
  PROVE  /\ Graph(U, (R \ {i}) \cup K)
         /\ K \cap R = {}
  <1> USE DEF FreeLinks
  <1>0. K \cap R = {} /\ K \subseteq DOMAIN T
    BY DEF Graph
  <1>1. (R \ {i}) \cup K \subseteq DOMAIN U
    BY <1>0 DEF Graph
  <1>2. \A x, r, j : Link(U, x, r, j) => j \in DOMAIN U /\ j \notin (R \ {i}) \cup K
    <2> SUFFICES ASSUME NEW x, NEW r, NEW j, Link(U, x, r, j)
                 PROVE  j \in DOMAIN U /\ j \notin (R \ {i}) \cup K
      OBVIOUS
    <2>1. Link(T, x, r, j) /\ x # i
      OBVIOUS
    <2>2. j \in DOMAIN T /\ j \notin R
      BY <2>1 DEF Graph
    <2>3. j \notin K
      BY <2>1 DEF Graph
    <2> QED BY <2>2, <2>3
  <1>3. \A x, r, k, s, j : Link(U, x, r, j) /\ Link(U, k, s, j) => x = k /\ r = s
    BY DEF Graph
  <1>4. ASSUME NEW C \in SUBSET DOMAIN U, (R \ {i}) \cup K \subseteq C, Closed(U, C)
        PROVE  C = DOMAIN U
    <2>1. PICK B : B = C \cup {i}
      OBVIOUS
    <2>2. B \in SUBSET DOMAIN T /\ R \subseteq B
      BY <1>4, <2>1 DEF Graph
    <2>3. Closed(T, B)
      <3> SUFFICES ASSUME NEW x \in B, NEW r, NEW j, Link(T, x, r, j), j \in DOMAIN T
                   PROVE  j \in B
        BY DEF Closed
      <3>1. CASE x = i
        BY <1>4, <2>1, <3>1
      <3>2. CASE x # i
        <4>1. x \in C /\ Link(U, x, r, j)
          BY <2>1, <3>2
        <4>2. j \in DOMAIN U
          BY <1>2, <4>1
        <4> QED BY <1>4, <2>1, <4>1, <4>2 DEF Closed
      <3> QED BY <3>1, <3>2
    <2>4. B = DOMAIN T
      BY <2>2, <2>3 DEF Graph
    <2> QED BY <1>4, <2>1, <2>4
  <1> QED BY <1>0, <1>1, <1>2, <1>3, <1>4 DEF Graph

-----------------------------------------------------------------------------
(* Stacks.                                                                  *)

Stack(s) == s \in Seq(Idx) /\ IsInjective(s)

\* SetToSeqs lists a finite set, each member once.
LEMMA ListsSet ==
  ASSUME NEW S, IsFiniteSet(S), S \subseteq Idx, NEW s \in SetToSeqs(S)
  PROVE  Stack(s) /\ Range(s) = S
  <1>1. PICK n : n = Cardinality(S)
    OBVIOUS
  <1>2. n \in Nat
    BY <1>1, FS_CardinalityType
  <1>3. s \in [1 .. n -> S] /\ \A i, j \in 1 .. n : i # j => s[i] # s[j]
    BY <1>1 DEF SetToSeqs
  <1>4. s \in Injection(1 .. n, S)
    BY <1>3, Fun_IsInj
  <1>5. IsFiniteSet(1 .. n) /\ Cardinality(1 .. n) = n
    BY <1>2, FS_Interval
  <1>6. s \in Surjection(1 .. n, S)
    BY <1>1, <1>4, <1>5, FS_Injection
  <1>7. \A t \in S : \E k \in 1 .. n : s[k] = t
    BY <1>6 DEF Surjection
  <1>8. Range(s) = S
    BY <1>3, <1>7 DEF Range
  <1>9. s \in Seq(Idx)
    BY <1>2, <1>3
  <1>10. IsInjective(s)
    BY <1>3 DEF IsInjective
  <1> QED BY <1>8, <1>9, <1>10 DEF Stack

\* A stack without its last slot.
LEMMA PopStack ==
  ASSUME NEW s, Stack(s), s # <<>>
  PROVE  /\ Stack(Front(s)) /\ Last(s) \in Range(s)
         /\ Range(Front(s)) = Range(s) \ {Last(s)}
  <1>1. PICK n : n = Len(s)
    OBVIOUS
  <1>2. n \in Nat \ {0} /\ DOMAIN s = 1 .. n /\ \A k \in 1 .. n : s[k] \in Idx
    BY <1>1 DEF Stack
  <1>3. PICK f : f = Front(s)
    OBVIOUS
  <1>4. f \in Seq(Idx) /\ Len(f) = n - 1 /\ \A k \in 1 .. n - 1 : f[k] = s[k]
    <2>1. f = SubSeq(s, 1, n - 1)
      BY <1>1, <1>3 DEF Front
    <2>2. 1 \in 1 .. n + 1 /\ n - 1 \in 0 .. n
      BY <1>2
    <2> QED BY <1>1, <1>2, <2>1, <2>2, SubSeqProperties DEF Stack
  <1>5. DOMAIN f = 1 .. n - 1
    BY <1>4
  <1>6. \A a, b \in 1 .. n : s[a] = s[b] => a = b
    BY <1>2 DEF Stack, IsInjective
  <1>7. IsInjective(f)
    <2> SUFFICES ASSUME NEW a \in 1 .. n - 1, NEW b \in 1 .. n - 1, f[a] = f[b] PROVE a = b
      BY <1>5 DEF IsInjective
    <2>1. a \in 1 .. n /\ b \in 1 .. n /\ s[a] = s[b]
      BY <1>2, <1>4
    <2> QED BY <1>6, <2>1
  <1>8. Last(s) = s[n] /\ n \in 1 .. n
    BY <1>1, <1>2 DEF Last
  <1>9. Range(s) = {s[k] : k \in 1 .. n} /\ Range(f) = {f[k] : k \in 1 .. n - 1}
    BY <1>2, <1>5 DEF Range
  <1>10. ASSUME NEW x PROVE x \in Range(f) <=> x \in Range(s) \ {s[n]}
    <2>1. ASSUME x \in Range(f) PROVE x \in Range(s) \ {s[n]}
      <3>1. PICK k \in 1 .. n - 1 : x = s[k]
        BY <1>4, <1>9, <2>1
      <3>2. k \in 1 .. n /\ k # n
        BY <1>2
      <3> QED BY <1>6, <1>8, <1>9, <3>1, <3>2
    <2>2. ASSUME x \in Range(s), x # s[n] PROVE x \in Range(f)
      <3>1. PICK k \in 1 .. n : x = s[k]
        BY <1>9, <2>2
      <3>2. k \in 1 .. n - 1
        BY <1>2, <2>2, <3>1
      <3> QED BY <1>4, <1>9, <3>1, <3>2
    <2> QED BY <2>1, <2>2
  <1> QED BY <1>3, <1>4, <1>7, <1>8, <1>9, <1>10 DEF Stack

LEMMA PushStack ==
  ASSUME NEW s, Stack(s), NEW t, Stack(t), Range(s) \cap Range(t) = {}
  PROVE  Stack(s \o t) /\ Range(s \o t) = Range(s) \cup Range(t)
  <1>1. PICK m : m = Len(s)
    OBVIOUS
  <1>2. PICK n : n = Len(t)
    OBVIOUS
  <1>3. PICK u : u = s \o t
    OBVIOUS
  <1>4. m \in Nat /\ n \in Nat /\ DOMAIN s = 1 .. m /\ DOMAIN t = 1 .. n
    BY <1>1, <1>2 DEF Stack
  <1>5. u \in Seq(Idx) /\ Len(u) = m + n
    BY <1>1, <1>2, <1>3, ConcatProperties DEF Stack
  <1>6. DOMAIN u = 1 .. m + n
    BY <1>5
  <1>7. \A k \in 1 .. m + n : u[k] = IF k <= m THEN s[k] ELSE t[k - m]
    BY <1>1, <1>2, <1>3, ConcatProperties DEF Stack
  <1>8. \A k \in 1 .. m + n : (k <= m => k \in 1 .. m) /\ (~(k <= m) => k - m \in 1 .. n)
    BY <1>4
  <1>9. \A k \in 1 .. m : s[k] \in Range(s)
    BY <1>4 DEF Range
  <1>10. \A k \in 1 .. n : t[k] \in Range(t)
    BY <1>4 DEF Range
  <1>11. /\ \A a, b \in 1 .. m : s[a] = s[b] => a = b
         /\ \A a, b \in 1 .. n : t[a] = t[b] => a = b
    BY <1>4 DEF Stack, IsInjective
  <1>12. IsInjective(u)
    <2> SUFFICES ASSUME NEW a \in 1 .. m + n, NEW b \in 1 .. m + n, u[a] = u[b] PROVE a = b
      BY <1>6 DEF IsInjective
    <2>1. CASE a <= m /\ b <= m
      BY <1>7, <1>8, <1>11, <2>1
    <2>2. CASE ~(a <= m) /\ ~(b <= m)
      <3>1. a - m = b - m
        BY <1>7, <1>8, <1>11, <2>2
      <3> QED BY <1>4, <3>1
    <2>3. CASE a <= m /\ ~(b <= m)
      <3>1. u[a] \in Range(s) /\ u[b] \in Range(t)
        BY <1>7, <1>8, <1>9, <1>10, <2>3
      <3> QED BY <3>1
    <2>4. CASE ~(a <= m) /\ b <= m
      <3>1. u[b] \in Range(s) /\ u[a] \in Range(t)
        BY <1>7, <1>8, <1>9, <1>10, <2>4
      <3> QED BY <3>1
    <2> QED BY <2>1, <2>2, <2>3, <2>4
  <1>13. Range(u) = Range(s) \cup Range(t)
    <2>1. Range(u) \subseteq Range(s) \cup Range(t)
      BY <1>6, <1>7, <1>8, <1>9, <1>10 DEF Range
    <2>2. \A k \in 1 .. m : u[k] = s[k] /\ k \in 1 .. m + n
      BY <1>4, <1>7
    <2>3. Range(s) \subseteq Range(u)
      BY <1>4, <1>6, <2>2 DEF Range
    <2>4. \A k \in 1 .. n : u[k + m] = t[k] /\ k + m \in 1 .. m + n
      BY <1>4, <1>7
    <2>5. Range(t) \subseteq Range(u)
      BY <1>4, <1>6, <2>4 DEF Range
    <2> QED BY <2>1, <2>3, <2>5
  <1> QED BY <1>3, <1>5, <1>12, <1>13 DEF Stack

-----------------------------------------------------------------------------
(* Freeing what is cut off.                                                 *)

\* The stack s holds roots of their own, next to those of B.
Held(T, B, s) ==
  /\ Tree(T) /\ Stack(s) /\ Forest(T, B \cup Range(s)) /\ B \cap Range(s) = {}

LEMMA HeldAlive ==
  ASSUME NEW T, NEW B, NEW s, Held(T, B, s)
  PROVE  SubSeq(s, 1, Alive(T, s)) = s
  <1>1. PICK n : n = Len(s)
    OBVIOUS
  <1>2. s \in Seq(Idx) /\ n \in Nat /\ DOMAIN s = 1 .. n
    BY <1>1 DEF Held, Stack
  <1>3. Range(s) \subseteq DOMAIN T
    BY DEF Held, Forest, Graph
  <1>4. \A k \in DOMAIN s : s[k] \in DOMAIN T
    BY <1>3 DEF Range
  <1>5. PICK M : M = {0} \cup {k \in DOMAIN s : s[k] \in DOMAIN T}
    OBVIOUS
  <1>6. M = 0 .. n
    BY <1>2, <1>4, <1>5
  <1>7. Max(M) = n
    <2>1. n \in M /\ \A y \in M : n >= y
      BY <1>2, <1>6
    <2>2. \A x \in M : (\A y \in M : x >= y) => x = n
      BY <1>2, <1>6
    <2> QED BY <2>1, <2>2 DEF Max
  <1>8. Alive(T, s) = n
    BY <1>5, <1>7 DEF Alive
  <1>9. SubSeq(s, 1, Len(s)) = s
    BY <1>2, SubSeqFull
  <1> QED BY <1>1, <1>8, <1>9

LEMMA ChildIdxsType ==
  ASSUME NEW T, Tree(T), NEW i \in DOMAIN T
  PROVE  IsFiniteSet(ChildIdxs(T[i])) /\ ChildIdxs(T[i]) \subseteq Idx
  <1>1. T[i].childs \in ChildMaps /\ T[i].overflow \in ChildMaps
    BY DEF Tree, Nodes
  <1>2. ASSUME NEW f \in ChildMaps PROVE IsFiniteSet(Range(f)) /\ Range(f) \subseteq Idx
    <2>1. /\ f = [r \in DOMAIN f |-> f[r]] /\ IsFiniteSet(DOMAIN f)
          /\ \A r \in DOMAIN f : f[r] \in Idx
      BY ChildMapsType
    <2>2. f \in Surjection(DOMAIN f, Range(f))
      BY <2>1 DEF Surjection, Range
    <2>3. IsFiniteSet(Range(f))
      BY <2>1, <2>2, FS_Surjection
    <2> QED BY <2>1, <2>3 DEF Range
  <1>3. PICK A : A = Range(T[i].childs)
    OBVIOUS
  <1>4. PICK B : B = Range(T[i].overflow)
    OBVIOUS
  <1>5. IsFiniteSet(A) /\ IsFiniteSet(B) /\ A \subseteq Idx /\ B \subseteq Idx
    BY <1>1, <1>2, <1>3, <1>4
  <1>6. IsFiniteSet(A \cup B)
    BY <1>5, FS_Union
  <1> QED BY <1>3, <1>4, <1>5, <1>6 DEF ChildIdxs

Freed(T, U, i) == Tree(U) /\ DOMAIN U = DOMAIN T \ {i} /\ \A x \in DOMAIN U : U[x] = T[x]

LEMMA FreedShape ==
  ASSUME NEW T, Tree(T), NEW i, i # Root, NEW U, U = Without(T, {i})
  PROVE  Freed(T, U, i)
  <1>1. Root \notin {i}
    OBVIOUS
  <1> QED BY <1>1, WithoutShape DEF Freed

\* No way of a key passes a root of the forest but the root of the tree.
LEMMA FreedAgrees ==
  ASSUME NEW T, Tree(T), NEW R, Graph(T, R), NEW i \in R, i # Root, NEW U, Freed(T, U, i)
  PROVE  Agree(T, U)
  <1>1. PICK C : C = DOMAIN T \ {i}
    OBVIOUS
  <1>2. Tree(U) /\ DOMAIN U = C /\ \A x \in C : U[x] = T[x]
    BY <1>1 DEF Freed
  <1>3. Root \in C /\ Root \in DOMAIN T
    BY <1>1 DEF Tree
  <1>4. \A x \in C : \A r, j : Link(T, x, r, j) => j \in C /\ Link(U, x, r, j)
    BY <1>1, <1>2 DEF Graph, Link
  <1>5. \A x \in C : \A r, j : Link(U, x, r, j) => Link(T, x, r, j)
    BY <1>1, <1>2 DEF Link
  <1>6. Carries(T, U, C, {})
    BY <1>2, <1>3, <1>4 DEF Carries
  <1>7. Carries(U, T, C, {})
    BY <1>1, <1>2, <1>3, <1>5 DEF Carries
  <1>8. ASSUME NEW key \in Seq(Radixes), NEW v, NEW e PROVE Has(T, key, v, e) <=> Has(U, key, v, e)
    <2>1. key \in Seq(Radixes)
      BY KeysAreSeqs
    <2>2. ASSUME NEW j, NEW k, <<j, k>> \in Path(T, key) PROVE j \in C /\ <<j, k>> \in Path(U, key)
      BY <1>2, <1>6, <2>1, <2>2, PathCarries
    <2>3. ASSUME NEW j, NEW k, <<j, k>> \in Path(U, key) PROVE j \in C /\ <<j, k>> \in Path(T, key)
      BY <1>2, <1>7, <2>1, <2>3, PathCarries
    <2>4. \A j : (Hit(T, key, j) <=> Hit(U, key, j)) /\ (Hit(T, key, j) => j \in C)
      BY <2>2, <2>3 DEF Hit
    <2> QED BY <1>2, <2>4 DEF Has
  <1> QED BY <1>8 DEF Agree

LEMMA AgreeSelf == ASSUME NEW T PROVE Agree(T, T)
  BY DEF Agree

LEMMA AgreeChain == ASSUME NEW T, NEW U, NEW V, Agree(T, U), Agree(U, V) PROVE Agree(T, V)
  BY DEF Agree

\* Freeing the root i, whose children K follow the rest f of the stack.
LEMMA FreeTop ==
  ASSUME NEW T, NEW B, Root \in B, NEW s, Held(T, B, s), s # <<>>,
         NEW order \in SetToSeqs(ChildIdxs(T[Last(s)])), NEW U, U = Without(T, {Last(s)})
  PROVE  Held(U, B, Front(s) \o order) /\ Agree(T, U)
  <1>1. PICK i : i = Last(s)
    OBVIOUS
  <1>2. PICK f : f = Front(s)
    OBVIOUS
  <1>3. PICK K : K = ChildIdxs(T[i])
    OBVIOUS
  <1>4. Stack(f) /\ i \in Range(s) /\ Range(f) = Range(s) \ {i}
    BY <1>1, <1>2, PopStack DEF Held
  <1>5. Tree(T) /\ Forest(T, B \cup Range(s)) /\ B \cap Range(s) = {}
    BY DEF Held
  <1>6. i \in DOMAIN T /\ i # Root
    BY <1>4, <1>5 DEF Forest, Graph
  <1>7. IsFiniteSet(K) /\ K \subseteq Idx
    BY <1>3, <1>5, <1>6, ChildIdxsType
  <1>8. Stack(order) /\ Range(order) = K
    BY <1>1, <1>3, <1>7, ListsSet
  <1>a. Freed(T, U, i)
    BY <1>1, <1>5, <1>6, FreedShape
  <1>9. Tree(U) /\ DOMAIN U = DOMAIN T \ {i} /\ \A x \in DOMAIN U : U[x] = T[x]
    BY <1>a DEF Freed
  <1>10. FreeLinks(T, U, i, K)
    <2>1. \A j : j \in K <=> \E r : Link(T, i, r, j)
      BY <1>3, <1>6, ChildIdxsLink
    <2>2. \A x, r, j : Link(U, x, r, j) <=> Link(T, x, r, j) /\ x # i
      BY <1>9 DEF Link
    <2> QED BY <1>9, <2>1, <2>2 DEF FreeLinks
  <1>11. PICK R : R = B \cup Range(s)
    OBVIOUS
  <1>12. i \in R /\ Graph(T, R)
    BY <1>4, <1>5, <1>11 DEF Forest
  <1>13. Graph(U, (R \ {i}) \cup K) /\ K \cap R = {}
    BY <1>10, <1>12, GraphFree
  <1>14. Stack(f \o order) /\ Range(f \o order) = Range(f) \cup K
    <2>1. Range(f) \cap Range(order) = {}
      BY <1>4, <1>8, <1>11, <1>13
    <2> QED BY <1>4, <1>8, <2>1, PushStack
  <1>15. (R \ {i}) \cup K = B \cup Range(f \o order)
    BY <1>4, <1>5, <1>11, <1>14
  <1>16. Apart(U)
    BY <1>5, <1>9 DEF Forest, Apart
  <1>17. B \cap Range(f \o order) = {}
    BY <1>4, <1>5, <1>11, <1>13, <1>14
  <1>18. Agree(T, U)
    BY <1>5, <1>6, <1>12, <1>a, FreedAgrees
  <1>19. Held(U, B, Front(s) \o order)
    BY <1>2, <1>9, <1>13, <1>14, <1>15, <1>16, <1>17 DEF Held, Forest
  <1> QED BY <1>18, <1>19

LEMMA FreeOneHeld ==
  ASSUME NEW T, NEW B, Root \in B, NEW s, Held(T, B, s), NEW c, NEW x \in FreeOne(T, s, c)
  PROVE  Held(x[1], B, x[2]) /\ Agree(T, x[1])
  <1>1. SubSeq(s, 1, Alive(T, s)) = s
    BY HeldAlive
  <1>2. CASE s = <<>>
    <2>1. x = <<T, s, c>>
      BY <1>1, <1>2 DEF FreeOne
    <2>2. x[1] = T /\ x[2] = s
      BY <2>1
    <2> QED BY <2>2, AgreeSelf
  <1>3. CASE s # <<>>
    <2>1. PICK order \in SetToSeqs(ChildIdxs(T[Last(s)])) :
            x = <<Without(T, {Last(s)}), Front(s) \o order,
                  IF HasVal(T[Last(s)]) THEN c + 1 ELSE c>>
      BY <1>1, <1>3 DEF FreeOne
    <2>2. PICK U : U = Without(T, {Last(s)})
      OBVIOUS
    <2>3. Held(U, B, Front(s) \o order) /\ Agree(T, U)
      BY <1>3, <2>2, FreeTop
    <2>4. x[1] = U /\ x[2] = Front(s) \o order
      BY <2>1, <2>2
    <2> QED BY <2>3, <2>4
  <1> QED BY <1>2, <1>3

\* The rounds of a chunk: there is a function that counts them.
Rounds(f, n, z) ==
  f = [m \in 0 .. n |-> IF m = 0 THEN z
                        ELSE UNION {FreeOne(x[1], x[2], x[3]) : x \in f[m - 1]}]

LEMMA RoundsExist ==
  ASSUME NEW z, NEW n \in Nat
  PROVE  \E f : Rounds(f, n, z)
  <1> DEFINE Step(S) == UNION {FreeOne(x[1], x[2], x[3]) : x \in S}
  <1>1. \A f, m : Rounds(f, m, z) <=> f = [k \in 0 .. m |-> IF k = 0 THEN z ELSE Step(f[k - 1])]
    BY DEF Rounds
  <1> HIDE DEF Step
  <1>2. PICK M : M = {m \in 0 .. n : \E f : Rounds(f, m, z)}
    OBVIOUS
  <1>3. 0 \in M
    <2>1. PICK f : f = [k \in 0 .. 0 |-> z]
      OBVIOUS
    <2>2. \A k \in 0 .. 0 : k = 0
      OBVIOUS
    <2>3. f = [k \in 0 .. 0 |-> IF k = 0 THEN z ELSE Step(f[k - 1])]
      BY <2>1, <2>2
    <2>4. Rounds(f, 0, z)
      BY <1>1, <2>3
    <2>5. 0 \in 0 .. n
      OBVIOUS
    <2> QED BY <1>2, <2>4, <2>5
  <1>4. ASSUME NEW m \in 0 .. n - 1, m \in M PROVE m + 1 \in M
    <2>1. PICK f : f = [k \in 0 .. m |-> IF k = 0 THEN z ELSE Step(f[k - 1])]
      BY <1>1, <1>2, <1>4
    <2>2. PICK g : g = [k \in 0 .. m + 1 |-> IF k \in 0 .. m THEN f[k] ELSE Step(f[m])]
      OBVIOUS
    <2>3. ASSUME NEW k \in 0 .. m + 1 PROVE g[k] = IF k = 0 THEN z ELSE Step(g[k - 1])
      <3>1. CASE k = 0
        BY <2>1, <2>2, <3>1
      <3>2. CASE k \in 1 .. m
        <4>1. k \in 0 .. m /\ k - 1 \in 0 .. m /\ k - 1 \in 0 .. m + 1 /\ k # 0
          BY <3>2
        <4>2. g[k] = f[k] /\ g[k - 1] = f[k - 1]
          BY <2>2, <4>1
        <4>3. f[k] = Step(f[k - 1])
          BY <2>1, <4>1
        <4> QED BY <4>1, <4>2, <4>3
      <3>3. CASE k = m + 1
        <4>1. k \notin 0 .. m /\ k - 1 = m /\ m \in 0 .. m /\ m \in 0 .. m + 1 /\ k # 0
          BY <3>3
        <4>2. g[k] = Step(f[m]) /\ g[m] = f[m]
          BY <2>2, <4>1
        <4> QED BY <4>1, <4>2
      <3> QED BY <3>1, <3>2, <3>3
    <2>4. g = [k \in 0 .. m + 1 |-> IF k = 0 THEN z ELSE Step(g[k - 1])]
      BY <2>2, <2>3
    <2>5. Rounds(g, m + 1, z)
      BY <1>1, <2>4
    <2>6. m + 1 \in 0 .. n
      OBVIOUS
    <2> QED BY <1>2, <2>5, <2>6
  <1>5. n \in M
    BY <1>3, <1>4, IntervalInduction
  <1> QED BY <1>2, <1>5

LEMMA FreeChunkHeld ==
  ASSUME NEW T, NEW B, Root \in B, NEW s, Held(T, B, s), NEW c, NEW x \in FreeChunk(T, s, c)
  PROVE  Held(x[1], B, x[2]) /\ Agree(T, x[1])
  <1>1. PICK z : z = {<<T, s, c>>}
    OBVIOUS
  <1>2. Budget \in Nat
    BY AsyncAssumption
  <1>3. PICK f : f = CHOOSE g : Rounds(g, Budget, z)
    OBVIOUS
  <1>4. Rounds(f, Budget, z)
    BY <1>2, <1>3, RoundsExist
  <1>5. FreeChunk(T, s, c) = f[Budget]
    BY <1>1, <1>3 DEF FreeChunk, Rounds
  <1>6. /\ f[0] = z
        /\ \A m \in 0 .. Budget - 1 : f[m + 1] = UNION {FreeOne(y[1], y[2], y[3]) : y \in f[m]}
    <2>1. PICK h : h = f
      OBVIOUS
    <2>2. f = [m \in 0 .. Budget |-> IF m = 0 THEN z
                        ELSE UNION {FreeOne(y[1], y[2], y[3]) : y \in h[m - 1]}]
      BY <1>4, <2>1 DEF Rounds
    <2>3. f[0] = z
      BY <1>2, <2>2
    <2>4. ASSUME NEW m \in 0 .. Budget - 1
          PROVE  f[m + 1] = UNION {FreeOne(y[1], y[2], y[3]) : y \in h[m]}
      <3>1. m + 1 \in 0 .. Budget /\ m + 1 # 0 /\ (m + 1) - 1 = m
        BY <1>2
      <3> QED BY <2>2, <3>1
    <2> QED BY <2>1, <2>3, <2>4
  <1>7. PICK M : M = {m \in 0 .. Budget : \A y \in f[m] : Held(y[1], B, y[2]) /\ Agree(T, y[1])}
    OBVIOUS
  <1>8. 0 \in M
    BY <1>1, <1>2, <1>6, <1>7, AgreeSelf
  <1>9. ASSUME NEW m \in 0 .. Budget - 1, m \in M PROVE m + 1 \in M
    <2>1. ASSUME NEW y \in f[m + 1] PROVE Held(y[1], B, y[2]) /\ Agree(T, y[1])
      <3>1. PICK v \in f[m] : y \in FreeOne(v[1], v[2], v[3])
        BY <1>6, <2>1
      <3>2. Held(v[1], B, v[2]) /\ Agree(T, v[1])
        BY <1>7, <1>9
      <3>3. Held(y[1], B, y[2]) /\ Agree(v[1], y[1])
        BY <3>1, <3>2, FreeOneHeld
      <3> QED BY <3>2, <3>3, AgreeChain
    <2>2. m + 1 \in 0 .. Budget
      BY <1>2
    <2> QED BY <1>7, <2>1, <2>2
  <1>10. Budget \in M
    BY <1>2, <1>8, <1>9, IntervalInduction
  <1> QED BY <1>5, <1>7, <1>10

-----------------------------------------------------------------------------
(* Cutting a prefix off.                                                    *)

LEMMA NoStack == ASSUME NEW s, s = <<>> PROVE Stack(s) /\ Range(s) = {}
  <1>1. s \in Seq(Idx) /\ DOMAIN s = {}
    OBVIOUS
  <1> QED BY <1>1 DEF Stack, Range, IsInjective

LEMMA OneStack == ASSUME NEW t \in Idx, NEW s, s = <<t>> PROVE Stack(s) /\ Range(s) = {t}
  <1>1. s \in Seq(Idx) /\ DOMAIN s = {1} /\ s[1] = t
    OBVIOUS
  <1> QED BY <1>1 DEF Stack, Range, IsInjective

LEMMA HeldSevered ==
  ASSUME NEW T, NEW B, Graph(T, B), NEW U, Tree(U), Apart(U), NEW s, Stack(s),
         SeverLinks(T, U, Range(s)), Range(s) \cap B = {}
  PROVE  Held(U, B, s)
  <1>1. Graph(U, B \cup Range(s))
    BY GraphSever
  <1> QED BY <1>1 DEF Held, Forest

\* The whole tree, when the root's overflow list is empty.
LEMMA CutRootHeld ==
  ASSUME NEW T, Tree(T), NEW B, Forest(T, B), Root \in B, DOMAIN T[Root].overflow = {},
         NEW s \in SetToSeqs(ChildIdxs(T[Root])), NEW U, U = [T EXCEPT ![Root].childs = <<>>]
  PROVE  Held(U, B, s)
  <1>1. Root \in DOMAIN T /\ T[Root] \in Nodes
    BY DEF Tree
  <1>2. PICK A : A = ChildIdxs(T[Root])
    OBVIOUS
  <1>3. IsFiniteSet(A) /\ A \subseteq Idx
    BY <1>1, <1>2, ChildIdxsType
  <1>4. Stack(s) /\ Range(s) = A
    BY <1>2, <1>3, ListsSet
  <1>5. \A j : j \in A <=> \E r : Link(T, Root, r, j)
    BY <1>1, <1>2, ChildIdxsLink
  <1>6. A \subseteq DOMAIN T /\ A \cap B = {}
    BY <1>5 DEF Forest, Graph
  <1>7. PICK none : none = <<>>
    OBVIOUS
  <1>8. none \in ChildMaps /\ DOMAIN none = {} /\ Cardinality(DOMAIN none) <= ChildsSize
    <2>1. none \in ChildMaps /\ DOMAIN none = {} /\ Cardinality(DOMAIN none) = 0
      BY <1>7, NoChild
    <2> QED BY <2>1, ConstantsAssumption
  <1>9. PICK n : n = [T[Root] EXCEPT !.childs = none]
    OBVIOUS
  <1>10. n \in Nodes /\ n.childs = none /\ n.overflow = T[Root].overflow
    BY <1>1, <1>8, <1>9 DEF Nodes
  <1>11. U = [T EXCEPT ![Root] = n]
    BY <1>1, <1>7, <1>9
  <1>12. Fits(n)
    BY <1>8, <1>10 DEF Fits
  <1>13. Put(T, U, Root, n)
    BY <1>1, <1>11, <1>12, PutOld
  <1>14. /\ Tree(U) /\ DOMAIN U = DOMAIN T /\ \A x \in DOMAIN T \ {Root} : U[x] = T[x]
         /\ DOMAIN U[Root].childs = {} /\ DOMAIN U[Root].overflow = {}
    BY <1>1, <1>8, <1>10, <1>13 DEF Put
  <1>15. \A i, r, j : Link(U, i, r, j) <=> Link(T, i, r, j) /\ j \notin A
    <2> SUFFICES ASSUME NEW i, NEW r, NEW j
                 PROVE  Link(U, i, r, j) <=> Link(T, i, r, j) /\ j \notin A
      OBVIOUS
    <2>1. CASE i = Root
      <3>1. ~Link(U, i, r, j)
        BY <1>14, <2>1 DEF Link
      <3> QED BY <1>5, <2>1, <3>1
    <2>2. CASE i # Root
      <3>1. Link(U, i, r, j) <=> Link(T, i, r, j)
        BY <1>14, <2>2 DEF Link
      <3>2. Link(T, i, r, j) => j \notin A
        BY <1>5, <2>2 DEF Forest, Graph
      <3> QED BY <3>1, <3>2
    <2> QED BY <2>1, <2>2
  <1>16. SeverLinks(T, U, Range(s))
    BY <1>4, <1>6, <1>14, <1>15 DEF SeverLinks
  <1>17. Apart(U)
    BY <1>14 DEF Forest, Apart
  <1>18. Graph(T, B) /\ Range(s) \cap B = {}
    BY <1>4, <1>6 DEF Forest
  <1> QED BY <1>4, <1>14, <1>16, <1>17, <1>18, HeldSevered

\* One link, from i by q to t.
LEMMA CutLinkHeld ==
  ASSUME NEW T, Tree(T), NEW B, Forest(T, B), NEW i, NEW q, NEW t, Link(T, i, q, t),
         NEW U, U = RemoveChild(T, i, q), NEW s, s = <<t>>
  PROVE  Held(U, B, s)
  <1>1. t \in Idx /\ t \in DOMAIN T /\ t \notin B
    BY LinkType DEF Forest, Graph
  <1>2. Stack(s) /\ Range(s) = {t}
    BY <1>1, OneStack
  <1>3. Dropped(T, U, i, q)
    BY RemoveChildShape
  <1>4. Tree(U) /\ DOMAIN U = DOMAIN T
    BY <1>3 DEF Dropped
  <1>5. /\ Apart(U)
        /\ \A x, r, j : Link(U, x, r, j) <=> Link(T, x, r, j) /\ ~(x = i /\ r = q)
    BY <1>3, DroppedLinks DEF Forest
  <1>6. \A x, r, j : Link(T, x, r, j) => (j = t <=> (x = i /\ r = q))
    <2> SUFFICES ASSUME NEW x, NEW r, NEW j, Link(T, x, r, j) PROVE j = t <=> (x = i /\ r = q)
      OBVIOUS
    <2>1. j = t => x = i /\ r = q
      BY DEF Forest, Graph
    <2>2. x = i /\ r = q => j = t
      BY LinkFunctional DEF Forest
    <2> QED BY <2>1, <2>2
  <1>7. SeverLinks(T, U, Range(s))
    BY <1>1, <1>2, <1>4, <1>5, <1>6 DEF SeverLinks
  <1>8. Graph(T, B) /\ Range(s) \cap B = {}
    BY <1>1, <1>2 DEF Forest
  <1> QED BY <1>2, <1>4, <1>5, <1>7, <1>8, HeldSevered

LEMMA FindAndCutHeld ==
  ASSUME NEW T, Tree(T), NEW B, Forest(T, B), Root \in B, NEW p \in Seq(Radixes),
         p = <<>> => DOMAIN T[Root].overflow = {}, NEW cut \in FindAndCut(T, p)
  PROVE  Held(cut[1], B, cut[2])
  <1>1. CASE p = <<>>
    <2>1. PICK s \in SetToSeqs(ChildIdxs(T[Root])) :
            cut = <<[T EXCEPT ![Root].childs = <<>>], s,
                    IF GetValue(T[Root]) # Nil THEN 1 ELSE 0, Root>>
      BY <1>1 DEF FindAndCut
    <2>2. PICK U : U = [T EXCEPT ![Root].childs = <<>>]
      OBVIOUS
    <2>3. Held(U, B, s)
      BY <1>1, <2>2, CutRootHeld
    <2>4. cut[1] = U /\ cut[2] = s
      BY <2>1, <2>2
    <2> QED BY <2>3, <2>4
  <1>2. CASE p # <<>> /\ Cover(T, p) = Nil
    <2>1. PICK s : s = <<>>
      OBVIOUS
    <2>2. cut[1] = T /\ cut[2] = s
      BY <1>2, <2>1 DEF FindAndCut
    <2>3. Stack(s) /\ Range(s) = {}
      BY <2>1, NoStack
    <2>4. B \cup Range(s) = B
      BY <2>3
    <2> QED BY <2>2, <2>3, <2>4 DEF Held
  <1>3. CASE p # <<>> /\ Cover(T, p) # Nil
    <2>1. PICK t : t = Cover(T, p)
      OBVIOUS
    <2>2. PICK i \in DOMAIN T, c \in 0 .. Len(p) - 1 :
            Walk(T, p) = <<i, c, t>> /\ Link(T, i, p[c + 1], t)
      BY <1>3, <2>1, CoverFinds
    <2>3. PICK k : k = Walk(T, p) /\ k[1] = i /\ k[2] = c
      BY <2>2
    <2>4. PICK U : U = RemoveChild(T, i, p[c + 1])
      OBVIOUS
    <2>5. PICK s : s = <<t>>
      OBVIOUS
    <2>6. cut = <<RemoveChild(T, k[1], p[k[2] + 1]), <<t>>, 0, k[1]>>
      BY <1>3, <2>1, <2>3 DEF FindAndCut
    <2>7. cut[1] = U /\ cut[2] = s
      BY <2>3, <2>4, <2>5, <2>6
    <2>8. Held(U, B, s)
      BY <2>2, <2>4, <2>5, CutLinkHeld
    <2> QED BY <2>7, <2>8
  <1> QED BY <1>1, <1>2, <1>3

-----------------------------------------------------------------------------
(* The walks.                                                               *)

IsJob(j) ==
  \/ j = Idle
  \/ \E p, s, f, a, e : j = KeysJob(p, s, f, a, e)
  \/ \E p, s, q, t, d : j = UnlinkJob(p, s, q, t, d)

\* The slots a walk has cut off and not freed.
SlotsIn(j) == IF j.cmd = "unlink" THEN Range(j.stack) ELSE {}

SeveredBy(J, W) == UNION {SlotsIn(J[w]) : w \in W}

\* No two walks have cut off the same slot, or one twice.
Walks(J) ==
  /\ J = [w \in Workers |-> J[w]]
  /\ \A w \in Workers : IsJob(J[w]) /\ (J[w].cmd = "unlink" => Stack(J[w].stack))
  /\ \A v, w \in Workers : v # w => SlotsIn(J[v]) \cap SlotsIn(J[w]) = {}

\* A walk that goes on, whatever keys it has seen meanwhile.
SameWalk(j, k) ==
  /\ IsJob(k) /\ SlotsIn(k) = SlotsIn(j)
  /\ (k.cmd = "unlink" => j.cmd = "unlink" /\ k.stack = j.stack)

LEMMA SeveredSlots == Severed = SeveredBy(jobs, Workers)
  <1>1. \A i : i \in Severed <=> \E w \in Workers : jobs[w].cmd = "unlink" /\ i \in Range(jobs[w].stack)
    BY DEF Severed
  <1>2. \A i : i \in SeveredBy(jobs, Workers) <=> \E w \in Workers : i \in SlotsIn(jobs[w])
    BY DEF SeveredBy
  <1>3. \A w : \A i : i \in SlotsIn(jobs[w]) <=> jobs[w].cmd = "unlink" /\ i \in Range(jobs[w].stack)
    BY DEF SlotsIn
  <1> QED BY <1>1, <1>2, <1>3

LEMMA SameWalkSelf == ASSUME NEW j, IsJob(j) PROVE SameWalk(j, j)
  BY DEF SameWalk

LEMMA ObservedWalks ==
  ASSUME NEW J, \A w \in Workers : IsJob(J[w]), NEW live, NEW K, K = Observed(J, live)
  PROVE  K = [w \in Workers |-> K[w]] /\ \A w \in Workers : SameWalk(J[w], K[w])
  <1>1. K = [w \in Workers |-> K[w]]
    BY DEF Observed
  <1>2. ASSUME NEW w \in Workers PROVE SameWalk(J[w], K[w])
    <2>1. PICK j : j = J[w]
      OBVIOUS
    <2>2. PICK k : k = K[w]
      OBVIOUS
    <2>3. IsJob(j)
      BY <2>1
    <2>4. CASE j.cmd # "keys"
      <3>1. k = j
        BY <2>1, <2>2, <2>4 DEF Observed
      <3> QED BY <2>1, <2>2, <2>3, <3>1, SameWalkSelf
    <2>5. CASE j.cmd = "keys"
      <3>1. PICK p, s, f, a, e : j = KeysJob(p, s, f, a, e)
        BY <2>3, <2>5 DEF IsJob, Idle, UnlinkJob
      <3>2. k = [j EXCEPT !.always = @ \cap KeysUnder(live, j.prefix),
                          !.ever = @ \cup KeysUnder(live, j.prefix)]
        BY <2>1, <2>2, <2>5 DEF Observed
      <3>3. PICK a2 : a2 = a \cap KeysUnder(live, j.prefix)
        OBVIOUS
      <3>4. PICK e2 : e2 = e \cup KeysUnder(live, j.prefix)
        OBVIOUS
      <3>5. k = KeysJob(p, s, f, a2, e2)
        BY <3>1, <3>2, <3>3, <3>4 DEF KeysJob
      <3>6. IsJob(k) /\ k.cmd = "keys"
        BY <3>5 DEF IsJob, KeysJob
      <3>7. SlotsIn(k) = {} /\ SlotsIn(j) = {}
        BY <2>5, <3>6 DEF SlotsIn
      <3> QED BY <2>1, <2>2, <3>6, <3>7 DEF SameWalk
    <2> QED BY <2>4, <2>5
  <1> QED BY <1>1, <1>2

\* The walk of w moves, the others stay.
Moved(J, K, w) ==
  /\ K = [v \in Workers |-> K[v]]
  /\ \A v \in Workers \ {w} : SameWalk(J[v], K[v])
  /\ IsJob(K[w]) /\ (K[w].cmd = "unlink" => Stack(K[w].stack))

LEMMA SeveredSame ==
  ASSUME NEW J, NEW K, NEW W, \A v \in W : SameWalk(J[v], K[v])
  PROVE  SeveredBy(K, W) = SeveredBy(J, W)
  BY DEF SeveredBy, SameWalk

\* The roots but those of the walk of w.
Base(J, w) == {Root} \cup SeveredBy(J, Workers \ {w})

LEMMA BaseSplits ==
  ASSUME NEW J, Walks(J), NEW w \in Workers
  PROVE  /\ {Root} \cup SeveredBy(J, Workers) = Base(J, w) \cup SlotsIn(J[w])
         /\ Base(J, w) \cap SlotsIn(J[w]) = {}
  <1>1. {Root} \cup SeveredBy(J, Workers) = Base(J, w) \cup SlotsIn(J[w])
    BY DEF Base, SeveredBy
  <1>2. Root \notin SlotsIn(J[w])
    <2>1. J[w].cmd = "unlink" => Stack(J[w].stack)
      BY DEF Walks
    <2> QED BY <2>1, ConstantsAssumption DEF SlotsIn, Stack, Range
  <1>3. SeveredBy(J, Workers \ {w}) \cap SlotsIn(J[w]) = {}
    BY DEF SeveredBy, Walks
  <1> QED BY <1>1, <1>2, <1>3 DEF Base

LEMMA WalksMoved ==
  ASSUME NEW J, Walks(J), NEW w \in Workers, NEW K, Moved(J, K, w),
         Base(J, w) \cap SlotsIn(K[w]) = {}
  PROVE  Walks(K) /\ {Root} \cup SeveredBy(K, Workers) = Base(J, w) \cup SlotsIn(K[w])
  <1>1. \A v \in Workers \ {w} : SameWalk(J[v], K[v])
    BY DEF Moved
  <1>2. \A v \in Workers \ {w} : SlotsIn(K[v]) = SlotsIn(J[v])
    BY <1>1 DEF SameWalk
  <1>3. \A v \in Workers : IsJob(K[v]) /\ (K[v].cmd = "unlink" => Stack(K[v].stack))
    <2> SUFFICES ASSUME NEW v \in Workers
                 PROVE  IsJob(K[v]) /\ (K[v].cmd = "unlink" => Stack(K[v].stack))
      OBVIOUS
    <2>1. CASE v = w
      BY <2>1 DEF Moved
    <2>2. CASE v # w
      BY <1>1, <2>2 DEF SameWalk, Walks
    <2> QED BY <2>1, <2>2
  <1>4. SeveredBy(K, Workers \ {w}) = SeveredBy(J, Workers \ {w})
    BY <1>1, SeveredSame
  <1>5. \A v \in Workers \ {w} : SlotsIn(K[v]) \subseteq Base(J, w)
    BY <1>2 DEF Base, SeveredBy
  <1>6. \A u, v \in Workers : u # v => SlotsIn(K[u]) \cap SlotsIn(K[v]) = {}
    <2> SUFFICES ASSUME NEW u \in Workers, NEW v \in Workers, u # v
                 PROVE  SlotsIn(K[u]) \cap SlotsIn(K[v]) = {}
      OBVIOUS
    <2>1. CASE u = w
      BY <1>5, <2>1
    <2>2. CASE v = w
      BY <1>5, <2>2
    <2>3. CASE u # w /\ v # w
      BY <1>2, <2>3 DEF Walks
    <2> QED BY <2>1, <2>2, <2>3
  <1>7. Walks(K)
    BY <1>3, <1>6 DEF Walks, Moved
  <1>8. {Root} \cup SeveredBy(K, Workers) = Base(J, w) \cup SlotsIn(K[w])
    <2>1. SeveredBy(K, Workers) = SeveredBy(K, Workers \ {w}) \cup SlotsIn(K[w])
      BY DEF SeveredBy
    <2> QED BY <1>4, <2>1 DEF Base
  <1> QED BY <1>7, <1>8

LEMMA WalksSame ==
  ASSUME NEW J, Walks(J), NEW K, K = [v \in Workers |-> K[v]],
         \A v \in Workers : SameWalk(J[v], K[v])
  PROVE  Walks(K) /\ SeveredBy(K, Workers) = SeveredBy(J, Workers)
  <1>1. SeveredBy(K, Workers) = SeveredBy(J, Workers)
    BY SeveredSame
  <1>2. \A v \in Workers : SlotsIn(K[v]) = SlotsIn(J[v]) /\ IsJob(K[v])
    BY DEF SameWalk
  <1>3. \A v \in Workers : K[v].cmd = "unlink" => Stack(K[v].stack)
    BY DEF SameWalk, Walks
  <1> QED BY <1>1, <1>2, <1>3 DEF Walks

-----------------------------------------------------------------------------
(* The steps.                                                               *)

\* The roots of the forest are the root and what the walks have cut off.
Apiece == Walks(jobs) /\ Forest(nodes, {Root} \cup SeveredBy(jobs, Workers))

\* The steps that leave the links in order, those of the walks too.
AsyncOrderly ==
  /\ Orderly
  /\ \A w \in Workers : UnlinkStart(w, <<>>) => DOMAIN nodes[Root].overflow = {}

LEMMA OthersStep ==
  ASSUME Typed, Apiece, Others, Orderly
  PROVE  Typed' /\ Apiece'
  <1>1. Next
    BY DEF Others
  <1>2. Typed'
    BY <1>1, TypedNext
  <1>3. PICK R : R = {Root} \cup SeveredBy(jobs, Workers)
    OBVIOUS
  <1>4. Forest(nodes, R) /\ Root \in R
    BY <1>3 DEF Apiece
  <1>5. Forest(nodes', R)
    BY <1>1, <1>4, ForestStep
  <1>6. PICK live : jobs' = Observed(jobs, live)
    BY DEF Others
  <1>7. PICK K : K = jobs'
    OBVIOUS
  <1>8. K = [w \in Workers |-> K[w]] /\ \A w \in Workers : SameWalk(jobs[w], K[w])
    BY <1>6, <1>7, ObservedWalks DEF Apiece, Walks
  <1>9. Walks(K) /\ SeveredBy(K, Workers) = SeveredBy(jobs, Workers)
    BY <1>8, WalksSame DEF Apiece
  <1>10. Forest(nodes', {Root} \cup SeveredBy(K, Workers))
    BY <1>3, <1>5, <1>9
  <1> QED BY <1>2, <1>7, <1>9, <1>10 DEF Apiece

\* KEYS changes no slot, and cuts nothing off.
LEMMA KeysMoves ==
  ASSUME Apiece, NEW w \in Workers, jobs[w].cmd # "unlink", NEW k, IsJob(k), k.cmd # "unlink",
         jobs' = [jobs EXCEPT ![w] = k], UNCHANGED nodes
  PROVE  Apiece'
  <1>1. PICK K : K = jobs'
    OBVIOUS
  <1>2. jobs = [v \in Workers |-> jobs[v]] /\ \A v \in Workers : IsJob(jobs[v])
    BY DEF Apiece, Walks
  <1>3. K = [v \in Workers |-> K[v]] /\ K[w] = k /\ \A v \in Workers \ {w} : K[v] = jobs[v]
    BY <1>1, <1>2
  <1>4. SlotsIn(k) = {} /\ SlotsIn(jobs[w]) = {}
    BY DEF SlotsIn
  <1>5. \A v \in Workers : SameWalk(jobs[v], K[v])
    <2> SUFFICES ASSUME NEW v \in Workers PROVE SameWalk(jobs[v], K[v])
      OBVIOUS
    <2>1. CASE v = w
      BY <1>3, <1>4, <2>1 DEF SameWalk
    <2>2. CASE v # w
      BY <1>2, <1>3, <2>2, SameWalkSelf
    <2> QED BY <2>1, <2>2
  <1>6. Walks(K) /\ SeveredBy(K, Workers) = SeveredBy(jobs, Workers)
    BY <1>3, <1>5, WalksSame DEF Apiece
  <1>7. Forest(nodes', {Root} \cup SeveredBy(K, Workers))
    BY <1>6 DEF Apiece
  <1> QED BY <1>1, <1>6, <1>7 DEF Apiece

LEMMA KeysContinueMoves ==
  ASSUME Apiece, NEW w \in Workers, jobs[w].cmd # "unlink", NEW p, NEW s, NEW f, NEW a, NEW e,
         NEW job, job = KeysJob(p, s, f, a, e), NEW x, KeysContinue(w, job, x), UNCHANGED nodes
  PROVE  Apiece'
  <1>1. CASE x[1] = <<>>
    <2>1. jobs' = [jobs EXCEPT ![w] = Idle]
      BY <1>1 DEF KeysContinue
    <2>2. IsJob(Idle) /\ Idle.cmd # "unlink"
      BY DEF IsJob, Idle
    <2> QED BY <2>1, <2>2, KeysMoves
  <1>2. CASE x[1] # <<>>
    <2>1. PICK k : k = [job EXCEPT !.stack = x[1], !.found = x[2]]
      OBVIOUS
    <2>2. jobs' = [jobs EXCEPT ![w] = k]
      BY <1>2, <2>1 DEF KeysContinue
    <2>3. k = KeysJob(p, x[1], x[2], a, e)
      BY <2>1 DEF KeysJob
    <2>4. IsJob(k) /\ k.cmd # "unlink"
      <3>1. k.cmd = "keys"
        BY <2>3 DEF KeysJob
      <3> QED BY <2>3, <3>1 DEF IsJob
    <2> QED BY <2>2, <2>4, KeysMoves
  <1> QED BY <1>1, <1>2

LEMMA KeysStartMoves ==
  ASSUME Typed, Apiece, NEW w \in Workers, NEW p, KeysStart(w, p)
  PROVE  Typed' /\ Apiece'
  <1>1. Typed'
    BY DEF KeysStart, Typed, Tree
  <1>2. PICK there : there = KeysUnder(LiveEntries(nodes), p)
    OBVIOUS
  <1>3. PICK none : none = <<>>
    OBVIOUS
  <1>4. PICK job : job = KeysJob(p, none, {}, there, there)
    OBVIOUS
  <1>5. \E x : KeysContinue(w, job, x)
    BY <1>2, <1>3, <1>4 DEF KeysStart
  <1>6. jobs[w].cmd # "unlink" /\ UNCHANGED nodes
    BY DEF KeysStart, Idle
  <1> QED BY <1>1, <1>4, <1>5, <1>6, KeysContinueMoves

LEMMA KeysStepMoves ==
  ASSUME Typed, Apiece, NEW w \in Workers, KeysStep(w)
  PROVE  Typed' /\ Apiece'
  <1>1. Typed'
    BY DEF KeysStep, Typed, Tree
  <1>2. jobs[w].cmd = "keys" /\ UNCHANGED nodes
    BY DEF KeysStep
  <1>3. PICK job : job = jobs[w]
    OBVIOUS
  <1>4. PICK p, s, f, a, e : job = KeysJob(p, s, f, a, e)
    <2>1. IsJob(job) /\ job.cmd = "keys"
      BY <1>2, <1>3 DEF Apiece, Walks
    <2> QED BY <2>1 DEF IsJob, Idle, UnlinkJob
  <1>5. PICK x : KeysContinue(w, job, x)
    BY <1>3 DEF KeysStep
  <1>6. jobs[w].cmd # "unlink"
    BY <1>2
  <1> QED BY <1>1, <1>2, <1>4, <1>5, <1>6, KeysContinueMoves

\* UNLINK goes on with what it has cut off and not freed.
LEMMA UnlinkContinueMoves ==
  ASSUME Typed, Walks(jobs), NEW w \in Workers, NEW p, NEW s, NEW q, NEW t, NEW d,
         NEW job, job = UnlinkJob(p, s, q, t, d),
         NEW x, Held(x[1], Base(jobs, w), x[2]), UnlinkContinue(w, job, x)
  PROVE  Typed' /\ Apiece'
  <1>1. PICK V : V = x[1]
    OBVIOUS
  <1>2. PICK u : u = x[2]
    OBVIOUS
  <1>3. PICK B : B = Base(jobs, w)
    OBVIOUS
  <1>4. Tree(V) /\ Stack(u) /\ Forest(V, B \cup Range(u)) /\ B \cap Range(u) = {}
    BY <1>1, <1>2, <1>3 DEF Held
  <1>5. PICK T : /\ T = IF u = <<>> /\ q # Root THEN Recompress(V, q) ELSE V
                 /\ Update(T)
                 /\ \E live : jobs' = [Observed(jobs, live) EXCEPT ![w] =
                                IF u = <<>> THEN Idle
                                ELSE [job EXCEPT !.stack = u, !.total = x[3]]]
    <2>1. job.parent = q
      BY DEF UnlinkJob
    <2> QED BY <1>1, <1>2, <2>1 DEF UnlinkContinue
  <1>6. Tree(T) /\ Forest(T, B \cup Range(u))
    <2>1. Tree(Recompress(V, q)) /\ Forest(Recompress(V, q), B \cup Range(u))
      BY <1>4, RecompressType, ForestRecompress
    <2> QED BY <1>4, <1>5, <2>1
  <1>7. UNCHANGED <<now, panicked>>
    BY DEF UnlinkContinue
  <1>8. nodes' = T /\ Kept
    BY <1>5, <1>7, UpdateKeeps
  <1>9. Typed'
    <2>1. Tree(nodes)'
      BY <1>6, <1>8 DEF Tree
    <2> QED BY <1>8, <2>1 DEF Typed, Kept
  <1>10. PICK k : k = IF u = <<>> THEN Idle ELSE [job EXCEPT !.stack = u, !.total = x[3]]
    OBVIOUS
  <1>11. IsJob(k) /\ (k.cmd = "unlink" => Stack(k.stack)) /\ SlotsIn(k) = Range(u)
    <2>1. CASE u = <<>>
      <3>1. k = Idle /\ Range(u) = {}
        BY <1>10, <2>1, NoStack
      <3> QED BY <3>1 DEF IsJob, SlotsIn, Idle
    <2>2. CASE u # <<>>
      <3>1. k = UnlinkJob(p, u, q, x[3], d)
        BY <1>10, <2>2 DEF UnlinkJob
      <3>2. k.cmd = "unlink" /\ k.stack = u
        BY <3>1 DEF UnlinkJob
      <3> QED BY <1>4, <3>1, <3>2 DEF IsJob, SlotsIn
    <2> QED BY <2>1, <2>2
  <1>12. PICK live : jobs' = [Observed(jobs, live) EXCEPT ![w] = k]
    BY <1>5, <1>10
  <1>13. PICK J : J = Observed(jobs, live)
    OBVIOUS
  <1>14. J = [v \in Workers |-> J[v]] /\ \A v \in Workers : SameWalk(jobs[v], J[v])
    BY <1>13, ObservedWalks DEF Walks
  <1>15. PICK K : K = jobs'
    OBVIOUS
  <1>16. K = [v \in Workers |-> K[v]] /\ K[w] = k /\ \A v \in Workers \ {w} : K[v] = J[v]
    BY <1>12, <1>13, <1>14, <1>15
  <1>17. Moved(jobs, K, w)
    BY <1>11, <1>14, <1>16 DEF Moved
  <1>18. Walks(K) /\ {Root} \cup SeveredBy(K, Workers) = B \cup Range(u)
    <2>1. Base(jobs, w) \cap SlotsIn(K[w]) = {}
      BY <1>3, <1>4, <1>11, <1>16
    <2> QED BY <1>3, <1>11, <1>16, <1>17, <2>1, WalksMoved
  <1>19. Forest(nodes', {Root} \cup SeveredBy(K, Workers))
    BY <1>6, <1>8, <1>18
  <1> QED BY <1>9, <1>15, <1>18, <1>19 DEF Apiece

LEMMA UnlinkStartMoves ==
  ASSUME Typed, Apiece, NEW w \in Workers, NEW p \in PrefixArgs, UnlinkStart(w, p), AsyncOrderly
  PROVE  Typed' /\ Apiece'
  <1>1. Walks(jobs) /\ Tree(nodes) /\ p \in Seq(Radixes)
    BY KeysAreSeqs DEF Apiece, Typed
  <1>2. PICK B : B = Base(jobs, w)
    OBVIOUS
  <1>3. Root \in B
    BY <1>2 DEF Base
  <1>4. Forest(nodes, B)
    <2>1. SlotsIn(jobs[w]) = {}
      BY DEF UnlinkStart, Idle, SlotsIn
    <2>2. {Root} \cup SeveredBy(jobs, Workers) = B
      BY <1>1, <1>2, <2>1, BaseSplits
    <2> QED BY <2>2 DEF Apiece
  <1>5. p = <<>> => DOMAIN nodes[Root].overflow = {}
    BY DEF AsyncOrderly
  <1>6. PICK cut \in FindAndCut(nodes, p) : \E due : \E x \in FreeChunk(cut[1], cut[2], cut[3]) :
          UnlinkContinue(w, UnlinkJob(p, <<>>, cut[4], 0, due), x)
    BY DEF UnlinkStart
  <1>7. Held(cut[1], B, cut[2])
    BY <1>1, <1>3, <1>4, <1>5, FindAndCutHeld
  <1>8. PICK none : none = <<>>
    OBVIOUS
  <1>9. PICK due : \E x \in FreeChunk(cut[1], cut[2], cut[3]) :
          UnlinkContinue(w, UnlinkJob(p, none, cut[4], 0, due), x)
    BY <1>6, <1>8
  <1>10. PICK x \in FreeChunk(cut[1], cut[2], cut[3]) :
           UnlinkContinue(w, UnlinkJob(p, none, cut[4], 0, due), x)
    BY <1>9
  <1>11. Held(x[1], B, x[2])
    BY <1>3, <1>7, <1>10, FreeChunkHeld
  <1>12. PICK job : job = UnlinkJob(p, none, cut[4], 0, due)
    OBVIOUS
  <1>13. UnlinkContinue(w, job, x)
    BY <1>10, <1>12
  <1> QED BY <1>1, <1>2, <1>11, <1>12, <1>13, UnlinkContinueMoves

LEMMA UnlinkStepMoves ==
  ASSUME Typed, Apiece, NEW w \in Workers, UnlinkStep(w)
  PROVE  Typed' /\ Apiece'
  <1>1. Walks(jobs) /\ Tree(nodes)
    BY DEF Apiece, Typed
  <1>2. PICK B : B = Base(jobs, w)
    OBVIOUS
  <1>3. Root \in B
    BY <1>2 DEF Base
  <1>4. PICK job : job = jobs[w]
    OBVIOUS
  <1>5. job.cmd = "unlink" /\ IsJob(job) /\ Stack(job.stack)
    BY <1>1, <1>4 DEF UnlinkStep, Walks
  <1>6. PICK p, s, q, t, d : job = UnlinkJob(p, s, q, t, d)
    BY <1>5 DEF IsJob, Idle, KeysJob
  <1>7. Held(nodes, B, job.stack)
    <2>1. SlotsIn(jobs[w]) = Range(job.stack)
      BY <1>4, <1>5 DEF SlotsIn
    <2>2. /\ {Root} \cup SeveredBy(jobs, Workers) = B \cup Range(job.stack)
          /\ B \cap Range(job.stack) = {}
      BY <1>1, <1>2, <2>1, BaseSplits
    <2> QED BY <1>1, <1>5, <2>2 DEF Apiece, Held
  <1>8. PICK x \in FreeChunk(nodes, job.stack, job.total) : UnlinkContinue(w, job, x)
    BY <1>4 DEF UnlinkStep
  <1>9. Held(x[1], B, x[2])
    BY <1>3, <1>7, <1>8, FreeChunkHeld
  <1> QED BY <1>1, <1>2, <1>6, <1>8, <1>9, UnlinkContinueMoves

LEMMA ApieceNext ==
  ASSUME Typed, Apiece, [AsyncNext /\ AsyncOrderly]_asyncVars
  PROVE  Typed' /\ Apiece'
  <1>1. CASE UNCHANGED asyncVars
    <2>1. UNCHANGED vars /\ UNCHANGED jobs
      BY <1>1 DEF asyncVars
    <2>2. Typed'
      BY <2>1, TypedNext
    <2>3. nodes' = nodes
      BY <2>1 DEF vars
    <2> QED BY <2>1, <2>2, <2>3 DEF Apiece
  <1>2. CASE AsyncNext /\ AsyncOrderly
    <2>1. CASE Others
      BY <1>2, <2>1, OthersStep DEF AsyncOrderly
    <2>2. ASSUME NEW w \in Workers, NEW p \in PrefixArgs, KeysStart(w, p) PROVE Typed' /\ Apiece'
      BY <2>2, KeysStartMoves
    <2>3. ASSUME NEW w \in Workers, NEW p \in PrefixArgs, UnlinkStart(w, p) PROVE Typed' /\ Apiece'
      BY <1>2, <2>3, UnlinkStartMoves
    <2>4. ASSUME NEW w \in Workers, KeysStep(w) PROVE Typed' /\ Apiece'
      BY <2>4, KeysStepMoves
    <2>5. ASSUME NEW w \in Workers, UnlinkStep(w) PROVE Typed' /\ Apiece'
      BY <2>5, UnlinkStepMoves
    <2> QED BY <1>2, <2>1, <2>2, <2>3, <2>4, <2>5 DEF AsyncNext
  <1> QED BY <1>1, <1>2

LEMMA ApieceInit == AsyncInit => Typed /\ Apiece
  <1> SUFFICES ASSUME AsyncInit PROVE Typed /\ Apiece
    OBVIOUS
  <1>1. Init /\ jobs = [w \in Workers |-> Idle]
    BY DEF AsyncInit
  <1>2. Typed /\ Forest(nodes, {Root})
    BY <1>1, TypedInit, ForestInit
  <1>3. IsJob(Idle) /\ SlotsIn(Idle) = {} /\ Idle.cmd # "unlink"
    BY DEF IsJob, SlotsIn, Idle
  <1>4. \A w \in Workers : jobs[w] = Idle
    BY <1>1
  <1>5. Walks(jobs)
    BY <1>1, <1>3, <1>4 DEF Walks
  <1>6. SeveredBy(jobs, Workers) = {}
    BY <1>3, <1>4 DEF SeveredBy
  <1>7. {Root} \cup SeveredBy(jobs, Workers) = {Root}
    BY <1>6
  <1> QED BY <1>2, <1>5, <1>7 DEF Apiece

LEMMA ApieceSevered == Apiece => SeveredApart
  <1> SUFFICES ASSUME Apiece PROVE SeveredApart
    OBVIOUS
  <1>1. PICK R : R = {Root} \cup Severed
    OBVIOUS
  <1>2. Graph(nodes, R) /\ Walks(jobs)
    BY <1>1, SeveredSlots DEF Apiece, Forest
  <1>3. \A w \in Workers : jobs[w].cmd = "unlink" => Range(jobs[w].stack) = SlotsIn(jobs[w])
    BY DEF SlotsIn
  <1>4. \A w \in Workers : SlotsIn(jobs[w]) \subseteq R
    BY <1>1, SeveredSlots DEF SeveredBy
  <1>5. Root \notin Severed
    <2>1. \A w \in Workers : Root \notin SlotsIn(jobs[w])
      BY <1>2, BaseSplits DEF Base
    <2> QED BY <2>1, SeveredSlots DEF SeveredBy
  <1>6. Subtree(nodes, {Root}) \cap Subtree(nodes, Severed) = {}
    <2>1. {Root} \subseteq R /\ Severed \subseteq R /\ {Root} \cap Severed = {}
      BY <1>1, <1>5
    <2> QED BY <1>2, <2>1, GraphDisjoint
  <1>7. Subtree(nodes, {Root}) \cup Subtree(nodes, Severed) = DOMAIN nodes
    <2>1. PICK A : A = Subtree(nodes, {Root})
      OBVIOUS
    <2>2. PICK S : S = Subtree(nodes, Severed)
      OBVIOUS
    <2>3. A \in SUBSET DOMAIN nodes /\ {Root} \cap DOMAIN nodes \subseteq A /\ Closed(nodes, A)
      BY <2>1, SubtreeLeast
    <2>4. S \in SUBSET DOMAIN nodes /\ Severed \cap DOMAIN nodes \subseteq S /\ Closed(nodes, S)
      BY <2>2, SubtreeLeast
    <2>5. R \subseteq A \cup S
      BY <1>1, <1>2, <2>3, <2>4 DEF Graph
    <2>6. Closed(nodes, A \cup S)
      BY <2>3, <2>4 DEF Closed
    <2>7. A \cup S \in SUBSET DOMAIN nodes
      BY <2>3, <2>4
    <2> QED BY <1>2, <2>1, <2>2, <2>5, <2>6, <2>7 DEF Graph
  <1>8. \A i \in DOMAIN nodes : ChildIdxs(nodes[i]) \subseteq DOMAIN nodes
    BY <1>2, ChildIdxsLink DEF Graph
  <1>9. ASSUME NEW v \in Workers, NEW w \in Workers, v # w,
               jobs[v].cmd = "unlink", jobs[w].cmd = "unlink"
        PROVE  Subtree(nodes, Range(jobs[v].stack)) \cap Subtree(nodes, Range(jobs[w].stack)) = {}
    <2>1. PICK A : A = Range(jobs[v].stack)
      OBVIOUS
    <2>2. PICK S : S = Range(jobs[w].stack)
      OBVIOUS
    <2>3. A \subseteq R /\ S \subseteq R /\ A \cap S = {}
      BY <1>2, <1>3, <1>4, <1>9, <2>1, <2>2 DEF Walks
    <2> QED BY <1>2, <2>1, <2>2, <2>3, GraphDisjoint
  <1> QED BY <1>6, <1>7, <1>8, <1>9 DEF SeveredApart

\* As long as no FLUSHDB or UNLINK of everything meets an overflow list at the
\* root and the evictor meets no leaf that is not where it remembers to hang
\* (Orderly), no interleaving of UNLINK chunks with each other, with KEYS and
\* with the operations of other connections shares, leaks or frees twice a
\* node: every slot is below the root or below what exactly one UNLINK has cut
\* off (find_and_cut_prefix, free_chunk, try_recompress after the last chunk).
THEOREM UnlinkKeepsApart == AsyncSpec /\ [][AsyncOrderly]_asyncVars => []SeveredApart
  <1>1. Typed /\ Apiece /\ [AsyncNext]_asyncVars /\ [AsyncOrderly]_asyncVars => Typed' /\ Apiece'
    BY ApieceNext
  <1> QED BY <1>1, ApieceInit, ApieceSevered, PTL DEF AsyncSpec

-----------------------------------------------------------------------------
(* The entries while UNLINK frees.                                          *)

LEMMA UnlinkContinueAgrees ==
  ASSUME NEW w, NEW job, NEW B, NEW x, Held(x[1], B, x[2]), UnlinkContinue(w, job, x),
         NEW W, W = nodes'
  PROVE  Tree(W) /\ Apart(W) /\ Agree(x[1], W)
  <1>1. PICK V : V = x[1]
    OBVIOUS
  <1>2. PICK q : q = job.parent
    OBVIOUS
  <1>3. PICK R : R = B \cup Range(x[2])
    OBVIOUS
  <1>4. Tree(V) /\ Forest(V, R)
    BY <1>1, <1>3 DEF Held
  <1>5. W = V \/ (q # Root /\ W = Recompress(V, q))
    BY <1>1, <1>2 DEF UnlinkContinue, Update
  <1>6. CASE W = V
    BY <1>1, <1>4, <1>6, AgreeSelf DEF Forest
  <1>7. CASE q # Root /\ W = Recompress(V, q)
    <2>1. Tree(W) /\ Forest(W, R)
      BY <1>4, <1>7, RecompressType, ForestRecompress
    <2>2. ASSUME NEW key \in Seq(Radixes), NEW v, NEW e PROVE Has(V, key, v, e) <=> Has(W, key, v, e)
      <3>1. key \in Seq(Radixes)
        BY KeysAreSeqs
      <3> QED BY <1>4, <1>7, <3>1, RecompressHas
    <2> QED BY <1>1, <2>1, <2>2 DEF Agree, Forest
  <1> QED BY <1>5, <1>6, <1>7

\* What a chunk of w starts from.
LEMMA UnlinkHolds ==
  ASSUME Typed, Apiece, NEW w \in Workers, jobs[w].cmd = "unlink"
  PROVE  Root \in Base(jobs, w) /\ Held(nodes, Base(jobs, w), jobs[w].stack)
  <1>1. Walks(jobs) /\ Tree(nodes)
    BY DEF Apiece, Typed
  <1>2. PICK B : B = Base(jobs, w)
    OBVIOUS
  <1>3. Stack(jobs[w].stack)
    BY <1>1 DEF Walks
  <1>4. SlotsIn(jobs[w]) = Range(jobs[w].stack)
    BY DEF SlotsIn
  <1>5. /\ {Root} \cup SeveredBy(jobs, Workers) = B \cup Range(jobs[w].stack)
        /\ B \cap Range(jobs[w].stack) = {}
    BY <1>1, <1>2, <1>4, BaseSplits
  <1>6. Held(nodes, B, jobs[w].stack)
    BY <1>1, <1>3, <1>5 DEF Apiece, Held
  <1>7. Root \in B
    BY <1>2 DEF Base
  <1> QED BY <1>2, <1>6, <1>7

LEMMA ChunkAgrees ==
  ASSUME Typed, Apiece, NEW w \in Workers, UnlinkStep(w)
  PROVE  \E T \in {nodes'} : Entries(T) = Entries(nodes)
  <1>1. PICK B : B = Base(jobs, w)
    OBVIOUS
  <1>2. PICK s : s = jobs[w].stack
    OBVIOUS
  <1>3. Root \in B /\ Held(nodes, B, s)
    BY <1>1, <1>2, UnlinkHolds DEF UnlinkStep
  <1>4. PICK x \in FreeChunk(nodes, s, jobs[w].total) : UnlinkContinue(w, jobs[w], x)
    BY <1>2 DEF UnlinkStep
  <1>5. Held(x[1], B, x[2]) /\ Agree(nodes, x[1])
    BY <1>3, <1>4, FreeChunkHeld
  <1>6. PICK W : W = nodes'
    OBVIOUS
  <1>7. Tree(W) /\ Apart(W) /\ Agree(x[1], W)
    BY <1>4, <1>5, <1>6, UnlinkContinueAgrees
  <1>8. Agree(nodes, W)
    BY <1>5, <1>7, AgreeChain
  <1>9. Tree(nodes) /\ Apart(nodes)
    BY <1>3 DEF Held, Forest
  <1>10. Entries(W) = Entries(nodes)
    BY <1>7, <1>8, <1>9, SameEntries
  <1> QED BY <1>6, <1>10

LEMMA ApieceAlways == AsyncSpec /\ [][AsyncOrderly]_asyncVars => [](Typed /\ Apiece)
  <1>1. Typed /\ Apiece /\ [AsyncNext]_asyncVars /\ [AsyncOrderly]_asyncVars => Typed' /\ Apiece'
    BY ApieceNext
  <1> QED BY <1>1, ApieceInit, PTL DEF AsyncSpec

\* As long as the links are in order (AsyncOrderly), no later chunk of an
\* UNLINK, nor the merge of the parent that ends it, changes an entry, whatever
\* other connections have written since the prefix was cut off: not even where
\* they have written below the same prefix again (free_chunk, try_recompress
\* in deln_async).
THEOREM ChunksSpare == AsyncSpec /\ [][AsyncOrderly]_asyncVars => ChunksSpareEntries
  <1>1. Typed /\ Apiece =>
          [\A w \in Workers : UnlinkStep(w) =>
             \E T \in {nodes'} : Entries(T) = Entries(nodes)]_asyncVars
    BY ChunkAgrees
  <1> QED BY <1>1, ApieceAlways, PTL DEF ChunksSpareEntries

-----------------------------------------------------------------------------
(* The entries once a prefix is cut off.                                    *)

\* The whole tree: what hangs from the root.
LEMMA CutRootTrims ==
  ASSUME NEW T, Tree(T), NEW R, Graph(T, R), DOMAIN T[Root].overflow = {},
         NEW U, U = [T EXCEPT ![Root].childs = <<>>], Tree(U), NEW S, S = DOMAIN T \ {Root}
  PROVE  Trimmed(T, U, S) /\ U[Root].val = T[Root].val /\ U[Root].exp = T[Root].exp
  <1>1. Root \in DOMAIN T /\ T[Root] \in Nodes
    BY DEF Tree
  <1>2. /\ DOMAIN U = DOMAIN T
        /\ U[Root].compression = T[Root].compression
        /\ U[Root].val = T[Root].val /\ U[Root].exp = T[Root].exp
        /\ U[Root].overflow = T[Root].overflow /\ DOMAIN U[Root].childs = {}
    <2>1. PICK none : none = <<>> /\ DOMAIN none = {}
      BY NoChild
    <2>2. PICK n : n = [T[Root] EXCEPT !.childs = none]
      OBVIOUS
    <2>3. /\ n.childs = none /\ n.overflow = T[Root].overflow /\ n.val = T[Root].val
          /\ n.exp = T[Root].exp /\ n.compression = T[Root].compression
      BY <1>1, <2>2 DEF Nodes
    <2>4. U = [T EXCEPT ![Root] = n]
      BY <1>1, <2>1, <2>2
    <2>5. DOMAIN U = DOMAIN T /\ U[Root] = n
      BY <1>1, <2>4
    <2> QED BY <2>1, <2>3, <2>5
  <1>3. Closed(T, S)
    BY LinkType DEF Closed
  <1>4. \A r, j : ~Link(U, Root, r, j)
    BY <1>2 DEF Link
  <1>5. ASSUME NEW i, NEW r, NEW j, i \notin S
        PROVE  Link(U, i, r, j) <=> Link(T, i, r, j) /\ j \notin S
    <2>1. CASE i = Root
      <3>1. Link(T, Root, r, j) => j \in S
        BY LinkType DEF Graph
      <3> QED BY <1>4, <2>1, <3>1
    <2>2. CASE i # Root
      BY <1>2, <1>5, <2>2 DEF Link
    <2> QED BY <2>1, <2>2
  <1>6. Root \notin S /\ DOMAIN T \ S \subseteq DOMAIN U /\ DOMAIN U \ S = {Root}
    BY <1>1, <1>2
  <1>7. \A x \in DOMAIN U \ S : U[x].compression = T[x].compression
    BY <1>2, <1>6
  <1>8. Trimmed(T, U, S)
    BY <1>2, <1>3, <1>5, <1>6, <1>7 DEF Trimmed
  <1> QED BY <1>2, <1>8

\* One link, from i by q to t: what hangs from t.
LEMMA CutLinkTrims ==
  ASSUME NEW T, Tree(T), NEW R, Forest(T, R), NEW i, NEW q, NEW S, Pendant(T, R, S, i, q),
         Root \in R, NEW U, U = RemoveChild(T, i, q)
  PROVE  /\ Trimmed(T, U, S)
         /\ \A x \in DOMAIN U \ S : U[x].val = T[x].val /\ U[x].exp = T[x].exp
  <1>1. Dropped(T, U, i, q)
    BY RemoveChildShape
  <1>2. Tree(U) /\ DOMAIN U = DOMAIN T /\ i \in DOMAIN T
    BY <1>1 DEF Dropped, Pendant
  <1>3. \A x \in DOMAIN T : /\ U[x].val = T[x].val /\ U[x].exp = T[x].exp
                            /\ U[x].compression = T[x].compression
    BY <1>1 DEF Dropped
  <1>4. \A x, r, j : Link(U, x, r, j) <=> Link(T, x, r, j) /\ ~(x = i /\ r = q)
    BY <1>1, DroppedLinks DEF Forest
  <1>5. PICK t \in S : Link(T, i, q, t)
    BY DEF Pendant
  <1>6. ASSUME NEW x, NEW r, NEW j, x \notin S, Link(T, x, r, j)
        PROVE  j \in S <=> (x = i /\ r = q)
    <2>1. j \in S => x = i /\ r = q
      BY <1>6 DEF Pendant
    <2>2. x = i /\ r = q => j = t
      BY <1>5, <1>6, LinkFunctional DEF Forest
    <2> QED BY <1>5, <2>1, <2>2
  <1>7. Root \notin S /\ Closed(T, S)
    BY DEF Pendant
  <1>8. Trimmed(T, U, S)
    BY <1>2, <1>3, <1>4, <1>6, <1>7 DEF Trimmed
  <1> QED BY <1>2, <1>3, <1>8

LEMMA FindAndCutLoses ==
  ASSUME NEW T, Tree(T), NEW R, Forest(T, R), Root \in R, NEW p \in Seq(Radixes),
         p = <<>> => DOMAIN T[Root].overflow = {} /\ ~HasVal(T[Root]),
         NEW cut \in FindAndCut(T, p), Tree(cut[1]), NEW D, D = {k \in Seq(Radixes) : IsPrefix(p, k)}
  PROVE  Loses(T, cut[1], D)
  <1> SUFFICES ASSUME NEW key \in Seq(Radixes), NEW v, NEW e
               PROVE  Has(cut[1], key, v, e) <=> Has(T, key, v, e) /\ key \notin D
    BY DEF Loses
  <1>0. key \in Seq(Radixes)
    BY KeysAreSeqs
  <1>1. CASE p = <<>>
    <2>1. PICK U : U = [T EXCEPT ![Root].childs = <<>>]
      OBVIOUS
    <2>2. cut[1] = U
      <3>1. PICK s \in SetToSeqs(ChildIdxs(T[Root])) :
              cut = <<[T EXCEPT ![Root].childs = <<>>], s,
                      IF GetValue(T[Root]) # Nil THEN 1 ELSE 0, Root>>
        BY <1>1 DEF FindAndCut
      <3> QED BY <2>1, <3>1
    <2>3. PICK S : S = DOMAIN T \ {Root}
      OBVIOUS
    <2>4. Tree(U) /\ Graph(T, R)
      BY <2>2 DEF Forest
    <2>5. Trimmed(T, U, S) /\ U[Root].val = T[Root].val /\ U[Root].exp = T[Root].exp
      BY <1>1, <2>1, <2>3, <2>4, CutRootTrims
    <2>6. \A j : Hit(U, key, j) => j = Root
      <3>1. \A j : Hit(U, key, j) => Hit(T, key, j) /\ j \notin S
        BY <1>0, <2>5, TrimmedHits
      <3>2. \A j : Hit(T, key, j) => j \in DOMAIN T
        BY <1>0, HitType
      <3> QED BY <2>3, <3>1, <3>2
    <2>7. ~Has(U, key, v, e)
      BY <1>1, <2>5, <2>6 DEF Has, HasVal
    <2>8. key \in D
      <3>1. Len(p) = 0 /\ Len(key) \in Nat
        BY <1>0, <1>1
      <3>2. Same(p, key, Len(p))
        BY <3>1 DEF Same
      <3>3. IsPrefix(p, key)
        BY <1>0, <3>2, PrefixIsSame
      <3> QED BY <3>3
    <2> QED BY <2>2, <2>7, <2>8
  <1>2. CASE p # <<>> /\ Cover(T, p) = Nil
    <2>1. cut[1] = T
      BY <1>2 DEF FindAndCut
    <2>2. ASSUME Has(T, key, v, e) PROVE key \notin D
      <3>1. PICK j : Hit(T, key, j)
        BY <2>2 DEF Has
      <3>2. ~IsPrefix(p, key)
        BY <1>0, <1>2, <3>1, NoCover DEF Forest
      <3> QED BY <3>2
    <2> QED BY <2>1, <2>2
  <1>3. CASE p # <<>> /\ Cover(T, p) # Nil
    <2>1. PICK t : t = Cover(T, p)
      OBVIOUS
    <2>2. PICK i \in DOMAIN T, c \in 0 .. Len(p) - 1 :
            Walk(T, p) = <<i, c, t>> /\ Link(T, i, p[c + 1], t)
      BY <1>3, <2>1, CoverFinds
    <2>3. PICK w : w = Walk(T, p) /\ w[1] = i /\ w[2] = c
      BY <2>2
    <2>4. PICK U : U = RemoveChild(T, i, p[c + 1])
      OBVIOUS
    <2>5. cut = <<RemoveChild(T, w[1], p[w[2] + 1]), <<t>>, 0, w[1]>>
      BY <1>3, <2>1, <2>3 DEF FindAndCut
    <2>6. cut[1] = U
      BY <2>3, <2>4, <2>5
    <2>7. PICK S : S = Subtree(T, {t})
      OBVIOUS
    <2>8. Pendant(T, R, S, i, p[c + 1])
      BY <2>2, <2>7, SubtreePendant DEF Forest
    <2>9. Trimmed(T, U, S) /\ \A x \in DOMAIN U \ S : U[x].val = T[x].val /\ U[x].exp = T[x].exp
      BY <2>4, <2>8, CutLinkTrims
    <2>10. Has(U, key, v, e) <=> v # Nil /\ \E j : /\ Hit(T, key, j) /\ j \notin S
                                                   /\ T[j].val = v /\ T[j].exp = e
      BY <1>0, <2>9, TrimmedHas
    <2>11. ASSUME NEW j, Hit(T, key, j) PROVE j \in S <=> key \in D
      BY <1>0, <1>3, <2>1, <2>7, <2>11, CoverHits
    <2> QED BY <2>6, <2>10, <2>11 DEF Has
  <1> QED BY <1>1, <1>2, <1>3

\* The first chunk of an UNLINK that does not start at a root with a value.
RootIsNoKey == \A w \in Workers : UnlinkStart(w, <<>>) => ~HasVal(nodes[Root])

\* What the first chunk of w starts from.
LEMMA IdleHolds ==
  ASSUME Typed, Apiece, NEW w \in Workers, jobs[w] = Idle, NEW B, B = Base(jobs, w)
  PROVE  Root \in B /\ Tree(nodes) /\ Forest(nodes, B)
  <1>1. Walks(jobs) /\ Tree(nodes)
    BY DEF Apiece, Typed
  <1>2. SlotsIn(jobs[w]) = {}
    BY DEF Idle, SlotsIn
  <1>3. {Root} \cup SeveredBy(jobs, Workers) = B
    BY <1>1, <1>2, BaseSplits
  <1> QED BY <1>1, <1>3 DEF Apiece, Base

LEMMA LosesAgrees ==
  ASSUME NEW T, NEW U, NEW W, NEW D, Loses(T, U, D), Agree(U, W)
  PROVE  Loses(T, W, D)
  BY DEF Loses, Agree

LEMMA UnderPrefix ==
  ASSUME NEW T, NEW p, NEW D, D = {k \in Seq(Radixes) : IsPrefix(p, k)}
  PROVE  DOMAIN Entries(T) \ D = DOMAIN Entries(T) \ KeysUnder(Entries(T), p)
  <1>0. DOMAIN Entries(T) = HeldBy(T)
    BY EntriesAre
  <1>1. \A k \in DOMAIN Entries(T) : k \in Keys
    BY <1>0 DEF HeldBy
  <1>2. \A k \in DOMAIN Entries(T) : k \in D <=> k \in KeysUnder(Entries(T), p)
    BY <1>1, KeysAreSeqs DEF KeysUnder
  <1> QED BY <1>2

LEMMA StartHides ==
  ASSUME Typed, Apiece, NEW w \in Workers, NEW p \in PrefixArgs, UnlinkStart(w, p),
         AsyncOrderly, RootIsNoKey
  PROVE  \E T \in {nodes'} :
           Entries(T) = Restrict(Entries(nodes),
                                 DOMAIN Entries(nodes) \ KeysUnder(Entries(nodes), p))
  <1>1. PICK B : B = Base(jobs, w)
    OBVIOUS
  <1>2. Root \in B /\ Tree(nodes) /\ Forest(nodes, B)
    BY <1>1, IdleHolds DEF UnlinkStart
  <1>3. p \in Seq(Radixes)
    BY KeysAreSeqs
  <1>4. p = <<>> => DOMAIN nodes[Root].overflow = {} /\ ~HasVal(nodes[Root])
    BY DEF AsyncOrderly, RootIsNoKey
  <1>5. PICK cut \in FindAndCut(nodes, p) : \E due : \E x \in FreeChunk(cut[1], cut[2], cut[3]) :
          UnlinkContinue(w, UnlinkJob(p, <<>>, cut[4], 0, due), x)
    BY DEF UnlinkStart
  <1>6. Held(cut[1], B, cut[2])
    BY <1>2, <1>3, <1>4, FindAndCutHeld
  <1>7. PICK D : D = {k \in Seq(Radixes) : IsPrefix(p, k)}
    OBVIOUS
  <1>8. Loses(nodes, cut[1], D)
    <2>1. Tree(cut[1])
      BY <1>6 DEF Held
    <2> QED BY <1>2, <1>3, <1>4, <1>7, <2>1, FindAndCutLoses
  <1>9. PICK none : none = <<>>
    OBVIOUS
  <1>10. PICK due : \E x \in FreeChunk(cut[1], cut[2], cut[3]) :
           UnlinkContinue(w, UnlinkJob(p, none, cut[4], 0, due), x)
    BY <1>5, <1>9
  <1>11. PICK x \in FreeChunk(cut[1], cut[2], cut[3]) :
           UnlinkContinue(w, UnlinkJob(p, none, cut[4], 0, due), x)
    BY <1>10
  <1>12. Held(x[1], B, x[2]) /\ Agree(cut[1], x[1])
    BY <1>2, <1>6, <1>11, FreeChunkHeld
  <1>13. PICK W : W = nodes'
    OBVIOUS
  <1>14. Tree(W) /\ Apart(W) /\ Agree(x[1], W)
    BY <1>11, <1>12, <1>13, UnlinkContinueAgrees
  <1>15. Loses(nodes, W, D)
    BY <1>8, <1>12, <1>14, AgreeChain, LosesAgrees
  <1>16. Entries(W) = Restrict(Entries(nodes), DOMAIN Entries(nodes) \ D)
    BY <1>2, <1>14, <1>15, LosesEntries DEF Forest
  <1>17. DOMAIN Entries(nodes) \ D = DOMAIN Entries(nodes) \ KeysUnder(Entries(nodes), p)
    BY <1>7, UnderPrefix
  <1>18. Entries(W) = Restrict(Entries(nodes),
                               DOMAIN Entries(nodes) \ KeysUnder(Entries(nodes), p))
    BY <1>16, <1>17
  <1> QED BY <1>13, <1>18

\* As long as the links are in order, the first chunk of an UNLINK takes every
\* key below the prefix out of the entries at once, however deep it lies and
\* however many chunks it takes to free it, and leaves every other entry with
\* its value and its deadline (find_and_cut_prefix, the first free_chunk and
\* try_recompress in deln_async).  Without a prefix the code keeps the value at
\* the root, so there must be none (RootIsNoKey).
THEOREM UnlinkHides ==
  AsyncSpec /\ [][AsyncOrderly]_asyncVars /\ [][RootIsNoKey]_asyncVars => UnlinkHidesPrefix
  <1>1. Typed /\ Apiece /\ [AsyncOrderly]_asyncVars /\ [RootIsNoKey]_asyncVars =>
          [\A w \in Workers, p \in PrefixArgs : UnlinkStart(w, p) =>
             \E T \in {nodes'} :
               Entries(T) = Restrict(Entries(nodes),
                              DOMAIN Entries(nodes) \ KeysUnder(Entries(nodes), p))]_asyncVars
    BY StartHides
  <1> QED BY <1>1, ApieceAlways, PTL DEF UnlinkHidesPrefix
===============================================================================
