---------------------------- MODULE EntriesProofs ----------------------------
(***************************************************************************)
(* What the tree holds.  The evictor leaves what a client can read, and    *)
(* the operations of OxidArt answer and change what those of KeyValueStore *)
(* do, for every set of keys, prefixes, values and slots.                  *)
(*                                                                         *)
(* The places a key leads to are the least set that holds the root and is  *)
(* closed under descending by the next radix and the compression below it. *)
(* A key has a value where its last place is a node with that value, and   *)
(* two trees agree when their keys have the same values.  Each change of   *)
(* shape is shown to carry places over: a subtree is trimmed, a node and   *)
(* its only child are merged, a node is split or a leaf hung.  Merging and *)
(* splitting agree, trimming loses what lay below, and what is left to     *)
(* show of an operation is what it writes.                                 *)
(***************************************************************************)
EXTENDS OxidArtProofs

-----------------------------------------------------------------------------
(* The places a key leads to.                                               *)

\* After its first c elements f has s.
SpellsAt(f, c, s) == \A m \in 1 .. Len(s) : f[c + m] = s[m]

\* From node i, c bytes of key lie behind; the child j for the next byte
\* spells as much of the rest as it can, and d bytes lie behind then.
Descends(T, key, i, c, j, d) ==
  /\ c < Len(key) /\ Link(T, i, key[c + 1], j) /\ j \in DOMAIN T
  /\ d = c + 1 + Len(T[j].compression) /\ d <= Len(key)
  /\ SpellsAt(key, c + 1, T[j].compression)

Places(T, key) == (DOMAIN T) \X (0 .. Len(key))

Followed(T, key, C) ==
  \A i, c, j, d : <<i, c>> \in C /\ Descends(T, key, i, c, j, d) => <<j, d>> \in C

\* The places on the way of key, the least set that the root is in.
Path(T, key) ==
  {x \in Places(T, key) :
     \A C \in SUBSET Places(T, key) : <<Root, 0>> \in C /\ Followed(T, key, C) => x \in C}

LEMMA DescendsType ==
  ASSUME NEW T, Tree(T), NEW key \in Seq(Radixes), NEW i, NEW c \in 0 .. Len(key), NEW j, NEW d,
         Descends(T, key, i, c, j, d)
  PROVE  /\ i \in DOMAIN T /\ j \in DOMAIN T /\ j # Root /\ j # Nil /\ j \in Idx
         /\ d \in 0 .. Len(key) /\ d > c /\ key[c + 1] \in Radixes /\ c \in 0 .. Len(key) - 1
         /\ T[j].compression \in Seq(Radixes) /\ Len(T[j].compression) \in Nat
  <1>1. Link(T, i, key[c + 1], j) /\ j \in DOMAIN T
    BY DEF Descends
  <1>2. i \in DOMAIN T /\ key[c + 1] \in Radixes /\ j \in Idx /\ j # Root /\ j # Nil
    BY <1>1, LinkType
  <1>3. T[j].compression \in Seq(Radixes) /\ Len(T[j].compression) \in Nat
    BY <1>1 DEF Tree, Nodes
  <1>4. /\ d = c + 1 + Len(T[j].compression) /\ d <= Len(key) /\ c < Len(key)
    BY DEF Descends
  <1>5. PICK l \in Nat : l = Len(T[j].compression)
    BY <1>3
  <1>6. PICK n \in Nat : n = Len(key)
    BY LenProperties
  <1>7. c \in 0 .. n /\ c < n /\ d = c + 1 + l /\ d <= n
    BY <1>4, <1>5, <1>6
  <1>8. d \in 0 .. n /\ d > c /\ c \in 0 .. n - 1
    BY <1>7
  <1> QED BY <1>1, <1>2, <1>3, <1>6, <1>8

LEMMA PathLeast ==
  ASSUME NEW T, Tree(T), NEW key \in Seq(Radixes)
  PROVE  /\ Path(T, key) \in SUBSET Places(T, key) /\ <<Root, 0>> \in Path(T, key)
         /\ Followed(T, key, Path(T, key))
         /\ \A C \in SUBSET Places(T, key) :
              <<Root, 0>> \in C /\ Followed(T, key, C) => Path(T, key) \subseteq C
  <1>1. <<Root, 0>> \in Places(T, key)
    BY DEF Places, Tree
  <1>2. ASSUME NEW i, NEW c, NEW j, NEW d, <<i, c>> \in Path(T, key), Descends(T, key, i, c, j, d)
        PROVE  <<j, d>> \in Path(T, key)
    <2>1. <<i, c>> \in Places(T, key)
      BY <1>2 DEF Path
    <2>2. c \in 0 .. Len(key)
      BY <2>1 DEF Places
    <2>3. <<j, d>> \in Places(T, key)
      BY <1>2, <2>2, DescendsType DEF Places
    <2>4. ASSUME NEW C \in SUBSET Places(T, key), <<Root, 0>> \in C, Followed(T, key, C)
          PROVE  <<j, d>> \in C
      <3>1. <<i, c>> \in C
        BY <1>2, <2>4 DEF Path
      <3> QED BY <1>2, <2>4, <3>1 DEF Followed
    <2> QED BY <2>3, <2>4 DEF Path
  <1>3. Followed(T, key, Path(T, key))
    BY <1>2 DEF Followed
  <1> QED BY <1>1, <1>3 DEF Path

\* A place on the way is the root's or follows another one.
LEMMA PathTop ==
  ASSUME NEW T, Tree(T), NEW key \in Seq(Radixes), NEW j, NEW d, <<j, d>> \in Path(T, key)
  PROVE  /\ j \in DOMAIN T /\ d \in 0 .. Len(key)
         /\ \/ j = Root /\ d = 0
            \/ \E i, c : <<i, c>> \in Path(T, key) /\ Descends(T, key, i, c, j, d)
  <1>1. <<j, d>> \in Places(T, key)
    BY PathLeast
  <1>2. j \in DOMAIN T /\ d \in 0 .. Len(key)
    BY <1>1 DEF Places
  <1>3. ASSUME ~(j = Root /\ d = 0),
               \A i, c : ~(<<i, c>> \in Path(T, key) /\ Descends(T, key, i, c, j, d))
        PROVE  FALSE
    <2>1. PICK C : C = Path(T, key) \ {<<j, d>>}
      OBVIOUS
    <2>2. C \in SUBSET Places(T, key) /\ <<Root, 0>> \in C
      BY <1>3, <2>1, PathLeast
    <2>3. Followed(T, key, C)
      <3> SUFFICES ASSUME NEW i, NEW c, NEW k, NEW e, <<i, c>> \in C, Descends(T, key, i, c, k, e)
                   PROVE  <<k, e>> \in C
        BY DEF Followed
      <3>1. <<i, c>> \in Path(T, key)
        BY <2>1
      <3>2. <<k, e>> \in Path(T, key)
        BY <3>1, PathLeast DEF Followed
      <3>3. <<k, e>> # <<j, d>>
        BY <1>3, <3>1
      <3> QED BY <2>1, <3>2, <3>3
    <2>4. Path(T, key) \subseteq C
      BY <2>2, <2>3, PathLeast
    <2> QED BY <2>1, <2>4
  <1> QED BY <1>2, <1>3

\* The tests of the loop in these terms.
LEMMA GoesOnDescends ==
  ASSUME NEW T, Tree(T), NEW key \in Seq(Radixes), NEW i \in DOMAIN T,
         NEW c \in 0 .. Len(key) - 1, NEW j \in DOMAIN T, Link(T, i, key[c + 1], j)
  PROVE  /\ IsStrictPrefix(T[j].compression, Rest(key, c + 1)) <=>
              \E d : d < Len(key) /\ Descends(T, key, i, c, j, d)
         /\ T[j].compression = Rest(key, c + 1) <=> Descends(T, key, i, c, j, Len(key))
  <1>1. PICK s : s = T[j].compression
    OBVIOUS
  <1>2. PICK t : t = Rest(key, c + 1)
    OBVIOUS
  <1>3. s \in Seq(Radixes) /\ Len(s) \in Nat
    BY <1>1 DEF Tree, Nodes
  <1>4. c + 1 \in 0 .. Len(key) /\ Len(key) \in Nat
    OBVIOUS
  <1>5. /\ t \in Seq(Radixes) /\ Len(t) = Len(key) - (c + 1)
        /\ \A m \in 1 .. Len(key) - (c + 1) : t[m] = key[c + 1 + m]
    BY <1>2, <1>4, RestType
  <1>6. Descends(T, key, i, c, j, c + 1 + Len(s)) <=>
          Len(s) <= Len(t) /\ \A m \in 1 .. Len(s) : key[c + 1 + m] = s[m]
    <2>1. Descends(T, key, i, c, j, c + 1 + Len(s)) <=>
            c + 1 + Len(s) <= Len(key) /\ \A m \in 1 .. Len(s) : key[c + 1 + m] = s[m]
      <3>1. c < Len(key)
        BY <1>4
      <3> QED BY <1>1, <3>1 DEF Descends, SpellsAt
    <2>2. c + 1 + Len(s) <= Len(key) <=> Len(s) <= Len(t)
      BY <1>3, <1>4, <1>5
    <2> QED BY <2>1, <2>2
  <1>7. Len(s) <= Len(t) => ((\A m \in 1 .. Len(s) : key[c + 1 + m] = s[m])
                               <=> \A m \in 1 .. Len(s) : s[m] = t[m])
    <2> SUFFICES ASSUME Len(s) <= Len(t), NEW m \in 1 .. Len(s) PROVE t[m] = key[c + 1 + m]
      OBVIOUS
    <2>1. PICK l \in Nat : l = Len(s)
      BY <1>3
    <2>2. m \in 1 .. Len(key) - (c + 1)
      BY <1>4, <1>5, <2>1
    <2> QED BY <1>5, <2>2
  <1>8. IsPrefix(s, t) <=> Len(s) <= Len(t) /\ \A m \in 1 .. Len(s) : s[m] = t[m]
    <2>1. IsPrefix(s, t) <=> Len(s) \in Shared(s, t)
      BY <1>3, <1>5, PrefixIsShared
    <2> QED BY <1>3, <2>1 DEF Shared
  <1>9. s = t <=> Len(s) = Len(t) /\ \A m \in 1 .. Len(s) : s[m] = t[m]
    BY <1>3, <1>5, SeqEqual
  <1>10. IsPrefix(s, t) <=> Descends(T, key, i, c, j, c + 1 + Len(s))
    BY <1>6, <1>7, <1>8
  <1>11. \A d : Descends(T, key, i, c, j, d) => d = c + 1 + Len(s)
    BY <1>1 DEF Descends
  <1>12. c + 1 + Len(s) < Len(key) <=> Len(s) < Len(t)
    BY <1>3, <1>4, <1>5
  <1>13. c + 1 + Len(s) = Len(key) <=> Len(s) = Len(t)
    BY <1>3, <1>4, <1>5
  <1>14. IsPrefix(s, t) /\ Len(s) = Len(t) <=> s = t
    <2>1. PICK l \in Nat, k \in Nat : l = Len(s) /\ k = Len(t)
      BY <1>3, <1>5, LenProperties
    <2>2. Len(s) = Len(t) => Len(s) <= Len(t)
      BY <2>1
    <2> QED BY <1>8, <1>9, <2>2
  <1>15. IsPrefix(s, t) => Len(s) <= Len(t)
    BY <1>8
  <1>16. IsStrictPrefix(s, t) <=> IsPrefix(s, t) /\ Len(s) < Len(t)
    <2>1. IsStrictPrefix(s, t) <=> IsPrefix(s, t) /\ s # t
      BY DEF IsStrictPrefix
    <2>2. PICK l \in Nat, k \in Nat : l = Len(s) /\ k = Len(t)
      BY <1>3, <1>5, LenProperties
    <2>3. IsPrefix(s, t) => l <= k /\ (l = k <=> s = t)
      BY <1>14, <1>15, <2>2
    <2> QED BY <2>1, <2>2, <2>3
  <1>17. IsStrictPrefix(s, t) <=> \E d : d < Len(key) /\ Descends(T, key, i, c, j, d)
    BY <1>10, <1>11, <1>12, <1>16
  <1>18. s = t <=> Descends(T, key, i, c, j, Len(key))
    BY <1>10, <1>11, <1>13, <1>14
  <1> QED BY <1>1, <1>2, <1>17, <1>18

\* The loop follows the way of the key.
LEMMA WalkOnPath ==
  ASSUME NEW T, Tree(T), NEW key \in Seq(Radixes), key # <<>>
  PROVE  \E i \in DOMAIN T, c \in 0 .. Len(key) - 1 :
           /\ <<i, c>> \in Path(T, key) /\ Walk(T, key) = <<i, c, Find(T, i, key[c + 1])>>
           /\ ~GoesOn(T, key, <<i, c>>)
  <1>1. PICK S : S = Path(T, key)
    OBVIOUS
  <1>2. <<Root, 0>> \in S
    BY <1>1, PathLeast
  <1>3. ASSUME NEW i \in DOMAIN T, NEW c \in 0 .. Len(key) - 1, <<i, c>> \in S,
               GoesOn(T, key, <<i, c>>)
        PROVE  \E k : k = Below(T, key, <<i, c>>) /\ <<k, c + 1 + Len(T[k].compression)>> \in S
    <2>1. PICK k : k = Below(T, key, <<i, c>>) /\ k = Find(T, i, key[c + 1])
      BY DEF Below
    <2>2. k \in DOMAIN T /\ IsStrictPrefix(T[k].compression, Rest(key, c + 1))
      BY <1>3, <2>1 DEF GoesOn
    <2>3. Link(T, i, key[c + 1], k)
      BY <2>1, <2>2, FindLink, ConstantsAssumption DEF Tree, Indices
    <2>4. PICK d : Descends(T, key, i, c, k, d)
      BY <2>2, <2>3, GoesOnDescends
    <2>5. d = c + 1 + Len(T[k].compression)
      BY <2>4 DEF Descends
    <2>6. <<k, d>> \in S
      BY <1>1, <1>3, <2>4, PathLeast DEF Followed
    <2> QED BY <2>1, <2>5, <2>6
  <1>4. \E i \in DOMAIN T, c \in 0 .. Len(key) - 1 :
          /\ <<i, c>> \in S /\ Walk(T, key) = <<i, c, Find(T, i, key[c + 1])>>
          /\ ~GoesOn(T, key, <<i, c>>)
    BY <1>2, <1>3, WalkStopsIn
  <1> QED BY <1>1, <1>4

\* A lookup ends where the way of the key does.
LEMMA TraverseLeads ==
  ASSUME NEW T, Tree(T), NEW key \in Seq(Radixes), NEW j, j = Traverse(T, key), j # Nil
  PROVE  <<j, Len(key)>> \in Path(T, key)
  <1>1. CASE key = <<>>
    <2>1. j = Root /\ Len(key) = 0
      BY <1>1 DEF Traverse
    <2> QED BY <2>1, PathLeast
  <1>2. CASE key # <<>>
    <2>1. PICK i \in DOMAIN T, c \in 0 .. Len(key) - 1 :
            <<i, c>> \in Path(T, key) /\ Walk(T, key) = <<i, c, Find(T, i, key[c + 1])>>
      BY <1>2, WalkOnPath
    <2>2. PICK w : w = Walk(T, key) /\ w[2] = c /\ w[3] = Find(T, i, key[c + 1])
      BY <2>1
    <2>3. j = Find(T, i, key[c + 1]) /\ j \in DOMAIN T /\ T[j].compression = Rest(key, c + 1)
      BY <1>2, <2>2 DEF Traverse
    <2>4. Link(T, i, key[c + 1], j)
      BY <2>3, FindLink
    <2>5. Descends(T, key, i, c, j, Len(key))
      BY <2>3, <2>4, GoesOnDescends
    <2> QED BY <2>1, <2>5, PathLeast DEF Followed
  <1> QED BY <1>1, <1>2

LEMMA FindIsLink ==
  ASSUME NEW T, Tree(T), Apart(T), NEW i, NEW r, NEW j, Link(T, i, r, j)
  PROVE  Find(T, i, r) = j
  <1>1. i \in DOMAIN T
    BY DEF Link
  <1>2. Find(T, i, r) # Nil
    BY <1>1, FindLink
  <1>3. Link(T, i, r, Find(T, i, r))
    BY <1>1, <1>2, FindLink
  <1> QED BY <1>3, LinkFunctional

LEMMA PathTraverse ==
  ASSUME NEW T, Tree(T), Apart(T), NEW key \in Seq(Radixes), NEW j, <<j, Len(key)>> \in Path(T, key)
  PROVE  Traverse(T, key) = j
  <1>1. CASE key = <<>>
    <2>1. Len(key) = 0
      BY <1>1
    <2>2. \A i, c, d : c \in 0 .. Len(key) => ~Descends(T, key, i, c, j, d)
      BY <2>1 DEF Descends
    <2>3. \A i, c : <<i, c>> \in Path(T, key) => c \in 0 .. Len(key)
      BY PathTop
    <2>4. j = Root
      BY <2>2, <2>3, PathTop
    <2> QED BY <1>1, <2>4 DEF Traverse
  <1>2. CASE key # <<>>
    <2>1. PICK n, D, go, next, out, rank, w :
           /\ n \in Nat /\ n = Len(key) /\ n > 0 /\ D = WalkStates(T, key) /\ go = WalkGo(T, key)
           /\ next = WalkNext(T, key) /\ out = WalkOut(T, key)
           /\ rank \in [D -> 0 .. n] /\ go \in SUBSET D /\ next \in [go -> D]
           /\ \A x \in go : rank[next[x]] < rank[x]
           /\ Follows(w, D, go, next, out) /\ Walk(T, key) = w[<<Root, 0>>]
      BY <1>2, WalkFollows
    <2>2. ASSUME NEW x \in D PROVE w[x] = IF x \in go THEN w[next[x]] ELSE out[x]
      BY <2>1 DEF Follows
    <2>3. PICK C : C = {x \in Places(T, key) :
                          IF x[2] = Len(key) THEN Traverse(T, key) = x[1]
                          ELSE w[x] = w[<<Root, 0>>]}
      OBVIOUS
    <2>4. C \in SUBSET Places(T, key) /\ <<Root, 0>> \in C
      BY <2>1, <2>3 DEF Places, Tree
    <2>5. ASSUME NEW i, NEW c, NEW k, NEW d, <<i, c>> \in C, Descends(T, key, i, c, k, d)
          PROVE  <<k, d>> \in C
      <3>1. <<i, c>> \in Places(T, key)
        BY <2>3, <2>5
      <3>2. c \in 0 .. Len(key)
        BY <3>1 DEF Places
      <3>3. /\ i \in DOMAIN T /\ k \in DOMAIN T /\ d \in 0 .. Len(key)
            /\ c \in 0 .. Len(key) - 1 /\ Link(T, i, key[c + 1], k)
        <4>1. Link(T, i, key[c + 1], k)
          BY <2>5 DEF Descends
        <4> QED BY <2>5, <3>2, <4>1, DescendsType
      <3>4. <<k, d>> \in Places(T, key) /\ <<i, c>> \in D /\ c # Len(key)
        BY <2>1, <3>3 DEF Places, WalkStates
      <3>5. w[<<i, c>>] = w[<<Root, 0>>]
        BY <2>3, <2>5, <3>4
      <3>6. k = Below(T, key, <<i, c>>) /\ k = Find(T, i, key[c + 1])
        BY <3>3, FindIsLink DEF Below
      <3>7. CASE d < Len(key)
        <4>1. IsStrictPrefix(T[k].compression, Rest(key, c + 1))
          BY <2>5, <3>3, <3>7, GoesOnDescends
        <4>2. GoesOn(T, key, <<i, c>>)
          BY <3>3, <3>6, <4>1 DEF GoesOn
        <4>3. <<i, c>> \in go
          BY <2>1, <3>4, <4>2 DEF WalkGo
        <4>4. next[<<i, c>>] = <<k, c + 1 + Len(T[k].compression)>>
          BY <2>1, <3>6, <4>3 DEF WalkNext
        <4>5. d = c + 1 + Len(T[k].compression)
          BY <2>5 DEF Descends
        <4>6. w[<<k, d>>] = w[<<Root, 0>>] /\ d # Len(key)
          <5>1. w[<<i, c>>] = w[next[<<i, c>>]]
            BY <2>2, <3>4, <4>3
          <5>2. next[<<i, c>>] = <<k, d>>
            BY <4>4, <4>5
          <5>3. d # Len(key)
            BY <3>3, <3>7
          <5> QED BY <3>5, <5>1, <5>2, <5>3
        <4> QED BY <2>3, <3>4, <4>6
      <3>8. CASE d = Len(key)
        <4>1. T[k].compression = Rest(key, c + 1)
          BY <2>5, <3>3, <3>8, GoesOnDescends
        <4>2. ~IsStrictPrefix(T[k].compression, Rest(key, c + 1))
          BY <4>1 DEF IsStrictPrefix
        <4>3. ~GoesOn(T, key, <<i, c>>)
          BY <3>6, <4>2 DEF GoesOn
        <4>4. <<i, c>> \notin go
          BY <2>1, <4>3 DEF WalkGo
        <4>5. out[<<i, c>>] = <<i, c, k>>
          BY <2>1, <3>4, <3>6 DEF WalkOut
        <4>6. Walk(T, key) = <<i, c, k>>
          BY <2>1, <2>2, <3>4, <3>5, <4>4, <4>5
        <4>7. PICK v : v = Walk(T, key) /\ v[2] = c /\ v[3] = k
          BY <4>6
        <4>8. Traverse(T, key) = k
          BY <1>2, <3>3, <4>1, <4>7 DEF Traverse
        <4> QED BY <2>3, <3>4, <3>8, <4>8
      <3> QED BY <3>3, <3>7, <3>8
    <2>6. Followed(T, key, C)
      BY <2>5 DEF Followed
    <2>7. <<j, Len(key)>> \in C
      BY <2>4, <2>6, PathLeast
    <2> QED BY <2>3, <2>7
  <1> QED BY <1>1, <1>2

\* The node that key leads to, as a lookup finds it.
LEMMA TraverseIs ==
  ASSUME NEW T, Tree(T), Apart(T), NEW key \in Seq(Radixes), NEW j, j # Nil
  PROVE  Traverse(T, key) = j <=> <<j, Len(key)>> \in Path(T, key)
  BY TraverseLeads, PathTraverse

-----------------------------------------------------------------------------
(* The way of a key through two trees.                                      *)

\* What U keeps of the links between the nodes C of T it keeps of the ways, up
\* to where they enter S for good.
Carries(T, U, C, S) ==
  /\ Root \in C /\ Root \notin S
  /\ \A i \in C \ S : \A r, j : Link(T, i, r, j) /\ j \in DOMAIN T =>
       \/ j \in S
       \/ /\ j \in C /\ Link(U, i, r, j) /\ j \in DOMAIN U
          /\ U[j].compression = T[j].compression
  /\ \A i \in S : \A r, j : Link(T, i, r, j) /\ j \in DOMAIN T => j \in S

LEMMA PathCarries ==
  ASSUME NEW T, Tree(T), NEW U, Tree(U), NEW C, NEW S, Carries(T, U, C, S),
         NEW key \in Seq(Radixes), NEW x, NEW k, <<x, k>> \in Path(T, key)
  PROVE  x \in S \/ (x \in C /\ <<x, k>> \in Path(U, key))
  <1>1. PICK B : B = {y \in Places(T, key) : y[1] \in S \/ (y[1] \in C /\ y \in Path(U, key))}
    OBVIOUS
  <1>2. B \in SUBSET Places(T, key) /\ <<Root, 0>> \in B
    <2>1. <<Root, 0>> \in Places(T, key) /\ <<Root, 0>> \in Path(U, key) /\ Root \in C
      BY PathLeast DEF Carries
    <2> QED BY <1>1, <2>1
  <1>3. ASSUME NEW i, NEW c, NEW j, NEW d, <<i, c>> \in B, Descends(T, key, i, c, j, d)
        PROVE  <<j, d>> \in B
    <2>1. <<i, c>> \in Places(T, key)
      BY <1>1, <1>3
    <2>2. c \in 0 .. Len(key)
      BY <2>1 DEF Places
    <2>3. <<j, d>> \in Places(T, key)
      BY <1>3, <2>2, DescendsType DEF Places
    <2>4. Link(T, i, key[c + 1], j) /\ j \in DOMAIN T
      BY <1>3 DEF Descends
    <2>5. CASE j \in S
      BY <1>1, <2>3, <2>5
    <2>6. CASE j \notin S
      <3>1. i \notin S
        BY <2>4, <2>6 DEF Carries
      <3>2. i \in C /\ <<i, c>> \in Path(U, key)
        BY <1>1, <1>3, <3>1
      <3>3. j \in C /\ Link(U, i, key[c + 1], j) /\ j \in DOMAIN U
            /\ U[j].compression = T[j].compression
        BY <2>4, <2>6, <3>1, <3>2 DEF Carries
      <3>4. Descends(U, key, i, c, j, d)
        BY <1>3, <3>3 DEF Descends
      <3>5. <<j, d>> \in Path(U, key)
        BY <3>2, <3>4, PathLeast DEF Followed
      <3> QED BY <1>1, <2>3, <3>3, <3>5
    <2> QED BY <2>5, <2>6
  <1>4. Followed(T, key, B)
    BY <1>3 DEF Followed
  <1>5. <<x, k>> \in B
    BY <1>2, <1>4, PathLeast
  <1> QED BY <1>1, <1>5

\* What a compression of two pieces with a radix between them spells.
Joined(s, a, q, b) == s = a \o <<q>> \o b

LEMMA JoinedLen ==
  ASSUME NEW a \in Seq(Radixes), NEW q \in Radixes, NEW b \in Seq(Radixes), NEW s, Joined(s, a, q, b)
  PROVE  s \in Seq(Radixes) /\ Len(s) = Len(a) + 1 + Len(b)
  <1>1. PICK t : t = a \o <<q>>
    OBVIOUS
  <1>2. t \in Seq(Radixes) /\ Len(t) = Len(a) + 1
    BY <1>1
  <1>3. t \o b \in Seq(Radixes) /\ Len(t \o b) = Len(t) + Len(b)
    BY <1>2, ConcatProperties
  <1> QED BY <1>1, <1>2, <1>3 DEF Joined

LEMMA JoinedSpells ==
  ASSUME NEW a \in Seq(Radixes), NEW q \in Radixes, NEW b \in Seq(Radixes),
         NEW s, Joined(s, a, q, b), NEW f, NEW c \in Int
  PROVE  /\ s \in Seq(Radixes) /\ Len(s) = Len(a) + 1 + Len(b)
         /\ SpellsAt(f, c, s) <=> /\ SpellsAt(f, c, a) /\ f[c + Len(a) + 1] = q
                                  /\ SpellsAt(f, c + Len(a) + 1, b)
  <1>1. PICK l \in Nat, k \in Nat : l = Len(a) /\ k = Len(b)
    BY LenProperties
  <1>2. PICK t : t = a \o <<q>>
    OBVIOUS
  <1>3. t \in Seq(Radixes) /\ Len(t) = l + 1 /\ (\A m \in 1 .. l : t[m] = a[m]) /\ t[l + 1] = q
    BY <1>1, <1>2
  <1>s. s = t \o b
    BY <1>2 DEF Joined
  <1>4. s \in Seq(Radixes) /\ Len(s) = l + 1 + k
    <2>1. t \o b \in Seq(Radixes) /\ Len(t \o b) = Len(t) + Len(b)
      BY <1>3, ConcatProperties
    <2> QED BY <1>1, <1>s, <1>3, <2>1
  <1>5. \A m \in 1 .. l + 1 : s[m] = t[m]
    BY <1>1, <1>s, <1>3, <1>4
  <1>6. \A m \in 1 .. k : s[l + 1 + m] = b[m]
    BY <1>1, <1>s, <1>3, <1>4
  <1>7. \A m \in 1 .. l : s[m] = a[m]
    <2>1. \A m \in 1 .. l : m \in 1 .. l + 1
      OBVIOUS
    <2> QED BY <1>3, <1>5, <2>1
  <1>8. s[l + 1] = q
    <2>1. l + 1 \in 1 .. l + 1
      OBVIOUS
    <2> QED BY <1>3, <1>5, <2>1
  <1>9. ASSUME \A m \in 1 .. l + 1 + k : f[c + m] = s[m]
        PROVE  /\ \A m \in 1 .. l : f[c + m] = a[m]
               /\ f[c + l + 1] = q
               /\ \A m \in 1 .. k : f[c + l + 1 + m] = b[m]
    <2>1. ASSUME NEW m \in 1 .. l PROVE f[c + m] = a[m]
      <3>1. m \in 1 .. l + 1 + k
        OBVIOUS
      <3> QED BY <1>7, <1>9, <3>1
    <2>2. f[c + l + 1] = q
      <3>1. l + 1 \in 1 .. l + 1 + k /\ c + (l + 1) = c + l + 1
        OBVIOUS
      <3> QED BY <1>8, <1>9, <3>1
    <2>3. ASSUME NEW m \in 1 .. k PROVE f[c + l + 1 + m] = b[m]
      <3>1. l + 1 + m \in 1 .. l + 1 + k /\ c + (l + 1 + m) = c + l + 1 + m
        OBVIOUS
      <3> QED BY <1>6, <1>9, <3>1
    <2> QED BY <2>1, <2>2, <2>3
  <1>10. ASSUME /\ \A m \in 1 .. l : f[c + m] = a[m]
                /\ f[c + l + 1] = q
                /\ \A m \in 1 .. k : f[c + l + 1 + m] = b[m],
                NEW m \in 1 .. l + 1 + k
         PROVE  f[c + m] = s[m]
    <2>1. CASE m \in 1 .. l
      BY <1>7, <1>10, <2>1
    <2>2. CASE m = l + 1
      <3>1. c + m = c + l + 1
        BY <2>2
      <3> QED BY <1>8, <1>10, <2>2, <3>1
    <2>3. CASE m > l + 1
      <3>1. PICK o : o = m - (l + 1)
        OBVIOUS
      <3>2. o \in 1 .. k /\ m = l + 1 + o /\ c + m = c + l + 1 + o
        BY <2>3, <3>1
      <3> QED BY <1>6, <1>10, <3>2
    <2>4. m \in 1 .. l \/ m = l + 1 \/ m > l + 1
      OBVIOUS
    <2> QED BY <2>1, <2>2, <2>3, <2>4
  <1> QED BY <1>1, <1>4, <1>9, <1>10 DEF SpellsAt

\* In S the node i of L is two nodes, i and its only child c.
Merged(L, S, i, q, c) ==
  /\ i \in DOMAIN L /\ i # Root /\ i # c /\ c \notin DOMAIN L /\ DOMAIN S = DOMAIN L \cup {c}
  /\ q \in Radixes
  /\ Joined(L[i].compression, S[i].compression, q, S[c].compression)
  /\ \A x \in DOMAIN L \ {i} : L[x].compression = S[x].compression
  /\ \A r, j : Link(S, i, r, j) <=> r = q /\ j = c
  /\ \A r, j : Link(L, i, r, j) <=> Link(S, c, r, j)
  /\ \A x, r, j : x # i /\ x # c => (Link(L, x, r, j) <=> Link(S, x, r, j))
  /\ \A x, r : Link(S, x, r, c) => x = i

TwoDescend(T, key, y, k, i, c, d) ==
  \E e : Descends(T, key, y, k, i, e) /\ Descends(T, key, i, e, c, d)

\* A step to i in L is two steps in S.
LEMMA MergedDescends ==
  ASSUME NEW L, Tree(L), NEW S, Tree(S), NEW i, NEW q, NEW c, Merged(L, S, i, q, c),
         NEW key \in Seq(Radixes), NEW x, NEW y, NEW k \in 0 .. Len(key), NEW d,
         Link(L, x, key[k + 1], i), Link(S, y, key[k + 1], i)
  PROVE  Descends(L, key, x, k, i, d) <=> TwoDescend(S, key, y, k, i, c, d)
  <1>1. PICK a, b, s : a = S[i].compression /\ b = S[c].compression /\ s = L[i].compression
    OBVIOUS
  <1>2. i \in DOMAIN L /\ i \in DOMAIN S /\ c \in DOMAIN S /\ q \in Radixes /\ Link(S, i, q, c)
        /\ Joined(s, a, q, b)
    BY <1>1 DEF Merged
  <1>3. a \in Seq(Radixes) /\ b \in Seq(Radixes)
    BY <1>1, <1>2 DEF Tree, Nodes
  <1>4. PICK la \in Nat, lb \in Nat, n \in Nat : la = Len(a) /\ lb = Len(b) /\ n = Len(key)
    BY <1>3, LenProperties
  <1>5. PICK h \in Int : h = k + 1
    OBVIOUS
  <1>6. PICK e \in Int : e = h + la
    BY <1>5
  <1>7. /\ Len(s) = la + 1 + lb
        /\ SpellsAt(key, h, s) <=> /\ SpellsAt(key, h, a) /\ key[e + 1] = q
                                   /\ SpellsAt(key, e + 1, b)
    <2>1. SpellsAt(key, h, s) <=> /\ SpellsAt(key, h, a) /\ key[h + Len(a) + 1] = q
                                  /\ SpellsAt(key, h + Len(a) + 1, b)
      BY <1>2, <1>3, JoinedSpells
    <2>2. Len(s) = Len(a) + 1 + Len(b)
      BY <1>2, <1>3, JoinedLen
    <2> QED BY <1>4, <1>6, <2>1, <2>2
  <1>8. Descends(L, key, x, k, i, d) <=>
          k < n /\ d = h + (la + 1 + lb) /\ d <= n /\ SpellsAt(key, h, s)
    BY <1>1, <1>2, <1>4, <1>5, <1>7 DEF Descends
  <1>9. \A f : Descends(S, key, y, k, i, f) <=>
          k < n /\ f = e /\ e <= n /\ SpellsAt(key, h, a)
    BY <1>1, <1>2, <1>4, <1>5, <1>6 DEF Descends
  <1>10. Descends(S, key, i, e, c, d) <=>
          e < n /\ key[e + 1] = q /\ d = e + 1 + lb /\ d <= n /\ SpellsAt(key, e + 1, b)
    <2>1. \A r : Link(S, i, r, c) <=> r = q
      BY DEF Merged
    <2> QED BY <1>1, <1>2, <1>4, <2>1 DEF Descends
  <1>11. h + (la + 1 + lb) = e + 1 + lb /\ (e + 1 + lb <= n => e < n /\ e <= n /\ k < n)
    BY <1>5, <1>6
  <1> QED BY <1>7, <1>8, <1>9, <1>10, <1>11 DEF TwoDescend

\* The ways are the same, but for the node i of L, which is c in S.
LEMMA PathMergedDown ==
  ASSUME NEW L, Tree(L), NEW S, Tree(S), NEW i, NEW q, NEW c, Merged(L, S, i, q, c),
         NEW key \in Seq(Radixes), NEW x, NEW k, <<x, k>> \in Path(L, key)
  PROVE  IF x = i THEN <<c, k>> \in Path(S, key) ELSE <<x, k>> \in Path(S, key)
  <1> DEFINE At(y) == IF y = i THEN c ELSE y
  <1>1. PICK B : B = {y \in Places(L, key) : <<At(y[1]), y[2]>> \in Path(S, key)}
    OBVIOUS
  <1>2. B \in SUBSET Places(L, key) /\ <<Root, 0>> \in B
    <2>1. At(Root) = Root /\ <<Root, 0>> \in Places(L, key) /\ <<Root, 0>> \in Path(S, key)
      BY PathLeast DEF Merged
    <2> QED BY <1>1, <2>1
  <1>3. ASSUME NEW y, NEW e, NEW j, NEW d, <<y, e>> \in B, Descends(L, key, y, e, j, d)
        PROVE  <<j, d>> \in B
    <2>1. <<y, e>> \in Places(L, key) /\ <<At(y), e>> \in Path(S, key)
      BY <1>1, <1>3
    <2>2. e \in 0 .. Len(key)
      BY <2>1 DEF Places
    <2>3. <<j, d>> \in Places(L, key) /\ j \in DOMAIN L /\ y \in DOMAIN L
      BY <1>3, <2>2, DescendsType DEF Places
    <2>4. Link(L, y, key[e + 1], j)
      BY <1>3 DEF Descends
    <2>5. Link(S, At(y), key[e + 1], j)
      BY <2>3, <2>4 DEF Merged
    <2>6. PICK z : z = At(y)
      OBVIOUS
    <2>7. CASE j = i
      <3>1. TwoDescend(S, key, z, e, i, c, d)
        <4>1. Descends(L, key, y, e, i, d) /\ Link(L, y, key[e + 1], i) /\ Link(S, z, key[e + 1], i)
          BY <1>3, <2>4, <2>5, <2>6, <2>7
        <4> HIDE DEF At
        <4> QED BY <2>2, <4>1, MergedDescends
      <3>2. PICK f : Descends(S, key, z, e, i, f) /\ Descends(S, key, i, f, c, d)
        BY <3>1 DEF TwoDescend
      <3>3. <<i, f>> \in Path(S, key)
        BY <2>1, <2>6, <3>2, PathLeast DEF Followed
      <3>4. <<c, d>> \in Path(S, key)
        BY <3>2, <3>3, PathLeast DEF Followed
      <3> QED BY <1>1, <2>3, <2>7, <3>4
    <2>8. CASE j # i
      <3>1. j \in DOMAIN S /\ S[j].compression = L[j].compression
        BY <2>3, <2>8 DEF Merged
      <3>2. Descends(S, key, z, e, j, d)
        BY <1>3, <2>5, <2>6, <3>1 DEF Descends
      <3>3. <<j, d>> \in Path(S, key)
        BY <2>1, <2>6, <3>2, PathLeast DEF Followed
      <3> QED BY <1>1, <2>3, <2>8, <3>3
    <2> QED BY <2>7, <2>8
  <1>4. Followed(L, key, B)
    BY <1>3 DEF Followed
  <1>5. <<x, k>> \in B
    BY <1>2, <1>4, PathLeast
  <1> QED BY <1>1, <1>5

LEMMA PathMergedUp ==
  ASSUME NEW L, Tree(L), NEW S, Tree(S), NEW i, NEW q, NEW c, Merged(L, S, i, q, c),
         NEW key \in Seq(Radixes), NEW x, NEW k, <<x, k>> \in Path(S, key)
  PROVE  /\ x = c => <<i, k>> \in Path(L, key)
         /\ x # c /\ x # i => <<x, k>> \in Path(L, key)
  <1> DEFINE At(y) == IF y = c THEN i ELSE y
             Before(e) == \E y, f : /\ y # i /\ f \in 0 .. Len(key)
                                    /\ <<At(y), f>> \in Path(L, key)
                                    /\ Descends(S, key, y, f, i, e)
  <1>1. PICK B : B = {y \in Places(S, key) :
                        IF y[1] = i THEN Before(y[2]) ELSE <<At(y[1]), y[2]>> \in Path(L, key)}
    OBVIOUS
  <1>2. B \in SUBSET Places(S, key) /\ <<Root, 0>> \in B
    <2>1. Root # i /\ Root # c
      BY DEF Merged, Tree
    <2>2. At(Root) = Root /\ <<Root, 0>> \in Places(S, key) /\ <<Root, 0>> \in Path(L, key)
      BY <2>1, PathLeast
    <2> QED BY <1>1, <2>1, <2>2
  <1>3. ASSUME NEW y, NEW e, NEW j, NEW d, <<y, e>> \in B, Descends(S, key, y, e, j, d)
        PROVE  <<j, d>> \in B
    <2>1. <<y, e>> \in Places(S, key)
      BY <1>1, <1>3
    <2>2. e \in 0 .. Len(key)
      BY <2>1 DEF Places
    <2>3. <<j, d>> \in Places(S, key) /\ j \in DOMAIN S /\ y \in DOMAIN S
      BY <1>3, <2>2, DescendsType DEF Places
    <2>4. Link(S, y, key[e + 1], j)
      BY <1>3 DEF Descends
    <2>5. CASE y = i
      <3>1. j = c /\ c # i
        BY <2>4, <2>5 DEF Merged
      <3>2. PICK z, f : /\ z # i /\ f \in 0 .. Len(key)
                        /\ <<At(z), f>> \in Path(L, key) /\ Descends(S, key, z, f, i, e)
        BY <1>1, <1>3, <2>5
      <3>3. Link(S, z, key[f + 1], i)
        BY <3>2 DEF Descends
      <3>4. PICK p : p = At(z)
        OBVIOUS
      <3>5. Link(L, p, key[f + 1], i)
        BY <3>2, <3>3, <3>4 DEF Merged
      <3>6. Descends(L, key, p, f, i, d)
        <4>1. TwoDescend(S, key, z, f, i, c, d)
          BY <1>3, <2>5, <3>1, <3>2 DEF TwoDescend
        <4> HIDE DEF At, Before
        <4> QED BY <3>2, <3>3, <3>5, <4>1, MergedDescends
      <3>7. <<i, d>> \in Path(L, key)
        BY <3>2, <3>4, <3>6, PathLeast DEF Followed
      <3>8. <<At(j), d>> \in Path(L, key) /\ j # i
        BY <3>1, <3>7
      <3> QED BY <1>1, <2>3, <3>8
    <2>6. CASE y # i
      <3>1. <<At(y), e>> \in Path(L, key)
        BY <1>1, <1>3, <2>6
      <3>2. j # c
        BY <2>4, <2>6 DEF Merged
      <3>3. CASE j = i
        <4>1. Before(d)
          BY <1>3, <2>2, <2>6, <3>1, <3>3
        <4> QED BY <1>1, <2>3, <3>3, <4>1
      <3>4. CASE j # i
        <4>1. PICK p : p = At(y)
          OBVIOUS
        <4>2. Link(L, p, key[e + 1], j)
          BY <2>4, <2>6, <4>1 DEF Merged
        <4>3. j \in DOMAIN L /\ S[j].compression = L[j].compression
          BY <2>3, <3>2, <3>4 DEF Merged
        <4>4. Descends(L, key, p, e, j, d)
          BY <1>3, <4>2, <4>3 DEF Descends
        <4>5. <<j, d>> \in Path(L, key)
          BY <3>1, <4>1, <4>4, PathLeast DEF Followed
        <4> QED BY <1>1, <2>3, <3>2, <3>4, <4>5
      <3> QED BY <3>3, <3>4
    <2> QED BY <2>5, <2>6
  <1>4. Followed(S, key, B)
    BY <1>3 DEF Followed
  <1>5. <<x, k>> \in B
    BY <1>2, <1>4, PathLeast
  <1>6. i # c
    BY DEF Merged
  <1> QED BY <1>1, <1>5, <1>6

-----------------------------------------------------------------------------
(* What a tree holds under a key.                                           *)

Hit(T, key, j) == <<j, Len(key)>> \in Path(T, key)

Has(T, key, v, e) == v # Nil /\ \E j : Hit(T, key, j) /\ T[j].val = v /\ T[j].exp = e

LEMMA HitType ==
  ASSUME NEW T, Tree(T), NEW key \in Seq(Radixes), NEW j, Hit(T, key, j)
  PROVE  j \in DOMAIN T /\ j # Nil
  <1>1. j \in DOMAIN T
    BY PathTop DEF Hit
  <1> QED BY <1>1, ConstantsAssumption DEF Tree, Indices

LEMMA HitIsTraverse ==
  ASSUME NEW T, Tree(T), Apart(T), NEW key \in Seq(Radixes), NEW j
  PROVE  Hit(T, key, j) <=> j # Nil /\ Traverse(T, key) = j
  BY HitType, TraverseIs DEF Hit

\* The maps that OxidArt reads off a tree.
HeldBy(T)  == {k \in Keys : Traverse(T, k) # Nil /\ HasVal(T[Traverse(T, k)])}
ShownBy(T) == {k \in Keys : Traverse(T, k) # Nil /\ GetValue(T[Traverse(T, k)]) # Nil}

\* The value and the deadline a map keeps of a node.
Shown(n) == [val |-> n.val, exp |-> n.exp]

Pairs(P, K, f) == P = {<<k, f[k]>> : k \in K}

LEMMA AsMapIs ==
  ASSUME NEW K, NEW f, NEW P, Pairs(P, K, f)
  PROVE  AsMap(P) = [k \in K |-> Shown(f[k])]
  <1>1. \A k \in K : <<k, f[k]>> \in P
    BY DEF Pairs
  <1>2. \A x \in P : x[1] \in K /\ x = <<x[1], f[x[1]]>>
    <2> TAKE x \in P
    <2>1. PICK k \in K : x = <<k, f[k]>>
      BY DEF Pairs
    <2>2. x[1] = k
      BY <2>1
    <2> QED BY <2>1, <2>2
  <1>3. \A k \in K : k \in {x[1] : x \in P}
    <2> TAKE k \in K
    <2>1. <<k, f[k]>>[1] = k
      OBVIOUS
    <2> QED BY <1>1, <2>1
  <1>4. {x[1] : x \in P} = K
    BY <1>2, <1>3
  <1>5. ASSUME NEW k \in K PROVE (CHOOSE x \in P : x[1] = k)[2] = f[k]
    <2>1. PICK y : y = (CHOOSE x \in P : x[1] = k)
      OBVIOUS
    <2>2. \E x \in P : x[1] = k
      BY <1>3
    <2>3. y \in P /\ y[1] = k
      BY <2>1, <2>2
    <2>4. y = <<k, f[k]>>
      BY <1>2, <2>3
    <2>5. y[2] = f[k]
      BY <2>4
    <2> QED BY <2>1, <2>5
  <1>6. AsMap(P) = [k \in {x[1] : x \in P} |-> Shown((CHOOSE x \in P : x[1] = k)[2])]
    BY DEF AsMap, Shown
  <1>7. AsMap(P) = [k \in K |-> Shown((CHOOSE x \in P : x[1] = k)[2])]
    BY <1>4, <1>6
  <1> QED BY <1>5, <1>7

LEMMA EntriesAre ==
  ASSUME NEW T
  PROVE  /\ Entries(T) = [k \in HeldBy(T) |-> Shown(T[Traverse(T, k)])]
         /\ LiveEntries(T) = [k \in ShownBy(T) |-> Shown(T[Traverse(T, k)])]
  <1>1. PICK f : f = [k \in Keys |-> T[Traverse(T, k)]]
    OBVIOUS
  <1>2. PICK K, M : K = HeldBy(T) /\ M = ShownBy(T)
    OBVIOUS
  <1>3. PICK P, Q : P = {x \in Placed(T) : HasVal(x[2])} /\ Q = {x \in Placed(T) : GetValue(x[2]) # Nil}
    OBVIOUS
  <1>4. Pairs(P, K, f)
    BY <1>1, <1>2, <1>3 DEF Pairs, Placed, HeldBy
  <1>5. Pairs(Q, M, f)
    BY <1>1, <1>2, <1>3 DEF Pairs, Placed, ShownBy
  <1>6. AsMap(P) = [k \in K |-> Shown(f[k])]
    BY <1>4, AsMapIs
  <1>7. AsMap(Q) = [k \in M |-> Shown(f[k])]
    BY <1>5, AsMapIs
  <1>8. Entries(T) = AsMap(P) /\ LiveEntries(T) = AsMap(Q)
    BY <1>3 DEF Entries, LiveEntries
  <1>9. K \subseteq Keys /\ M \subseteq Keys
    BY <1>2 DEF HeldBy, ShownBy
  <1>10. \A k \in Keys : f[k] = T[Traverse(T, k)]
    BY <1>1
  <1> QED BY <1>2, <1>6, <1>7, <1>8, <1>9, <1>10

\* A deadline that has passed.
Past(e) == e # NoExpiracy /\ e < now

\* Two trees that hold the same under every key, and two that do of what has
\* not expired.
Agree(T, U)     == \A key \in Seq(Radixes) : \A v, e : Has(T, key, v, e) <=> Has(U, key, v, e)
AgreeLive(T, U) ==
  \A key \in Keys : \A v, e : ~Past(e) => (Has(T, key, v, e) <=> Has(U, key, v, e))

\* A key is looked up where Traverse ends.
LEMMA HasIs ==
  ASSUME NEW T, Tree(T), Apart(T), NEW k \in Keys, NEW n, n = T[Traverse(T, k)]
  PROVE  /\ k \in HeldBy(T) => Has(T, k, n.val, n.exp)
         /\ k \in ShownBy(T) => Has(T, k, n.val, n.exp) /\ ~Past(n.exp)
         /\ \A v, e : Has(T, k, v, e) => k \in HeldBy(T) /\ Shown(n) = [val |-> v, exp |-> e]
         /\ \A v, e : Has(T, k, v, e) /\ ~Past(e) => k \in ShownBy(T)
  <1>0. k \in Seq(Radixes)
    BY KeysAreSeqs
  <1>1. PICK j : j = Traverse(T, k)
    OBVIOUS
  <1>2. \A x : Hit(T, k, x) <=> x # Nil /\ x = j
    BY <1>0, <1>1, HitIsTraverse
  <1>3. n = T[j]
    BY <1>1
  <1>4. \A v, e : Has(T, k, v, e) <=> v # Nil /\ j # Nil /\ n.val = v /\ n.exp = e
    BY <1>2, <1>3 DEF Has
  <1>5. k \in HeldBy(T) <=> j # Nil /\ n.val # Nil
    BY <1>1 DEF HeldBy, HasVal
  <1>6. k \in ShownBy(T) <=> j # Nil /\ n.val # Nil /\ ~Past(n.exp)
    BY <1>1 DEF ShownBy, GetValue, HasVal, IsExpired, Past
  <1> QED BY <1>4, <1>5, <1>6 DEF Shown

LEMMA HeldKeys == ASSUME NEW T PROVE HeldBy(T) \subseteq Keys /\ ShownBy(T) \subseteq Keys
  BY DEF HeldBy, ShownBy

LEMMA SameEntries ==
  ASSUME NEW T, Tree(T), Apart(T), NEW U, Tree(U), Apart(U), Agree(T, U)
  PROVE  Entries(U) = Entries(T)
  <1>1. ASSUME NEW k \in Keys, k \in HeldBy(T)
        PROVE  k \in HeldBy(U) /\ Shown(U[Traverse(U, k)]) = Shown(T[Traverse(T, k)])
    <2>1. PICK n, m : n = T[Traverse(T, k)] /\ m = U[Traverse(U, k)]
      OBVIOUS
    <2>2. Has(T, k, n.val, n.exp)
      BY <1>1, <2>1, HasIs
    <2>3. Has(U, k, n.val, n.exp)
      BY <2>2, KeysAreSeqs DEF Agree
    <2>4. k \in HeldBy(U) /\ Shown(m) = [val |-> n.val, exp |-> n.exp]
      BY <2>1, <2>3, HasIs
    <2> QED BY <2>1, <2>4 DEF Shown
  <1>2. ASSUME NEW k \in Keys, k \in HeldBy(U) PROVE k \in HeldBy(T)
    <2>1. PICK m : m = U[Traverse(U, k)]
      OBVIOUS
    <2>2. Has(U, k, m.val, m.exp)
      BY <1>2, <2>1, HasIs
    <2>3. Has(T, k, m.val, m.exp)
      BY <2>2, KeysAreSeqs DEF Agree
    <2> QED BY <2>3, HasIs
  <1>3. HeldBy(T) = HeldBy(U)
    BY <1>1, <1>2, HeldKeys
  <1>4. \A k \in HeldBy(T) : Shown(U[Traverse(U, k)]) = Shown(T[Traverse(T, k)])
    BY <1>1, HeldKeys
  <1>5. Entries(T) = [k \in HeldBy(T) |-> Shown(T[Traverse(T, k)])]
    BY EntriesAre
  <1>6. Entries(U) = [k \in HeldBy(U) |-> Shown(U[Traverse(U, k)])]
    BY EntriesAre
  <1> QED BY <1>3, <1>4, <1>5, <1>6

LEMMA SameLiveEntries ==
  ASSUME NEW T, Tree(T), Apart(T), NEW U, Tree(U), Apart(U), AgreeLive(T, U)
  PROVE  LiveEntries(U) = LiveEntries(T)
  <1>1. ASSUME NEW k \in Keys, k \in ShownBy(T)
        PROVE  k \in ShownBy(U) /\ Shown(U[Traverse(U, k)]) = Shown(T[Traverse(T, k)])
    <2>1. PICK n, m : n = T[Traverse(T, k)] /\ m = U[Traverse(U, k)]
      OBVIOUS
    <2>2. Has(T, k, n.val, n.exp) /\ ~Past(n.exp)
      BY <1>1, <2>1, HasIs
    <2>3. Has(U, k, n.val, n.exp)
      BY <2>2 DEF AgreeLive
    <2>4. k \in ShownBy(U) /\ Shown(m) = [val |-> n.val, exp |-> n.exp]
      BY <2>1, <2>2, <2>3, HasIs
    <2> QED BY <2>1, <2>4 DEF Shown
  <1>2. ASSUME NEW k \in Keys, k \in ShownBy(U) PROVE k \in ShownBy(T)
    <2>1. PICK m : m = U[Traverse(U, k)]
      OBVIOUS
    <2>2. Has(U, k, m.val, m.exp) /\ ~Past(m.exp)
      BY <1>2, <2>1, HasIs
    <2>3. Has(T, k, m.val, m.exp)
      BY <2>2 DEF AgreeLive
    <2> QED BY <2>2, <2>3, HasIs
  <1>3. ShownBy(T) = ShownBy(U)
    BY <1>1, <1>2, HeldKeys
  <1>4. \A k \in ShownBy(T) : Shown(U[Traverse(U, k)]) = Shown(T[Traverse(T, k)])
    BY <1>1, HeldKeys
  <1>5. LiveEntries(T) = [k \in ShownBy(T) |-> Shown(T[Traverse(T, k)])]
    BY EntriesAre
  <1>6. LiveEntries(U) = [k \in ShownBy(U) |-> Shown(U[Traverse(U, k)])]
    BY EntriesAre
  <1> QED BY <1>3, <1>4, <1>5, <1>6

-----------------------------------------------------------------------------
(* What freeing and recompressing change of what a tree holds.              *)

\* No link of U leads into the closed set S, and U spells the rest as T does.
Trimmed(T, U, S) ==
  /\ Tree(U) /\ Root \notin S /\ Closed(T, S)
  /\ DOMAIN T \ S \subseteq DOMAIN U /\ DOMAIN U \subseteq DOMAIN T
  /\ \A i, r, j : i \notin S => (Link(U, i, r, j) <=> Link(T, i, r, j) /\ j \notin S)
  /\ \A x \in DOMAIN U \ S : U[x].compression = T[x].compression

LEMMA TrimmedHits ==
  ASSUME NEW T, Tree(T), NEW U, NEW S, Trimmed(T, U, S), NEW key \in Seq(Radixes), NEW j
  PROVE  Hit(U, key, j) <=> Hit(T, key, j) /\ j \notin S
  <1>1. Tree(U)
    BY DEF Trimmed
  <1>2. Carries(T, U, DOMAIN T, S)
    <2>1. Root \in DOMAIN T /\ Root \notin S
      BY DEF Tree, Trimmed
    <2>2. ASSUME NEW i \in DOMAIN T \ S, NEW r, NEW x, Link(T, i, r, x), x \in DOMAIN T, x \notin S
          PROVE  Link(U, i, r, x) /\ x \in DOMAIN U /\ U[x].compression = T[x].compression
      BY <2>2 DEF Trimmed
    <2>3. \A i \in S : \A r, x : Link(T, i, r, x) /\ x \in DOMAIN T => x \in S
      BY DEF Trimmed, Closed
    <2> QED BY <2>1, <2>2, <2>3 DEF Carries
  <1>3. Carries(U, T, DOMAIN U \ S, {})
    <2>1. Root \in DOMAIN U \ S
      BY <1>1 DEF Tree, Trimmed
    <2>2. ASSUME NEW i \in DOMAIN U \ S, NEW r, NEW x, Link(U, i, r, x), x \in DOMAIN U
          PROVE  /\ x \in DOMAIN U \ S /\ Link(T, i, r, x) /\ x \in DOMAIN T
                 /\ T[x].compression = U[x].compression
      BY <2>2 DEF Trimmed
    <2> QED BY <2>1, <2>2 DEF Carries
  <1>4. PICK k : k = Len(key)
    OBVIOUS
  <1>5. ASSUME <<j, k>> \in Path(T, key) PROVE j \in S \/ <<j, k>> \in Path(U, key)
    BY <1>1, <1>2, <1>5, PathCarries
  <1>6. ASSUME <<j, k>> \in Path(U, key) PROVE j \in DOMAIN U \ S /\ <<j, k>> \in Path(T, key)
    BY <1>1, <1>3, <1>6, PathCarries
  <1> QED BY <1>4, <1>5, <1>6 DEF Hit

LEMMA RewrittenHits ==
  ASSUME NEW T, Tree(T), NEW U, NEW i, NEW v, Rewritten(T, U, i, v), NEW key \in Seq(Radixes), NEW j
  PROVE  Hit(U, key, j) <=> Hit(T, key, j)
  <1>1. Tree(U) /\ DOMAIN U = DOMAIN T
    BY DEF Rewritten
  <1>2. \A x \in DOMAIN T : U[x].childs = T[x].childs /\ U[x].overflow = T[x].overflow
                            /\ U[x].compression = T[x].compression
    BY DEF Rewritten
  <1>3. \A x, r, y : Link(U, x, r, y) <=> Link(T, x, r, y)
    BY <1>1, <1>2 DEF Link
  <1>4. Trimmed(T, U, {})
    BY <1>1, <1>2, <1>3 DEF Trimmed, Closed
  <1> QED BY <1>4, TrimmedHits

LEMMA AbsorbedMerges ==
  ASSUME NEW T, Tree(T), NEW R, Forest(T, R), NEW U, NEW i, i # Root, NEW q, NEW c, Absorbed(T, U, i, q, c)
  PROVE  Merged(U, T, i, q, c)
  <1>1. /\ i \in DOMAIN T /\ DOMAIN T[i].childs = {q} /\ T[i].childs[q] = c
        /\ DOMAIN T[i].overflow = {} /\ c \in DOMAIN T /\ DOMAIN U = DOMAIN T \ {c}
    BY DEF Absorbed
  <1>2. Link(T, i, q, c) /\ \A r, j : Link(T, i, r, j) => r = q /\ j = c
    BY <1>1 DEF Link
  <1>3. i # c
    BY <1>1, <1>2, NoLoop DEF Forest
  <1>4. q \in Radixes
    BY <1>2, LinkType
  <1>5. i \in DOMAIN U /\ c \notin DOMAIN U /\ DOMAIN T = DOMAIN U \cup {c}
    BY <1>1, <1>3
  <1>6. Joined(U[i].compression, T[i].compression, q, T[c].compression)
    BY <1>3 DEF Absorbed, Joined
  <1>7. \A x \in DOMAIN U \ {i} : U[x].compression = T[x].compression
    BY DEF Absorbed
  <1>8. \A r, j : Link(U, i, r, j) <=> Link(T, c, r, j)
    BY <1>1, <1>3, <1>5 DEF Absorbed, Alike, Link
  <1>9. \A x, r, j : x # i /\ x # c => (Link(U, x, r, j) <=> Link(T, x, r, j))
    BY <1>1, <1>5 DEF Absorbed, Alike, Link
  <1>10. \A x, r : Link(T, x, r, c) => x = i
    BY <1>2 DEF Forest, Graph
  <1> QED BY <1>2, <1>3, <1>4, <1>5, <1>6, <1>7, <1>8, <1>9, <1>10 DEF Merged

\* Two nodes, the upper one without a value, or one: they hold the same.
LEMMA MergedHas ==
  ASSUME NEW U, Tree(U), NEW T, Tree(T), NEW i, NEW q, NEW c, Merged(U, T, i, q, c), T[i].val = Nil,
         U[i].val = T[c].val, U[i].exp = T[c].exp,
         \A x \in DOMAIN U \ {i} : U[x].val = T[x].val /\ U[x].exp = T[x].exp,
         NEW key \in Seq(Radixes), NEW v, NEW e
  PROVE  Has(U, key, v, e) <=> Has(T, key, v, e)
  <1>1. DOMAIN T = DOMAIN U \cup {c}
    BY DEF Merged
  <1>2. PICK k : k = Len(key)
    OBVIOUS
  <1>3. ASSUME Has(U, key, v, e) PROVE Has(T, key, v, e)
    <2>1. PICK x : Hit(U, key, x) /\ U[x].val = v /\ U[x].exp = e /\ v # Nil
      BY <1>3 DEF Has
    <2>2. x \in DOMAIN U /\ <<x, k>> \in Path(U, key)
      BY <1>2, <2>1, HitType DEF Hit
    <2>3. IF x = i THEN <<c, k>> \in Path(T, key) ELSE <<x, k>> \in Path(T, key)
      BY <2>2, PathMergedDown
    <2>4. CASE x = i
      <3>1. Hit(T, key, c) /\ T[c].val = v /\ T[c].exp = e
        BY <1>2, <2>1, <2>3, <2>4 DEF Hit
      <3> QED BY <2>1, <3>1 DEF Has
    <2>5. CASE x # i
      <3>1. Hit(T, key, x) /\ T[x].val = v /\ T[x].exp = e
        BY <1>2, <2>1, <2>2, <2>3, <2>5 DEF Hit
      <3> QED BY <2>1, <3>1 DEF Has
    <2> QED BY <2>4, <2>5
  <1>4. ASSUME Has(T, key, v, e) PROVE Has(U, key, v, e)
    <2>1. PICK x : Hit(T, key, x) /\ T[x].val = v /\ T[x].exp = e /\ v # Nil
      BY <1>4 DEF Has
    <2>2. x \in DOMAIN T /\ <<x, k>> \in Path(T, key)
      BY <1>2, <2>1, HitType DEF Hit
    <2>3. (x = c => <<i, k>> \in Path(U, key)) /\ (x # c /\ x # i => <<x, k>> \in Path(U, key))
      BY <2>2, PathMergedUp
    <2>4. x # i
      BY <2>1
    <2>5. CASE x = c
      <3>1. Hit(U, key, i) /\ U[i].val = v /\ U[i].exp = e
        BY <1>2, <2>1, <2>3, <2>5 DEF Hit
      <3> QED BY <2>1, <3>1 DEF Has
    <2>6. CASE x # c
      <3>1. x \in DOMAIN U \ {i}
        BY <1>1, <2>2, <2>4, <2>6
      <3>2. Hit(U, key, x) /\ U[x].val = v /\ U[x].exp = e
        BY <1>2, <2>1, <2>3, <2>4, <2>6, <3>1 DEF Hit
      <3> QED BY <2>1, <3>2 DEF Has
    <2> QED BY <2>5, <2>6
  <1> QED BY <1>3, <1>4

\* Recompressing a node other than the root loses no key and makes none up.
LEMMA RecompressHas ==
  ASSUME NEW T, Tree(T), NEW R, Forest(T, R), NEW i, i # Root, NEW U, U = Recompress(T, i),
         NEW key \in Seq(Radixes), NEW v, NEW e
  PROVE  Has(U, key, v, e) <=> Has(T, key, v, e)
  <1>1. CASE U = T
    BY <1>1
  <1>2. CASE \E q, c : Absorbed(T, U, i, q, c)
    <2>1. PICK q, c : Absorbed(T, U, i, q, c)
      BY <1>2
    <2>2. Merged(U, T, i, q, c)
      BY <2>1, AbsorbedMerges
    <2>3. Tree(U) /\ T[i].val = Nil /\ i # c
      BY <2>1, <2>2 DEF Absorbed, HasVal, Merged
    <2>4. U[i].val = T[c].val /\ U[i].exp = T[c].exp
      BY <2>1, <2>3 DEF Absorbed, Alike
    <2>5. \A x \in DOMAIN U \ {i} : U[x].val = T[x].val /\ U[x].exp = T[x].exp
      BY <2>1 DEF Absorbed, Alike
    <2> QED BY <2>2, <2>3, <2>4, <2>5, MergedHas
  <1> QED BY <1>1, <1>2, RecompressShape

\* What a trimmed tree holds is what it held at the nodes that are left.
LEMMA TrimmedHas ==
  ASSUME NEW T, Tree(T), NEW U, NEW S, Trimmed(T, U, S),
         \A x \in DOMAIN U \ S : U[x].val = T[x].val /\ U[x].exp = T[x].exp,
         NEW key \in Seq(Radixes), NEW v, NEW e
  PROVE  Has(U, key, v, e) <=> v # Nil /\ \E j : /\ Hit(T, key, j) /\ j \notin S
                                                 /\ T[j].val = v /\ T[j].exp = e
  <1>1. Tree(U)
    BY DEF Trimmed
  <1>2. \A j : Hit(U, key, j) <=> Hit(T, key, j) /\ j \notin S
    BY TrimmedHits
  <1>3. \A j : Hit(U, key, j) => j \in DOMAIN U
    BY <1>1, HitType
  <1> QED BY <1>2, <1>3 DEF Has

LEMMA PrunedTrims ==
  ASSUME NEW T, Tree(T), NEW R, Root \in R, NEW S, NEW p, NEW q, Pendant(T, R, S, p, q),
         NEW U, Pruned(T, U, R, S, p, q)
  PROVE  /\ Trimmed(T, U, S)
         /\ \A x \in DOMAIN U \ S : U[x].val = T[x].val /\ U[x].exp = T[x].exp
  <1>1. Root \notin S /\ Closed(T, S)
    BY DEF Pendant
  <1> QED BY <1>1 DEF Pruned, Trimmed, SameData

\* A subtree that hangs on one link is cut off: what it held is gone, and the
\* recompression of the parent changes nothing else.
LEMMA CutHas ==
  ASSUME NEW T, Tree(T), NEW R, Forest(T, R), Root \in R, NEW S, NEW p, NEW q,
         Pendant(T, R, S, p, q), NEW W, W = Cut(T, S, p, q),
         NEW key \in Seq(Radixes), NEW v, NEW e
  PROVE  Has(W, key, v, e) <=> v # Nil /\ \E j : /\ Hit(T, key, j) /\ j \notin S
                                                 /\ T[j].val = v /\ T[j].exp = e
  <1>1. PICK U : U = RemoveChild(Without(T, S), p, q)
    OBVIOUS
  <1>2. Pruned(T, U, R, S, p, q)
    BY <1>1, ForestPruned
  <1>3. Trimmed(T, U, S) /\ \A x \in DOMAIN U \ S : U[x].val = T[x].val /\ U[x].exp = T[x].exp
    BY <1>2, PrunedTrims
  <1>4. Has(U, key, v, e) <=> v # Nil /\ \E j : /\ Hit(T, key, j) /\ j \notin S
                                                /\ T[j].val = v /\ T[j].exp = e
    BY <1>3, TrimmedHas
  <1>5. Tree(U) /\ Forest(U, R)
    BY <1>2 DEF Pruned
  <1>6. Has(W, key, v, e) <=> Has(U, key, v, e)
    <2>1. CASE p = Root
      BY <1>1, <2>1 DEF Cut
    <2>2. CASE p # Root
      <3>1. W = Recompress(U, p)
        BY <1>1, <2>2 DEF Cut
      <3> QED BY <1>5, <2>2, <3>1, RecompressHas
    <2> QED BY <2>1, <2>2
  <1> QED BY <1>4, <1>6

\* The value of a node other than the root is cleared: the others stay.
LEMMA ClearValHas ==
  ASSUME NEW T, Tree(T), NEW R, Forest(T, R), NEW i \in DOMAIN T, i # Root,
         NEW U, U = ClearVal(T, i), NEW key \in Seq(Radixes), NEW v, NEW e
  PROVE  Has(U, key, v, e) <=> v # Nil /\ \E j : /\ Hit(T, key, j) /\ j # i
                                                 /\ T[j].val = v /\ T[j].exp = e
  <1>1. PICK V : Rewritten(T, V, i, Nil) /\ U = Recompress(V, i)
    BY ClearValShape
  <1>2. Tree(V) /\ Forest(V, R)
    BY <1>1, ForestRewritten DEF Rewritten
  <1>3. Has(U, key, v, e) <=> Has(V, key, v, e)
    BY <1>1, <1>2, RecompressHas
  <1>4. \A j : Hit(V, key, j) <=> Hit(T, key, j)
    BY <1>1, RewrittenHits
  <1>5. \A j : Hit(T, key, j) => j \in DOMAIN T
    BY HitType
  <1>6. V[i].val = Nil /\ \A x \in DOMAIN T \ {i} : V[x] = T[x]
    BY <1>1 DEF Rewritten
  <1> QED BY <1>3, <1>4, <1>5, <1>6 DEF Has

-----------------------------------------------------------------------------
(* Eviction.                                                                *)

LEMMA EvictAgrees ==
  ASSUME Typed, Forest(nodes, {Root}), Orderly, NEW i \in Idx, Evict(i), NEW W, W = nodes'
  PROVE  Tree(W) /\ Forest(W, {Root}) /\ AgreeLive(nodes, W)
  <1>1. PICK p : p = nodes[i].parent
    OBVIOUS
  <1>2. PICK r : r = nodes[i].radix
    OBVIOUS
  <1>3. Tree(nodes) /\ i \in DOMAIN nodes /\ i # Root
    BY ConstantsAssumption DEF Evict, Typed
  <1>4. W = DeleteNode(nodes, i, p, r) /\ Past(nodes[i].exp)
    BY <1>1, <1>2 DEF Evict, IsExpired, Past
  <1>5. PICK R : R = {Root}
    OBVIOUS
  <1>6. Forest(nodes, R) /\ Root \in R
    BY <1>5
  <1>7. CASE HasChildren(nodes[i])
    <2>1. W = ClearVal(nodes, i)
      BY <1>4, <1>7 DEF DeleteNode
    <2>2. ASSUME NEW key \in Keys, NEW v, NEW e, ~Past(e)
          PROVE  Has(nodes, key, v, e) <=> Has(W, key, v, e)
      <3>1. key \in Seq(Radixes)
        BY KeysAreSeqs
      <3>2. Has(W, key, v, e) <=> v # Nil /\ \E j : /\ Hit(nodes, key, j) /\ j # i
                                                    /\ nodes[j].val = v /\ nodes[j].exp = e
        BY <1>3, <1>6, <2>1, <3>1, ClearValHas
      <3> QED BY <1>4, <2>2, <3>2 DEF Has
    <2>3. Tree(W)
      BY <1>3, <2>1, ClearValShape, RecompressType DEF Rewritten
    <2>4. Forest(W, R)
      BY <1>3, <1>6, <2>1, ForestClearVal
    <2> QED BY <1>5, <2>2, <2>3, <2>4 DEF AgreeLive
  <1>8. CASE ~HasChildren(nodes[i])
    <2>1. W = Cut(nodes, {i}, p, r)
      BY <1>4, <1>8 DEF DeleteNode
    <2>2. p \in DOMAIN nodes /\ Find(nodes, p, r) = i
      BY <1>1, <1>2, <1>8 DEF Orderly
    <2>3. Link(nodes, p, r, i)
      BY <1>3, <2>2, FindLink, ConstantsAssumption
    <2>4. Pendant(nodes, R, {i}, p, r)
      BY <1>3, <1>6, <1>8, <2>3, LeafPendant DEF Forest
    <2>5. ASSUME NEW key \in Keys, NEW v, NEW e, ~Past(e)
          PROVE  Has(nodes, key, v, e) <=> Has(W, key, v, e)
      <3>1. key \in Seq(Radixes)
        BY KeysAreSeqs
      <3>2. PICK S : S = {i}
        OBVIOUS
      <3>3. Has(W, key, v, e) <=> v # Nil /\ \E j : /\ Hit(nodes, key, j) /\ j \notin S
                                                    /\ nodes[j].val = v /\ nodes[j].exp = e
        BY <1>3, <1>6, <2>1, <2>4, <3>1, <3>2, CutHas
      <3> QED BY <1>4, <2>5, <3>2, <3>3 DEF Has
    <2>6. Root \notin {i}
      BY <1>3
    <2>7. Tree(W)
      BY <1>3, <2>1, <2>6, CutType
    <2>8. Forest(W, R)
      BY <1>3, <1>6, <2>1, <2>4, ForestCut
    <2> QED BY <1>5, <2>5, <2>7, <2>8 DEF AgreeLive
  <1> QED BY <1>7, <1>8

LEMMA EvictSpares ==
  ASSUME Typed, Forest(nodes, {Root}), Orderly, NEW i \in Idx, Evict(i)
  PROVE  \E T \in {nodes'} : LiveEntries(T) = LiveEntries(nodes)
  <1>1. PICK W : W = nodes'
    OBVIOUS
  <1>2. Tree(W) /\ Forest(W, {Root}) /\ AgreeLive(nodes, W)
    BY <1>1, EvictAgrees
  <1>3. Tree(nodes) /\ Apart(nodes) /\ Apart(W)
    BY <1>2 DEF Typed, Forest
  <1>4. LiveEntries(W) = LiveEntries(nodes)
    BY <1>2, <1>3, SameLiveEntries
  <1> QED BY <1>1, <1>4

\* As long as the links are in order (Orderly), the evictor changes nothing a
\* lookup can see: clearing an expired inner node, freeing an expired leaf and
\* the merge of its parent that follows leave every live key with its value
\* and its deadline (evict_expired, delete_node_for_eviction, try_recompress).
THEOREM EvictionSpares == Spec /\ [][Orderly]_vars => EvictionSparesLiveKeys
  <1>1. Typed /\ Forest(nodes, {Root}) /\ [Orderly]_vars =>
          [(\E i \in Idx : Evict(i)) =>
              \E T \in {nodes'} : LiveEntries(T) = LiveEntries(nodes)]_vars
    BY EvictSpares
  <1> QED BY <1>1, TypedAlways, ForestAlways, PTL DEF EvictionSparesLiveKeys

-----------------------------------------------------------------------------
(* Two keys.                                                                *)

\* The first d bytes of f and g are there and the same.
Same(f, g, d) == d <= Len(f) /\ d <= Len(g) /\ \A m \in 1 .. d : f[m] = g[m]

LEMMA DescendsLike ==
  ASSUME NEW T, Tree(T), NEW f \in Seq(Radixes), NEW g \in Seq(Radixes), NEW i,
         NEW c \in 0 .. Len(f), NEW j, NEW d, Descends(T, f, i, c, j, d), Same(f, g, d)
  PROVE  Descends(T, g, i, c, j, d)
  <1>1. PICK s : s = T[j].compression
    OBVIOUS
  <1>2. PICK l \in Nat : l = Len(s)
    BY <1>1, DescendsType
  <1>3. PICK n \in Nat, k \in Nat : n = Len(f) /\ k = Len(g)
    BY LenProperties
  <1>4. c \in Nat /\ d = c + 1 + l /\ d <= k
    BY <1>1, <1>2, <1>3 DEF Descends, Same
  <1>5. c + 1 \in 1 .. d /\ c < k
    BY <1>4
  <1>6. f[c + 1] = g[c + 1]
    BY <1>5 DEF Same
  <1>7. ASSUME NEW m \in 1 .. l PROVE g[c + 1 + m] = s[m]
    <2>1. c + 1 + m \in 1 .. d
      BY <1>4
    <2>2. f[c + 1 + m] = s[m]
      BY <1>1, <1>2 DEF Descends, SpellsAt
    <2> QED BY <2>1, <2>2 DEF Same
  <1> QED BY <1>1, <1>2, <1>3, <1>4, <1>5, <1>6, <1>7 DEF Descends, SpellsAt

\* A longer key goes the way of its prefixes.
LEMMA PathStarts ==
  ASSUME NEW T, Tree(T), NEW f \in Seq(Radixes), NEW g \in Seq(Radixes), Same(f, g, Len(f)),
         NEW x, NEW d, <<x, d>> \in Path(T, f)
  PROVE  <<x, d>> \in Path(T, g)
  <1>1. PICK C : C = Places(T, f) \cap Path(T, g)
    OBVIOUS
  <1>2. C \in SUBSET Places(T, f) /\ <<Root, 0>> \in C
    <2>1. <<Root, 0>> \in Places(T, f) /\ <<Root, 0>> \in Path(T, g)
      BY PathLeast
    <2> QED BY <1>1, <2>1
  <1>3. ASSUME NEW i, NEW c, NEW j, NEW e, <<i, c>> \in C, Descends(T, f, i, c, j, e)
        PROVE  <<j, e>> \in C
    <2>1. c \in 0 .. Len(f) /\ <<i, c>> \in Path(T, g)
      BY <1>1, <1>3 DEF Places
    <2>2. j \in DOMAIN T /\ e \in 0 .. Len(f)
      BY <1>3, <2>1, DescendsType
    <2>3. PICK n \in Nat, k \in Nat : n = Len(f) /\ k = Len(g)
      BY LenProperties
    <2>4. n <= k /\ \A m \in 1 .. n : f[m] = g[m]
      BY <2>3 DEF Same
    <2>5. e <= n /\ e <= k /\ \A m \in 1 .. e : f[m] = g[m]
      BY <2>2, <2>3, <2>4
    <2>6. Same(f, g, e)
      BY <2>3, <2>5 DEF Same
    <2>7. Descends(T, g, i, c, j, e)
      BY <1>3, <2>1, <2>6, DescendsLike
    <2>8. <<j, e>> \in Path(T, g)
      BY <2>1, <2>7, PathLeast DEF Followed
    <2> QED BY <1>1, <2>2, <2>8 DEF Places
  <1>4. Followed(T, f, C)
    BY <1>3 DEF Followed
  <1>5. <<x, d>> \in C
    BY <1>2, <1>4, PathLeast
  <1> QED BY <1>1, <1>5

LEMMA SpellOn ==
  ASSUME NEW T, Tree(T), NEW f \in Seq(Radixes), NEW g \in Seq(Radixes), NEW i, NEW c \in 0 .. Len(f),
         Same(f, g, c), f[c + 1] = g[c + 1], NEW j, NEW d, NEW e,
         Descends(T, f, i, c, j, d), Descends(T, g, i, c, j, e)
  PROVE  d = e /\ Same(f, g, d)
  <1>1. PICK s : s = T[j].compression
    OBVIOUS
  <1>2. PICK l \in Nat : l = Len(s)
    BY <1>1, DescendsType
  <1>a. c \in Nat
    BY LenProperties
  <1>3. c \in Nat /\ d = c + 1 + l /\ e = c + 1 + l /\ d <= Len(f) /\ e <= Len(g)
    <2>1. d = c + 1 + Len(T[j].compression) /\ d <= Len(f)
      BY DEF Descends
    <2>2. e = c + 1 + Len(T[j].compression) /\ e <= Len(g)
      BY DEF Descends
    <2> QED BY <1>1, <1>2, <1>a, <2>1, <2>2
  <1>4. ASSUME NEW m \in 1 .. d PROVE f[m] = g[m]
    <2>1. CASE m \in 1 .. c
      BY <2>1 DEF Same
    <2>2. CASE m = c + 1
      BY <2>2
    <2>3. CASE m > c + 1
      <3>1. PICK h : h = m - (c + 1)
        OBVIOUS
      <3>2. h \in 1 .. l /\ m = c + 1 + h
        BY <1>3, <2>3, <3>1
      <3>3. f[c + 1 + h] = s[h] /\ g[c + 1 + h] = s[h]
        BY <1>1, <1>2, <3>2 DEF Descends, SpellsAt
      <3> QED BY <3>2, <3>3
    <2> QED BY <1>3, <2>1, <2>2, <2>3
  <1> QED BY <1>3, <1>4 DEF Same

\* Two keys that lead to the same node have spelled the same.
LEMMA PathSpells ==
  ASSUME NEW T, Tree(T), NEW R, Graph(T, R), NEW f \in Seq(Radixes), NEW g \in Seq(Radixes),
         NEW x, NEW d, <<x, d>> \in Path(T, f), NEW e, <<x, e>> \in Path(T, g)
  PROVE  d = e /\ Same(f, g, d)
  <1> DEFINE Alone(y) == \A h : <<y[1], h>> \in Path(T, g) => y[2] = h /\ Same(f, g, y[2])
  <1>1. PICK C : C = {y \in Places(T, f) : Alone(y)}
    OBVIOUS
  <1>2. <<Root, 0>> \in C
    <2>1. ASSUME NEW h, <<Root, h>> \in Path(T, g) PROVE h = 0
      <3>1. ASSUME NEW i, NEW c, <<i, c>> \in Path(T, g), Descends(T, g, i, c, Root, h) PROVE FALSE
        <4>1. c \in 0 .. Len(g)
          BY <3>1, PathTop
        <4> QED BY <3>1, <4>1, DescendsType
      <3> QED BY <2>1, <3>1, PathTop
    <2>2. Same(f, g, 0)
      BY DEF Same
    <2>3. <<Root, 0>> \in Places(T, f)
      BY PathLeast
    <2> QED BY <1>1, <2>1, <2>2, <2>3
  <1>3. ASSUME NEW i, NEW c, NEW j, NEW k, <<i, c>> \in C, Descends(T, f, i, c, j, k)
        PROVE  <<j, k>> \in C
    <2>1. c \in 0 .. Len(f) /\ \A h : <<i, h>> \in Path(T, g) => c = h /\ Same(f, g, c)
      BY <1>1, <1>3 DEF Places
    <2>2. j \in DOMAIN T /\ k \in 0 .. Len(f) /\ j # Root
      BY <1>3, <2>1, DescendsType
    <2>3. ASSUME NEW h, <<j, h>> \in Path(T, g) PROVE k = h /\ Same(f, g, k)
      <3>1. PICK i2, c2 : <<i2, c2>> \in Path(T, g) /\ Descends(T, g, i2, c2, j, h)
        BY <2>2, <2>3, PathTop
      <3>2. Link(T, i, f[c + 1], j) /\ Link(T, i2, g[c2 + 1], j)
        BY <1>3, <3>1 DEF Descends
      <3>3. i2 = i /\ f[c + 1] = g[c2 + 1]
        BY <3>2 DEF Graph
      <3>4. c = c2 /\ Same(f, g, c)
        BY <2>1, <3>1, <3>3
      <3> QED BY <1>3, <2>1, <3>1, <3>3, <3>4, SpellOn
    <2>4. Alone(<<j, k>>)
      BY <2>3
    <2>5. <<j, k>> \in Places(T, f)
      BY <2>2 DEF Places
    <2> QED BY <1>1, <2>4, <2>5
  <1>4. Followed(T, f, C)
    BY <1>3 DEF Followed
  <1>5. <<x, d>> \in C
    <2>1. C \in SUBSET Places(T, f)
      BY <1>1
    <2> QED BY <1>2, <1>4, <2>1, PathLeast
  <1> QED BY <1>1, <1>5

\* No two keys lead to the same node.
LEMMA HitUnique ==
  ASSUME NEW T, Tree(T), NEW R, Graph(T, R), NEW f \in Seq(Radixes), NEW g \in Seq(Radixes),
         NEW j, Hit(T, f, j), Hit(T, g, j)
  PROVE  f = g
  <1>1. Len(f) = Len(g) /\ Same(f, g, Len(f))
    BY PathSpells DEF Hit
  <1> QED BY <1>1, SeqEqual DEF Same

-----------------------------------------------------------------------------
(* The way of a key does not fork.                                          *)

\* The places on the way from z on.
After(T, key, z) ==
  {x \in Places(T, key) :
     \A C \in SUBSET Places(T, key) : z \in C /\ Followed(T, key, C) => x \in C}

LEMMA AfterLeast ==
  ASSUME NEW T, Tree(T), NEW key \in Seq(Radixes), NEW z \in Places(T, key)
  PROVE  /\ After(T, key, z) \in SUBSET Places(T, key) /\ z \in After(T, key, z)
         /\ Followed(T, key, After(T, key, z))
         /\ \A C \in SUBSET Places(T, key) :
              z \in C /\ Followed(T, key, C) => After(T, key, z) \subseteq C
  <1>1. ASSUME NEW i, NEW c, NEW j, NEW d, <<i, c>> \in After(T, key, z), Descends(T, key, i, c, j, d)
        PROVE  <<j, d>> \in After(T, key, z)
    <2>1. <<i, c>> \in Places(T, key)
      BY <1>1 DEF After
    <2>2. c \in 0 .. Len(key)
      BY <2>1 DEF Places
    <2>3. <<j, d>> \in Places(T, key)
      BY <1>1, <2>2, DescendsType DEF Places
    <2>4. ASSUME NEW C \in SUBSET Places(T, key), z \in C, Followed(T, key, C)
          PROVE  <<j, d>> \in C
      <3>1. <<i, c>> \in C
        BY <1>1, <2>4 DEF After
      <3> QED BY <1>1, <2>4, <3>1 DEF Followed
    <2> QED BY <2>3, <2>4 DEF After
  <1>2. Followed(T, key, After(T, key, z))
    BY <1>1 DEF Followed
  <1> QED BY <1>2 DEF After

LEMMA PathIsAfter == ASSUME NEW T, NEW key PROVE Path(T, key) = After(T, key, <<Root, 0>>)
  BY DEF Path, After

LEMMA DescendsOne ==
  ASSUME NEW T, Apart(T), NEW key, NEW i, NEW c, NEW j, NEW d, NEW k, NEW e,
         Descends(T, key, i, c, j, d), Descends(T, key, i, c, k, e)
  PROVE  j = k /\ d = e
  <1>1. Link(T, i, key[c + 1], j) /\ Link(T, i, key[c + 1], k)
    BY DEF Descends
  <1>2. j = k
    BY <1>1, LinkFunctional
  <1> QED BY <1>2 DEF Descends

LEMMA AfterNext ==
  ASSUME NEW T, Tree(T), Apart(T), NEW key \in Seq(Radixes), NEW i, NEW c,
         <<i, c>> \in Places(T, key), NEW j, NEW d, Descends(T, key, i, c, j, d)
  PROVE  /\ <<j, d>> \in Places(T, key)
         /\ After(T, key, <<i, c>>) \subseteq {<<i, c>>} \cup After(T, key, <<j, d>>)
  <1>1. c \in 0 .. Len(key)
    BY DEF Places
  <1>2. <<j, d>> \in Places(T, key)
    BY <1>1, DescendsType DEF Places
  <1>3. PICK C : C = {<<i, c>>} \cup After(T, key, <<j, d>>)
    OBVIOUS
  <1>4. C \in SUBSET Places(T, key) /\ <<i, c>> \in C
    BY <1>2, <1>3, AfterLeast
  <1>5. ASSUME NEW x, NEW e, NEW y, NEW h, <<x, e>> \in C, Descends(T, key, x, e, y, h)
        PROVE  <<y, h>> \in C
    <2>1. CASE <<x, e>> = <<i, c>>
      <3>1. y = j /\ h = d
        BY <1>5, <2>1, DescendsOne
      <3>2. <<j, d>> \in After(T, key, <<j, d>>)
        BY <1>2, AfterLeast
      <3> QED BY <1>3, <3>1, <3>2
    <2>2. CASE <<x, e>> \in After(T, key, <<j, d>>)
      <3>1. <<y, h>> \in After(T, key, <<j, d>>)
        BY <1>2, <1>5, <2>2, AfterLeast DEF Followed
      <3> QED BY <1>3, <3>1
    <2> QED BY <1>3, <1>5, <2>1, <2>2
  <1>6. Followed(T, key, C)
    BY <1>5 DEF Followed
  <1>7. After(T, key, <<i, c>>) \subseteq C
    BY <1>4, <1>6, AfterLeast
  <1> QED BY <1>2, <1>3, <1>7

LEMMA AfterEnd ==
  ASSUME NEW T, Tree(T), NEW key \in Seq(Radixes), NEW i, NEW c,
         <<i, c>> \in Places(T, key), \A j, d : ~Descends(T, key, i, c, j, d)
  PROVE  After(T, key, <<i, c>>) \subseteq {<<i, c>>}
  <1>1. PICK C : C = {<<i, c>>}
    OBVIOUS
  <1>2. C \in SUBSET Places(T, key) /\ <<i, c>> \in C /\ Followed(T, key, C)
    BY <1>1 DEF Followed
  <1> QED BY <1>1, <1>2, AfterLeast

\* Of two places on the way of a key one comes after the other.
LEMMA AfterLinear ==
  ASSUME NEW T, Tree(T), Apart(T), NEW key \in Seq(Radixes), NEW z \in Path(T, key), NEW x \in Path(T, key)
  PROVE  x \in After(T, key, z) \/ z \in After(T, key, x)
  <1>0. z \in Places(T, key)
    BY PathLeast
  <1>1. PICK C : C = {y \in Places(T, key) : y \in After(T, key, z) \/ z \in After(T, key, y)}
    OBVIOUS
  <1>2. <<Root, 0>> \in C
    <2>1. <<Root, 0>> \in Places(T, key)
      BY PathLeast
    <2>2. z \in After(T, key, <<Root, 0>>)
      BY PathIsAfter
    <2> QED BY <1>1, <2>1, <2>2
  <1>3. ASSUME NEW i, NEW c, NEW j, NEW d, <<i, c>> \in C, Descends(T, key, i, c, j, d)
        PROVE  <<j, d>> \in C
    <2>1. <<i, c>> \in Places(T, key)
      BY <1>1, <1>3
    <2>2. /\ <<j, d>> \in Places(T, key)
          /\ After(T, key, <<i, c>>) \subseteq {<<i, c>>} \cup After(T, key, <<j, d>>)
      BY <1>3, <2>1, AfterNext
    <2>3. CASE <<i, c>> \in After(T, key, z)
      <3>1. <<j, d>> \in After(T, key, z)
        BY <1>0, <1>3, <2>3, AfterLeast DEF Followed
      <3> QED BY <1>1, <2>2, <3>1
    <2>4. CASE z = <<i, c>>
      <3>1. <<i, c>> \in After(T, key, z)
        BY <1>0, <2>4, AfterLeast
      <3> QED BY <2>3, <3>1
    <2>5. CASE z \in After(T, key, <<j, d>>)
      BY <1>1, <2>2, <2>5
    <2> QED BY <1>1, <1>3, <2>2, <2>3, <2>4, <2>5
  <1>4. Followed(T, key, C)
    BY <1>3 DEF Followed
  <1>5. x \in C
    <2>1. C \in SUBSET Places(T, key)
      BY <1>1
    <2> QED BY <1>2, <1>4, <2>1, PathLeast
  <1> QED BY <1>1, <1>5

LEMMA AfterLater ==
  ASSUME NEW T, Tree(T), NEW key \in Seq(Radixes), NEW i, NEW c, <<i, c>> \in Places(T, key),
         NEW j, NEW d, <<j, d>> \in After(T, key, <<i, c>>)
  PROVE  d >= c
  <1>0. c \in 0 .. Len(key)
    BY DEF Places
  <1>1. PICK C : C = {y \in Places(T, key) : y[2] >= c}
    OBVIOUS
  <1>2. <<i, c>> \in C /\ C \in SUBSET Places(T, key)
    BY <1>0, <1>1
  <1>3. ASSUME NEW x, NEW e, NEW y, NEW h, <<x, e>> \in C, Descends(T, key, x, e, y, h)
        PROVE  <<y, h>> \in C
    <2>1. <<x, e>> \in Places(T, key) /\ e >= c
      BY <1>1, <1>3
    <2>2. e \in 0 .. Len(key)
      BY <2>1 DEF Places
    <2>3. y \in DOMAIN T /\ h \in 0 .. Len(key) /\ h > e
      BY <1>3, <2>2, DescendsType
    <2>4. h >= c
      BY <1>0, <2>1, <2>2, <2>3
    <2>5. <<y, h>> \in Places(T, key)
      BY <2>3 DEF Places
    <2> QED BY <1>1, <2>4, <2>5
  <1>4. Followed(T, key, C)
    BY <1>3 DEF Followed
  <1>5. <<j, d>> \in C
    BY <1>2, <1>4, AfterLeast
  <1> QED BY <1>1, <1>5

LEMMA AfterStays ==
  ASSUME NEW T, Tree(T), NEW key \in Seq(Radixes), NEW i, NEW c, <<i, c>> \in Places(T, key),
         NEW S, Closed(T, S), i \in S, NEW j, NEW d, <<j, d>> \in After(T, key, <<i, c>>)
  PROVE  j \in S
  <1>1. PICK C : C = {y \in Places(T, key) : y[1] \in S}
    OBVIOUS
  <1>2. <<i, c>> \in C /\ C \in SUBSET Places(T, key)
    BY <1>1
  <1>3. ASSUME NEW x, NEW e, NEW y, NEW h, <<x, e>> \in C, Descends(T, key, x, e, y, h)
        PROVE  <<y, h>> \in C
    <2>1. <<x, e>> \in Places(T, key) /\ x \in S
      BY <1>1, <1>3
    <2>2. e \in 0 .. Len(key)
      BY <2>1 DEF Places
    <2>3. <<y, h>> \in Places(T, key) /\ y \in DOMAIN T
      BY <1>3, <2>2, DescendsType DEF Places
    <2>4. Link(T, x, key[e + 1], y)
      BY <1>3 DEF Descends
    <2>5. y \in S
      BY <2>1, <2>3, <2>4 DEF Closed
    <2> QED BY <1>1, <2>3, <2>5
  <1>4. Followed(T, key, C)
    BY <1>3 DEF Followed
  <1>5. <<j, d>> \in C
    BY <1>2, <1>4, AfterLeast
  <1> QED BY <1>1, <1>5

\* Where the way of a key goes on, it goes on by the next step.
LEMMA PathPast ==
  ASSUME NEW T, Tree(T), Apart(T), NEW key \in Seq(Radixes), NEW i, NEW c, <<i, c>> \in Path(T, key),
         NEW j, NEW n, <<j, n>> \in Path(T, key), n > c
  PROVE  \E y, d : /\ Descends(T, key, i, c, y, d) /\ <<y, d>> \in Places(T, key)
                   /\ <<j, n>> \in After(T, key, <<y, d>>)
  <1>1. <<i, c>> \in Places(T, key) /\ <<j, n>> \in Places(T, key)
    BY PathLeast
  <1>2. c \in 0 .. Len(key) /\ n \in 0 .. Len(key)
    BY <1>1 DEF Places
  <1>3. ASSUME <<i, c>> \in After(T, key, <<j, n>>) PROVE FALSE
    <2>1. c >= n
      BY <1>1, <1>3, AfterLater
    <2> QED BY <1>2, <2>1
  <1>4. <<j, n>> \in After(T, key, <<i, c>>)
    BY <1>3, AfterLinear
  <1>5. <<j, n>> # <<i, c>>
    BY <1>2
  <1>6. PICK y, d : Descends(T, key, i, c, y, d)
    BY <1>1, <1>4, <1>5, AfterEnd
  <1>7. /\ <<y, d>> \in Places(T, key)
        /\ After(T, key, <<i, c>>) \subseteq {<<i, c>>} \cup After(T, key, <<y, d>>)
    BY <1>1, <1>6, AfterNext
  <1> QED BY <1>4, <1>5, <1>6, <1>7

-----------------------------------------------------------------------------
(* What lies below a prefix.                                                *)

LEMMA PrefixIsSame ==
  ASSUME NEW p \in Seq(Radixes), NEW k \in Seq(Radixes)
  PROVE  IsPrefix(p, k) <=> Same(p, k, Len(p))
  <1>1. IsPrefix(p, k) <=> Len(p) \in Shared(p, k)
    BY PrefixIsShared
  <1>2. Len(p) \in 0 .. Len(p) /\ Len(p) <= Len(p)
    BY LenProperties
  <1> QED BY <1>1, <1>2 DEF Shared, Same

\* Where the loop for p stops.
Stops(T, p, i, c) ==
  /\ i \in DOMAIN T /\ c \in 0 .. Len(p) - 1
  /\ <<i, c>> \in Path(T, p) /\ Walk(T, p) = <<i, c, Find(T, i, p[c + 1])>>
  /\ ~GoesOn(T, p, <<i, c>>)

\* A key that extends p passes the place where the loop for p stops.
LEMMA WalkPasses ==
  ASSUME NEW T, Tree(T), Apart(T), NEW p \in Seq(Radixes), NEW i, NEW c, Stops(T, p, i, c),
         NEW k \in Seq(Radixes), Same(p, k, Len(p)), NEW j, Hit(T, k, j)
  PROVE  \E t, d : /\ t = Find(T, i, p[c + 1]) /\ t \in DOMAIN T /\ Link(T, i, p[c + 1], t)
                   /\ IsPrefix(Rest(p, c + 1), T[t].compression)
                   /\ Descends(T, k, i, c, t, d)
                   /\ <<t, d>> \in Places(T, k) /\ <<j, Len(k)>> \in After(T, k, <<t, d>>)
  <1>1. PICK n \in Nat, l \in Nat : n = Len(p) /\ l = Len(k)
    BY LenProperties
  <1>2. c \in 0 .. n - 1 /\ n <= l /\ \A m \in 1 .. n : p[m] = k[m]
    BY <1>1 DEF Stops, Same
  <1>3. <<i, c>> \in Path(T, k)
    BY PathStarts DEF Stops
  <1>4. <<j, l>> \in Path(T, k) /\ l > c
    BY <1>1, <1>2 DEF Hit
  <1>5. PICK t, d : /\ Descends(T, k, i, c, t, d) /\ <<t, d>> \in Places(T, k)
                    /\ <<j, l>> \in After(T, k, <<t, d>>)
    BY <1>3, <1>4, PathPast
  <1>6. p[c + 1] = k[c + 1]
    BY <1>2
  <1>7. Link(T, i, p[c + 1], t) /\ t \in DOMAIN T
    BY <1>5, <1>6 DEF Descends
  <1>8. Find(T, i, p[c + 1]) = t
    BY <1>7, FindIsLink
  <1>9. PICK s, u : s = T[t].compression /\ u = Rest(p, c + 1)
    OBVIOUS
  <1>10. s \in Seq(Radixes) /\ Len(s) \in Nat
    BY <1>7, <1>9 DEF Tree, Nodes
  <1>11. c + 1 \in 0 .. Len(p)
    BY <1>1, <1>2
  <1>12. /\ u \in Seq(Radixes) /\ Len(u) = n - (c + 1)
         /\ \A m \in 1 .. n - (c + 1) : u[m] = p[c + 1 + m]
    BY <1>1, <1>9, <1>11, RestType
  <1>13. d = c + 1 + Len(s) /\ d <= l /\ \A m \in 1 .. Len(s) : k[c + 1 + m] = s[m]
    BY <1>1, <1>5, <1>9 DEF Descends, SpellsAt
  <1>14. Len(u) <= Len(s)
    <2> SUFFICES ASSUME Len(s) < Len(u) PROVE FALSE
      BY <1>10, <1>12
    <2>1. d < n /\ d \in Nat
      BY <1>2, <1>10, <1>12, <1>13
    <2>2. Same(k, p, d)
      BY <1>1, <1>2, <1>13, <2>1 DEF Same
    <2>3. c \in 0 .. Len(k)
      BY <1>1, <1>2
    <2>4. Descends(T, p, i, c, t, d)
      BY <1>5, <2>2, <2>3, DescendsLike
    <2>5. i \in DOMAIN T /\ c \in 0 .. Len(p) - 1 /\ ~GoesOn(T, p, <<i, c>>)
      BY DEF Stops
    <2>6. IsStrictPrefix(T[t].compression, Rest(p, c + 1))
      BY <1>1, <1>7, <2>1, <2>4, <2>5, GoesOnDescends
    <2>7. GoesOn(T, p, <<i, c>>)
      BY <1>7, <1>8, <2>6 DEF GoesOn, Below
    <2> QED BY <2>5, <2>7
  <1>15. ASSUME NEW m \in 1 .. Len(u) PROVE u[m] = s[m]
    <2>1. m \in 1 .. n - (c + 1) /\ m \in 1 .. Len(s) /\ c + 1 + m \in 1 .. n
      BY <1>2, <1>10, <1>12, <1>14
    <2> QED BY <1>2, <1>12, <1>13, <2>1
  <1>16. Same(u, s, Len(u))
    BY <1>12, <1>14, <1>15, LenProperties DEF Same
  <1>17. IsPrefix(u, s)
    BY <1>10, <1>12, <1>16, PrefixIsSame
  <1> QED BY <1>1, <1>5, <1>7, <1>8, <1>9, <1>17

\* Nothing lies below a prefix that the loop does not find.
LEMMA NoCover ==
  ASSUME NEW T, Tree(T), Apart(T), NEW p \in Seq(Radixes), p # <<>>, Cover(T, p) = Nil,
         NEW k \in Seq(Radixes), NEW j, Hit(T, k, j)
  PROVE  ~IsPrefix(p, k)
  <1> SUFFICES ASSUME IsPrefix(p, k) PROVE FALSE
    OBVIOUS
  <1>1. Same(p, k, Len(p))
    BY PrefixIsSame
  <1>2. PICK i, c : Stops(T, p, i, c)
    BY WalkOnPath DEF Stops
  <1>3. PICK t, d : /\ t = Find(T, i, p[c + 1]) /\ t \in DOMAIN T
                    /\ IsPrefix(Rest(p, c + 1), T[t].compression)
    BY <1>1, <1>2, WalkPasses
  <1>4. PICK w : w = Walk(T, p) /\ w[2] = c /\ w[3] = t
    BY <1>2, <1>3 DEF Stops
  <1>5. Cover(T, p) = t
    BY <1>3, <1>4 DEF Cover
  <1> QED BY <1>3, <1>5, ConstantsAssumption DEF Tree, Indices

\* The keys below the node that covers p are those that extend p.
LEMMA CoverHits ==
  ASSUME NEW T, Tree(T), NEW R, Forest(T, R), Root \in R, NEW p \in Seq(Radixes), p # <<>>,
         NEW t, t = Cover(T, p), t # Nil, NEW S, S = Subtree(T, {t}),
         NEW k \in Seq(Radixes), NEW j, Hit(T, k, j)
  PROVE  j \in S <=> IsPrefix(p, k)
  <1>1. PICK i, c : Stops(T, p, i, c)
    BY WalkOnPath DEF Stops
  <1>2. PICK q : q = p[c + 1]
    OBVIOUS
  <1>3. PICK w : w = Walk(T, p) /\ w[2] = c /\ w[3] = Find(T, i, q)
    BY <1>1, <1>2 DEF Stops
  <1>4. t = Find(T, i, q) /\ t \in DOMAIN T /\ IsPrefix(Rest(p, c + 1), T[t].compression)
    BY <1>3 DEF Cover
  <1>5. i \in DOMAIN T /\ c \in 0 .. Len(p) - 1 /\ <<i, c>> \in Path(T, p)
    BY <1>1 DEF Stops
  <1>6. Link(T, i, q, t)
    BY <1>4, <1>5, FindLink
  <1>7. Apart(T) /\ Graph(T, R)
    BY DEF Forest
  <1>8. Pendant(T, R, S, i, q)
    BY <1>6, <1>7, SubtreePendant
  <1>9. Closed(T, S) /\ Root \notin S /\ t \in S
    <2>1. {t} \cap DOMAIN T \subseteq S
      BY SubtreeLeast
    <2> QED BY <1>4, <1>8, <2>1 DEF Pendant
  <1>10. ASSUME IsPrefix(p, k) PROVE j \in S
    <2>1. Same(p, k, Len(p))
      BY <1>10, PrefixIsSame
    <2>2. PICK x, d : /\ x = Find(T, i, p[c + 1]) /\ <<x, d>> \in Places(T, k)
                      /\ <<j, Len(k)>> \in After(T, k, <<x, d>>)
      BY <1>1, <1>7, <2>1, WalkPasses
    <2>3. x \in S
      BY <1>2, <1>4, <1>9, <2>2
    <2> QED BY <1>9, <2>2, <2>3, AfterStays
  <1>11. ASSUME NEW e, NEW d, <<i, e>> \in Path(T, k), k[e + 1] = q, Descends(T, k, i, e, t, d)
         PROVE  Same(p, k, Len(p))
    <2>1. c = e /\ Same(p, k, c)
      BY <1>5, <1>7, <1>11, PathSpells
    <2>2. PICK s, u : s = T[t].compression /\ u = Rest(p, c + 1)
      OBVIOUS
    <2>3. PICK n \in Nat, l \in Nat : n = Len(p) /\ l = Len(k)
      BY LenProperties
    <2>4. s \in Seq(Radixes) /\ Len(s) \in Nat
      BY <1>4, <2>2 DEF Tree, Nodes
    <2>5. c \in 0 .. n - 1 /\ c + 1 \in 0 .. Len(p)
      BY <1>5, <2>3
    <2>6. /\ u \in Seq(Radixes) /\ Len(u) = n - (c + 1)
          /\ \A m \in 1 .. n - (c + 1) : u[m] = p[c + 1 + m]
      BY <2>2, <2>3, <2>5, RestType
    <2>7. Same(u, s, Len(u))
      BY <1>4, <2>2, <2>4, <2>6, PrefixIsSame
    <2>8. d = c + 1 + Len(s) /\ d <= l /\ \A m \in 1 .. Len(s) : k[c + 1 + m] = s[m]
      BY <1>11, <2>1, <2>2, <2>3 DEF Descends, SpellsAt
    <2>9. n <= l
      BY <2>3, <2>4, <2>5, <2>6, <2>7, <2>8 DEF Same
    <2>10. ASSUME NEW m \in 1 .. n PROVE p[m] = k[m]
      <3>1. CASE m \in 1 .. c
        BY <2>1, <3>1 DEF Same
      <3>2. CASE m = c + 1
        BY <1>2, <1>11, <2>1, <3>2
      <3>3. CASE m > c + 1
        <4>1. PICK h : h = m - (c + 1)
          OBVIOUS
        <4>2. h \in 1 .. n - (c + 1) /\ m = c + 1 + h
          BY <2>5, <3>3, <4>1
        <4>3. h \in 1 .. Len(u) /\ h \in 1 .. Len(s)
          BY <2>4, <2>6, <2>7, <4>2 DEF Same
        <4>4. u[h] = s[h]
          BY <2>7, <4>3 DEF Same
        <4> QED BY <2>6, <2>8, <4>2, <4>3, <4>4
      <3> QED BY <2>5, <3>1, <3>2, <3>3
    <2> QED BY <2>3, <2>9, <2>10 DEF Same
  <1>12. ASSUME j \in S PROVE IsPrefix(p, k)
    <2>1. PICK C : C = {y \in Path(T, k) : y[1] \in S => Same(p, k, Len(p))}
      OBVIOUS
    <2>2. <<Root, 0>> \in C /\ C \in SUBSET Places(T, k)
      BY <1>9, <2>1, PathLeast
    <2>3. ASSUME NEW x, NEW e, NEW y, NEW d, <<x, e>> \in C, Descends(T, k, x, e, y, d)
          PROVE  <<y, d>> \in C
      <3>1. <<x, e>> \in Path(T, k) /\ (x \in S => Same(p, k, Len(p)))
        BY <2>1, <2>3
      <3>2. <<y, d>> \in Path(T, k)
        BY <2>3, <3>1, PathLeast DEF Followed
      <3>3. Link(T, x, k[e + 1], y)
        BY <2>3 DEF Descends
      <3>4. ASSUME y \in S, x \notin S PROVE Same(p, k, Len(p))
        <4>1. x = i /\ k[e + 1] = q
          BY <1>8, <3>3, <3>4 DEF Pendant
        <4>2. y = t
          BY <1>6, <1>7, <3>3, <4>1, LinkFunctional
        <4> QED BY <1>11, <2>3, <3>1, <4>1, <4>2
      <3> QED BY <2>1, <3>1, <3>2, <3>4
    <2>4. Followed(T, k, C)
      BY <2>3 DEF Followed
    <2>5. <<j, Len(k)>> \in C
      BY <2>2, <2>4, PathLeast DEF Hit
    <2> QED BY <1>12, <2>1, <2>5, PrefixIsSame
  <1> QED BY <1>10, <1>12

-----------------------------------------------------------------------------
(* The map a tree is, after a change.                                       *)

\* What T holds under a key it holds under no other value.
LEMMA HasOne ==
  ASSUME NEW T, Tree(T), Apart(T), NEW k \in Keys, NEW v, NEW e, Has(T, k, v, e)
  PROVE  k \in DOMAIN Entries(T) /\ Entries(T)[k] = [val |-> v, exp |-> e]
  <1>1. k \in HeldBy(T) /\ Shown(T[Traverse(T, k)]) = [val |-> v, exp |-> e]
    BY HasIs
  <1>2. Entries(T) = [x \in HeldBy(T) |-> Shown(T[Traverse(T, x)])]
    BY EntriesAre
  <1> QED BY <1>1, <1>2

LEMMA HasEntry ==
  ASSUME NEW T, Tree(T), Apart(T), NEW k, k \in DOMAIN Entries(T)
  PROVE  k \in Keys /\ \E v, e : Has(T, k, v, e)
  <1>1. DOMAIN Entries(T) = HeldBy(T)
    BY EntriesAre
  <1>2. k \in HeldBy(T) /\ k \in Keys
    BY <1>1, HeldKeys
  <1> QED BY <1>2, HasIs

LEMMA EntriesFunction ==
  ASSUME NEW T
  PROVE  Entries(T) = [k \in DOMAIN Entries(T) |-> Entries(T)[k]]
  <1>1. PICK f : f = [k \in HeldBy(T) |-> Shown(T[Traverse(T, k)])]
    OBVIOUS
  <1>2. Entries(T) = f
    BY <1>1, EntriesAre
  <1>3. f = [k \in DOMAIN f |-> f[k]]
    BY <1>1
  <1> QED BY <1>2, <1>3

\* U holds what T holds, but for the keys in D.
Loses(T, U, D) ==
  \A key \in Seq(Radixes) : \A v, e : Has(U, key, v, e) <=> Has(T, key, v, e) /\ key \notin D

LEMMA LosesEntries ==
  ASSUME NEW T, Tree(T), Apart(T), NEW U, Tree(U), Apart(U), NEW D, Loses(T, U, D)
  PROVE  Entries(U) = Restrict(Entries(T), DOMAIN Entries(T) \ D)
  <1>1. PICK f : f = Entries(T)
    OBVIOUS
  <1>2. PICK g : g = Entries(U)
    OBVIOUS
  <1>3. f = [k \in DOMAIN f |-> f[k]] /\ g = [k \in DOMAIN g |-> g[k]]
    BY <1>1, <1>2, EntriesFunction
  <1>4. ASSUME NEW k \in DOMAIN g PROVE k \in DOMAIN f \ D /\ g[k] = f[k]
    <2>1. PICK v, e : k \in Keys /\ Has(U, k, v, e)
      BY <1>2, <1>4, HasEntry
    <2>2. Has(T, k, v, e) /\ k \notin D
      BY <2>1, KeysAreSeqs DEF Loses
    <2>3. g[k] = [val |-> v, exp |-> e]
      <3>1. Entries(U)[k] = [val |-> v, exp |-> e]
        BY <2>1, HasOne
      <3> QED BY <1>2, <3>1
    <2>4. k \in DOMAIN f /\ f[k] = [val |-> v, exp |-> e]
      BY <1>1, <2>1, <2>2, HasOne
    <2> QED BY <2>2, <2>3, <2>4
  <1>5. ASSUME NEW k \in DOMAIN f \ D PROVE k \in DOMAIN g
    <2>1. PICK v, e : k \in Keys /\ Has(T, k, v, e)
      BY <1>1, <1>5, HasEntry
    <2>2. Has(U, k, v, e)
      BY <1>5, <2>1, KeysAreSeqs DEF Loses
    <2> QED BY <1>2, <2>1, <2>2, HasOne
  <1>6. DOMAIN g = DOMAIN f \ D
    BY <1>4, <1>5
  <1>7. g = [k \in DOMAIN f \ D |-> f[k]]
    BY <1>3, <1>4, <1>6
  <1> QED BY <1>1, <1>2, <1>7 DEF Restrict

\* U holds v until e under k, and under the other keys what T holds.
Gains(T, U, k, v, e) ==
  \A key \in Seq(Radixes) : \A x, y : Has(U, key, x, y) <=> IF key = k THEN x = v /\ y = e
                                                             ELSE Has(T, key, x, y)

With(f, k, v, e) == [x \in DOMAIN f \cup {k} |-> IF x = k THEN [val |-> v, exp |-> e] ELSE f[x]]

LEMMA GainsEntries ==
  ASSUME NEW T, Tree(T), Apart(T), NEW U, Tree(U), Apart(U), NEW k \in Keys, NEW v, NEW e,
         Gains(T, U, k, v, e)
  PROVE  Entries(U) = With(Entries(T), k, v, e)
  <1>1. PICK f : f = Entries(T)
    OBVIOUS
  <1>2. PICK g : g = Entries(U)
    OBVIOUS
  <1>3. g = [x \in DOMAIN g |-> g[x]]
    BY <1>2, EntriesFunction
  <1>4. k \in DOMAIN g /\ g[k] = [val |-> v, exp |-> e]
    <2>1. Has(U, k, v, e)
      BY KeysAreSeqs DEF Gains
    <2> QED BY <1>2, <2>1, HasOne
  <1>5. ASSUME NEW x \in DOMAIN g, x # k PROVE x \in DOMAIN f /\ g[x] = f[x]
    <2>1. PICK w, y : x \in Keys /\ Has(U, x, w, y)
      BY <1>2, <1>5, HasEntry
    <2>2. Has(T, x, w, y)
      BY <1>5, <2>1, KeysAreSeqs DEF Gains
    <2>3. g[x] = [val |-> w, exp |-> y]
      <3>1. Entries(U)[x] = [val |-> w, exp |-> y]
        BY <2>1, HasOne
      <3> QED BY <1>2, <3>1
    <2>4. x \in DOMAIN f /\ f[x] = [val |-> w, exp |-> y]
      BY <1>1, <2>1, <2>2, HasOne
    <2> QED BY <2>3, <2>4
  <1>6. ASSUME NEW x \in DOMAIN f, x # k PROVE x \in DOMAIN g
    <2>1. PICK w, y : x \in Keys /\ Has(T, x, w, y)
      BY <1>1, <1>6, HasEntry
    <2>2. Has(U, x, w, y)
      BY <1>6, <2>1, KeysAreSeqs DEF Gains
    <2> QED BY <1>2, <2>1, <2>2, HasOne
  <1>7. DOMAIN g = DOMAIN f \cup {k}
    BY <1>4, <1>5, <1>6
  <1>8. g = [x \in DOMAIN f \cup {k} |-> IF x = k THEN [val |-> v, exp |-> e] ELSE f[x]]
    BY <1>3, <1>4, <1>5, <1>7
  <1> QED BY <1>1, <1>2, <1>8 DEF With

-----------------------------------------------------------------------------
(* What each operation does to the map.                                     *)

\* The map a tree stands for is the store.
KV == INSTANCE KeyValueStore WITH store <- Entries(nodes)

\* The entry of a key is at the node Traverse finds.
LEMMA EntryIs ==
  ASSUME NEW T, NEW k \in Keys, NEW i, i = Traverse(T, k), NEW E, E = Entries(T)
  PROVE  /\ k \in DOMAIN E <=> i # Nil /\ HasVal(T[i])
         /\ k \in DOMAIN E => E[k].val = T[i].val /\ E[k].exp = T[i].exp
  <1>1. PICK f : f = [x \in HeldBy(T) |-> Shown(T[Traverse(T, x)])]
    OBVIOUS
  <1>2. E = f
    BY <1>1, EntriesAre
  <1>3. k \in DOMAIN f <=> i # Nil /\ HasVal(T[i])
    BY <1>1 DEF HeldBy
  <1>4. k \in DOMAIN f => f[k] = Shown(T[i])
    BY <1>1
  <1> QED BY <1>2, <1>3, <1>4 DEF Shown

\* Who reaches the node of a key is that key.
LEMMA HitsAt ==
  ASSUME NEW T, Tree(T), NEW R, Forest(T, R), NEW k \in Seq(Radixes), NEW i, i = Traverse(T, k), i # Nil
  PROVE  Hit(T, k, i) /\ \A f \in Seq(Radixes) : Hit(T, f, i) => f = k
  <1>1. Hit(T, k, i)
    BY HitIsTraverse DEF Forest
  <1>2. \A f \in Seq(Radixes) : Hit(T, f, i) => f = k
    BY <1>1, HitUnique DEF Forest
  <1> QED BY <1>1, <1>2

\* U holds what T holds, but for what is at node i.
ButFor(T, U, i) ==
  \A key \in Seq(Radixes) : \A v, e :
    Has(U, key, v, e) <=> v # Nil /\ \E j : /\ Hit(T, key, j) /\ j # i
                                            /\ T[j].val = v /\ T[j].exp = e

LEMMA LosesOne ==
  ASSUME NEW T, Tree(T), NEW R, Forest(T, R), NEW k \in Keys, NEW i, i = Traverse(T, k), i # Nil, NEW U,
         ButFor(T, U, i)
  PROVE  Loses(T, U, {k})
  <1> SUFFICES ASSUME NEW key \in Seq(Radixes), NEW v, NEW e
               PROVE  Has(U, key, v, e) <=> Has(T, key, v, e) /\ key \notin {k}
    BY DEF Loses
  <1>1. key \in Seq(Radixes) /\ k \in Seq(Radixes)
    BY KeysAreSeqs
  <1>2. Hit(T, k, i) /\ \A f \in Seq(Radixes) : Hit(T, f, i) => f = k
    BY <1>1, HitsAt
  <1>3. CASE key = k
    <2>1. \A j : Hit(T, key, j) => j = i
      BY <1>1, <1>3, HitIsTraverse DEF Forest
    <2>2. ~Has(U, key, v, e)
      BY <2>1 DEF ButFor
    <2> QED BY <1>3, <2>2
  <1>4. CASE key # k
    <2>1. \A j : Hit(T, key, j) => j # i
      BY <1>1, <1>2, <1>4
    <2> QED BY <1>4, <2>1 DEF ButFor, Has
  <1> QED BY <1>3, <1>4

\* A key that is not there is not lost.
LEMMA LosesNone ==
  ASSUME NEW T, Tree(T), NEW R, Forest(T, R), NEW k \in Keys, NEW i, i = Traverse(T, k),
         i # Nil => ~HasVal(T[i])
  PROVE  Loses(T, T, {k})
  <1>1. k \in Seq(Radixes)
    BY KeysAreSeqs
  <1>2. \A j : Hit(T, k, j) => j # Nil /\ j = i
    BY <1>1, HitIsTraverse DEF Forest
  <1>3. \A v, e : ~Has(T, k, v, e)
    BY <1>2 DEF Has, HasVal
  <1> QED BY <1>3 DEF Loses

LEMMA DeleteAtLoses ==
  ASSUME NEW T, Tree(T), NEW R, Forest(T, R), Root \in R, NEW k \in Keys, k # <<>>,
         NEW i, i = Traverse(T, k), i # Nil, NEW U, U = DeleteAt(T, k)
  PROVE  Loses(T, U, {k})
  <1>1. k \in Seq(Radixes)
    BY KeysAreSeqs
  <1>2. PICK p \in DOMAIN T, c \in 0 .. Len(k) - 1 :
          /\ Walk(T, k) = <<p, c, i>> /\ Link(T, p, k[c + 1], i)
          /\ i \in DOMAIN T /\ i \in Idx /\ i # Root
    BY <1>1, TraverseFinds
  <1>3. PICK w : w = Walk(T, k) /\ w[1] = p /\ w[2] = c
    BY <1>2
  <1>4. PICK q : q = k[c + 1]
    OBVIOUS
  <1>5. U = DeleteNode(T, i, p, q)
    BY <1>3, <1>4 DEF DeleteAt
  <1>6. CASE HasChildren(T[i])
    <2>1. U = ClearVal(T, i)
      BY <1>5, <1>6 DEF DeleteNode
    <2>2. ASSUME NEW key \in Seq(Radixes), NEW v, NEW e
          PROVE  Has(U, key, v, e) <=> v # Nil /\ \E j : /\ Hit(T, key, j) /\ j # i
                                                         /\ T[j].val = v /\ T[j].exp = e
      <3>1. key \in Seq(Radixes)
        BY KeysAreSeqs
      <3> QED BY <1>2, <2>1, <3>1, ClearValHas
    <2>3. ButFor(T, U, i)
      BY <2>2 DEF ButFor
    <2> QED BY <2>3, LosesOne
  <1>7. CASE ~HasChildren(T[i])
    <2>1. PICK S : S = {i}
      OBVIOUS
    <2>2. U = Cut(T, S, p, q)
      BY <1>5, <1>7, <2>1 DEF DeleteNode
    <2>3. Pendant(T, R, S, p, q)
      BY <1>2, <1>4, <1>7, <2>1, LeafPendant DEF Forest
    <2>4. ASSUME NEW key \in Seq(Radixes), NEW v, NEW e
          PROVE  Has(U, key, v, e) <=> v # Nil /\ \E j : /\ Hit(T, key, j) /\ j # i
                                                         /\ T[j].val = v /\ T[j].exp = e
      <3>1. key \in Seq(Radixes)
        BY KeysAreSeqs
      <3>2. Has(U, key, v, e) <=> v # Nil /\ \E j : /\ Hit(T, key, j) /\ j \notin S
                                                    /\ T[j].val = v /\ T[j].exp = e
        BY <2>2, <2>3, <3>1, CutHas
      <3> QED BY <2>1, <3>2
    <2>5. ButFor(T, U, i)
      BY <2>4 DEF ButFor
    <2> QED BY <2>5, LosesOne
  <1> QED BY <1>6, <1>7

\* Removing the value of the root, unless that merges its only child into it.
LEMMA ClearRootLoses ==
  ASSUME NEW T, Tree(T), NEW R, Forest(T, R), <<>> \in Keys, NEW U, U = ClearVal(T, Root),
         ~(Cardinality(DOMAIN T[Root].childs) = 1 /\ DOMAIN T[Root].overflow = {})
  PROVE  Loses(T, U, {<<>>})
  <1>1. Root \in DOMAIN T
    BY DEF Tree
  <1>2. PICK V : Rewritten(T, V, Root, Nil) /\ ClearVal(T, Root) = Recompress(V, Root)
    BY <1>1, ClearValShape
  <1>3. Tree(V) /\ V[Root].childs = T[Root].childs /\ V[Root].overflow = T[Root].overflow
    BY <1>2 DEF Rewritten
  <1>4. ~\E r, c : Absorbed(V, U, Root, r, c)
    <2> SUFFICES ASSUME NEW r, NEW c, Absorbed(V, U, Root, r, c) PROVE FALSE
      OBVIOUS
    <2>1. DOMAIN T[Root].childs = {r} /\ DOMAIN T[Root].overflow = {}
      BY <1>3 DEF Absorbed
    <2> QED BY <2>1, FS_Singleton
  <1>5. U = V
    BY <1>2, <1>3, <1>4, RecompressShape
  <1>6. PICK k \in Keys : k = <<>>
    OBVIOUS
  <1>7. Traverse(T, k) = Root /\ Root # Nil
    BY <1>6, ConstantsAssumption DEF Traverse
  <1>8. ASSUME NEW key \in Seq(Radixes), NEW v, NEW e
        PROVE  Has(U, key, v, e) <=> v # Nil /\ \E j : /\ Hit(T, key, j) /\ j # Root
                                                       /\ T[j].val = v /\ T[j].exp = e
    <2>1. key \in Seq(Radixes)
      BY KeysAreSeqs
    <2>2. \A j : Hit(U, key, j) <=> Hit(T, key, j)
      BY <1>2, <1>5, <2>1, RewrittenHits
    <2>3. \A j : Hit(T, key, j) => j \in DOMAIN T
      BY <2>1, HitType
    <2>4. U[Root].val = Nil /\ \A x \in DOMAIN T \ {Root} : U[x] = T[x]
      BY <1>2, <1>5 DEF Rewritten
    <2> QED BY <2>2, <2>3, <2>4 DEF Has
  <1>9. Loses(T, U, {k})
    <2>1. ButFor(T, U, Root)
      BY <1>8 DEF ButFor
    <2> QED BY <1>7, <2>1, LosesOne
  <1> QED BY <1>6, <1>9

\* What can be read is read under a key, and U shows nothing new under what is
\* no key.
Named(T)       == \A s \in Seq(Radixes) : \A v, e : Has(T, s, v, e) => s \in Keys
NoStrays(T, U) == \A s \in Seq(Radixes) \ Keys : \A v, e : Has(U, s, v, e) => Has(T, s, v, e)

LEMMA NamedStays ==
  ASSUME NEW T, NEW U, Named(T), NoStrays(T, U)
  PROVE  Named(U)
  BY DEF Named, NoStrays

LEMMA SelfStrays == ASSUME NEW T, NEW U, U = T PROVE NoStrays(T, U)
  BY DEF NoStrays

LEMMA AgreeStrays == ASSUME NEW T, NEW U, Agree(T, U) PROVE NoStrays(T, U)
  BY DEF NoStrays, Agree

LEMMA LosesStrays == ASSUME NEW T, NEW U, NEW D, Loses(T, U, D) PROVE NoStrays(T, U)
  BY DEF NoStrays, Loses

LEMMA ButForStrays == ASSUME NEW T, NEW U, NEW i, ButFor(T, U, i) PROVE NoStrays(T, U)
  BY DEF NoStrays, ButFor, Has

LEMMA GainsStrays ==
  ASSUME NEW T, NEW U, NEW k \in Keys, NEW v, NEW e, Gains(T, U, k, v, e)
  PROVE  NoStrays(T, U)
  BY DEF NoStrays, Gains

LEMMA VisibleIs ==
  ASSUME NEW k \in Keys, NEW i, i = Traverse(nodes, k)
  PROVE  KV!Visible(k) <=> i # Nil /\ HasVal(nodes[i]) /\ ~IsExpired(nodes[i])
  <1>1. PICK E : E = Entries(nodes)
    OBVIOUS
  <1>2. /\ k \in DOMAIN E <=> i # Nil /\ HasVal(nodes[i])
        /\ k \in DOMAIN E => E[k].val = nodes[i].val /\ E[k].exp = nodes[i].exp
    BY <1>1, EntryIs
  <1>3. KV!Visible(k) <=> k \in DOMAIN E /\ ~(E[k].exp # NoExpiracy /\ E[k].exp < now)
    BY <1>1 DEF KV!Visible, KV!Expired
  <1> QED BY <1>2, <1>3 DEF IsExpired

\* What is lost is dropped from the store.
LEMMA LosesDrops ==
  ASSUME Tree(nodes), Forest(nodes, {Root}), NEW W, W = nodes', Tree(W), Forest(W, {Root}), NEW D,
         Loses(nodes, W, D)
  PROVE  Entries(nodes)' = KV!Drop(D)
  <1>1. Entries(W) = Restrict(Entries(nodes), DOMAIN Entries(nodes) \ D)
    BY LosesEntries DEF Forest
  <1>2. Entries(nodes)' = Restrict(Entries(nodes), DOMAIN Entries(nodes) \ D)
    BY <1>1
  <1> QED BY <1>2 DEF KV!Drop, KV!Restrict, Restrict

\* What is gained is put into the store.
LEMMA GainsPuts ==
  ASSUME Tree(nodes), Forest(nodes, {Root}), NEW W, W = nodes', Tree(W), Forest(W, {Root}),
         NEW k \in Keys, NEW v, NEW e, Gains(nodes, W, k, v, e)
  PROVE  Entries(nodes)' = KV!Put(k, v, e)
  <1>1. Entries(W) = With(Entries(nodes), k, v, e)
    BY GainsEntries DEF Forest
  <1>2. Entries(nodes)' = With(Entries(nodes), k, v, e)
    BY <1>1
  <1> QED BY <1>2 DEF KV!Put, With

LEMMA AgreesSame ==
  ASSUME Tree(nodes), Forest(nodes, {Root}), NEW W, W = nodes', Tree(W), Forest(W, {Root}),
         Agree(nodes, W)
  PROVE  Entries(nodes)' = Entries(nodes)
  <1>1. Entries(W) = Entries(nodes)
    BY SameEntries DEF Forest
  <1> QED BY <1>1

LEMMA DelMaps ==
  ASSUME Typed, Forest(nodes, {Root}), NEW W, W = nodes', Tree(W), Forest(W, {Root}),
         NEW k \in Keys, Del(k), RootKept
  PROVE  KV!Del(k) /\ NoStrays(nodes, W)
  <1>1. PICK i : i = Traverse(nodes, k)
    OBVIOUS
  <1>2. Tree(nodes)
    BY DEF Typed
  <1>3. PICK R : R = {Root}
    OBVIOUS
  <1>4. Forest(nodes, R) /\ Root \in R
    BY <1>3
  <1>5. Loses(nodes, W, {k})
    <2>1. CASE k = <<>>
      <3>1. W = ClearVal(nodes, Root)
        BY <2>1 DEF Del, Update
      <3>2. ~(Cardinality(DOMAIN nodes[Root].childs) = 1 /\ DOMAIN nodes[Root].overflow = {})
        BY <2>1 DEF RootKept
      <3> QED BY <1>2, <1>4, <2>1, <3>1, <3>2, ClearRootLoses
    <2>2. CASE k # <<>> /\ (i = Nil \/ (HasChildren(nodes[i]) /\ ~HasVal(nodes[i])))
      <3>1. W = nodes
        BY <1>1, <2>2 DEF Del, Update
      <3> QED BY <1>1, <1>2, <1>4, <2>2, <3>1, LosesNone
    <2>3. CASE k # <<>> /\ ~(i = Nil \/ (HasChildren(nodes[i]) /\ ~HasVal(nodes[i])))
      <3>1. W = DeleteAt(nodes, k)
        BY <1>1, <2>3 DEF Del, Update
      <3> QED BY <1>1, <1>2, <1>4, <2>3, <3>1, DeleteAtLoses
    <2> QED BY <2>1, <2>2, <2>3
  <1>6. Entries(nodes)' = KV!Drop({k})
    BY <1>2, <1>5, LosesDrops
  <1>7. ret' = IF k \in DOMAIN Entries(nodes) THEN Entries(nodes)[k].val ELSE Nil
    <2>1. PICK E : E = Entries(nodes)
      OBVIOUS
    <2>2. ret' = IF i = Nil THEN Nil ELSE nodes[i].val
      BY <1>1 DEF Del, Reply
    <2>3. /\ k \in DOMAIN E <=> i # Nil /\ HasVal(nodes[i])
          /\ k \in DOMAIN E => E[k].val = nodes[i].val
      BY <1>1, <2>1, EntryIs
    <2> QED BY <2>1, <2>2, <2>3 DEF HasVal
  <1>8. call' = <<"del", k>> /\ now' = now
    BY DEF Del, Reply
  <1>9. NoStrays(nodes, W)
    BY <1>5, LosesStrays
  <1> QED BY <1>6, <1>7, <1>8, <1>9 DEF KV!Del

LEMMA GetMaps ==
  ASSUME Typed, Forest(nodes, {Root}), NEW W, W = nodes', Tree(W), Forest(W, {Root}),
         NEW k \in Keys, Get(k), RootKept
  PROVE  KV!Get(k) /\ NoStrays(nodes, W)
  <1>1. PICK i : i = Traverse(nodes, k)
    OBVIOUS
  <1>2. Tree(nodes)
    BY DEF Typed
  <1>3. PICK R : R = {Root}
    OBVIOUS
  <1>4. Forest(nodes, R) /\ Root \in R
    BY <1>3
  <1>5. PICK E : E = Entries(nodes)
    OBVIOUS
  <1>6. /\ k \in DOMAIN E <=> i # Nil /\ HasVal(nodes[i])
        /\ k \in DOMAIN E => E[k].val = nodes[i].val
    BY <1>1, <1>5, EntryIs
  <1>7. KV!Visible(k) <=> i # Nil /\ HasVal(nodes[i]) /\ ~IsExpired(nodes[i])
    BY <1>1, VisibleIs
  <1>8. call' = <<"get", k>> /\ now' = now
    BY DEF Get, Reply
  <1>9. CASE i = Nil \/ ~IsExpired(nodes[i])
    <2>1. ret' = (IF i = Nil THEN Nil ELSE nodes[i].val) /\ W = nodes
      BY <1>1, <1>9 DEF Get, Reply
    <2>2. ret' = IF KV!Visible(k) THEN Entries(nodes)[k].val ELSE Nil
      BY <1>5, <1>6, <1>7, <1>9, <2>1 DEF HasVal
    <2>3. CASE KV!Visible(k)
      <3>1. Entries(nodes)' = Entries(nodes)
        BY <2>1
      <3>2. NoStrays(nodes, W)
        BY <2>1, SelfStrays
      <3> QED BY <1>8, <2>2, <2>3, <3>1, <3>2 DEF KV!Get
    <2>4. CASE ~KV!Visible(k)
      <3>1. Loses(nodes, W, {k})
        BY <1>1, <1>2, <1>4, <1>7, <1>9, <2>1, <2>4, LosesNone
      <3>2. Entries(nodes)' = KV!Drop({k})
        BY <1>2, <3>1, LosesDrops
      <3>3. NoStrays(nodes, W)
        BY <3>1, LosesStrays
      <3> QED BY <1>8, <2>2, <2>4, <3>2, <3>3 DEF KV!Get
    <2> QED BY <2>3, <2>4
  <1>10. CASE i # Nil /\ IsExpired(nodes[i])
    <2>1. ret' = Nil /\ W = IF k = <<>> THEN ClearVal(nodes, Root) ELSE DeleteAt(nodes, k)
      BY <1>1, <1>10 DEF Get, Reply, Update
    <2>2. ~KV!Visible(k)
      BY <1>7, <1>10
    <2>3. CASE k = <<>>
      <3>1. i = Root
        BY <1>1, <2>3 DEF Traverse
      <3>2. ~(Cardinality(DOMAIN nodes[Root].childs) = 1 /\ DOMAIN nodes[Root].overflow = {})
        BY <1>10, <2>3, <3>1 DEF RootKept
      <3>3. Loses(nodes, W, {k})
        BY <1>2, <1>4, <2>1, <2>3, <3>2, ClearRootLoses
      <3>4. Entries(nodes)' = KV!Drop({k})
        BY <1>2, <3>3, LosesDrops
      <3>5. NoStrays(nodes, W)
        BY <3>3, LosesStrays
      <3> QED BY <1>8, <2>1, <2>2, <3>4, <3>5 DEF KV!Get
    <2>4. CASE k # <<>>
      <3>1. W = DeleteAt(nodes, k)
        BY <2>1, <2>4
      <3>2. Loses(nodes, W, {k})
        BY <1>1, <1>2, <1>4, <1>10, <2>4, <3>1, DeleteAtLoses
      <3>3. Entries(nodes)' = KV!Drop({k})
        BY <1>2, <3>2, LosesDrops
      <3>4. NoStrays(nodes, W)
        BY <3>2, LosesStrays
      <3> QED BY <1>8, <2>1, <2>2, <3>3, <3>4 DEF KV!Get
    <2> QED BY <2>3, <2>4
  <1> QED BY <1>9, <1>10

\* The node of k is written: k has what is written, the others what they had.
LEMMA RewrittenGains ==
  ASSUME NEW T, Tree(T), NEW R, Forest(T, R), NEW k \in Keys, NEW i, i = Traverse(T, k), i # Nil,
         NEW U, NEW v, Rewritten(T, U, i, v), NEW e, U[i].exp = e, v # Nil
  PROVE  Gains(T, U, k, v, e)
  <1> SUFFICES ASSUME NEW key \in Seq(Radixes), NEW x, NEW y
               PROVE  Has(U, key, x, y) <=> IF key = k THEN x = v /\ y = e ELSE Has(T, key, x, y)
    BY DEF Gains
  <1>1. key \in Seq(Radixes) /\ k \in Seq(Radixes)
    BY KeysAreSeqs
  <1>2. Hit(T, k, i) /\ \A f \in Seq(Radixes) : Hit(T, f, i) => f = k
    BY <1>1, HitsAt
  <1>3. \A j : Hit(U, key, j) <=> Hit(T, key, j)
    BY <1>1, RewrittenHits
  <1>4. \A j : Hit(T, key, j) => j \in DOMAIN T
    BY <1>1, HitType
  <1>5. U[i].val = v /\ \A j \in DOMAIN T \ {i} : U[j] = T[j]
    BY DEF Rewritten
  <1>6. CASE key = k
    <2>1. \A j : Hit(U, key, j) <=> j = i
      BY <1>1, <1>2, <1>3, <1>6, HitIsTraverse DEF Forest
    <2> QED BY <1>5, <1>6, <2>1 DEF Has
  <1>7. CASE key # k
    <2>1. \A j : Hit(T, key, j) => j # i /\ U[j] = T[j]
      BY <1>1, <1>2, <1>4, <1>5, <1>7
    <2> QED BY <1>3, <1>7, <2>1 DEF Has
  <1> QED BY <1>6, <1>7

\* A node without a value is written and gets none.
LEMMA RewrittenAgrees ==
  ASSUME NEW T, Tree(T), NEW U, NEW i, Rewritten(T, U, i, Nil), T[i].val = Nil
  PROVE  Agree(T, U)
  <1> SUFFICES ASSUME NEW key \in Seq(Radixes), NEW v, NEW e
               PROVE  Has(T, key, v, e) <=> Has(U, key, v, e)
    BY DEF Agree
  <1>1. key \in Seq(Radixes)
    BY KeysAreSeqs
  <1>2. \A j : Hit(U, key, j) <=> Hit(T, key, j)
    BY <1>1, RewrittenHits
  <1>3. \A j : Hit(T, key, j) => j \in DOMAIN T
    BY <1>1, HitType
  <1>4. U[i].val = Nil /\ \A j \in DOMAIN T \ {i} : U[j] = T[j]
    BY DEF Rewritten
  <1> QED BY <1>2, <1>3, <1>4 DEF Has

\* The node of k is written.
LEMMA RewrittenMaps ==
  ASSUME NEW T, Tree(T), NEW R, Forest(T, R), NEW W, Tree(W), Forest(W, R),
         NEW k \in Keys, NEW i, i = Traverse(T, k), i # Nil,
         NEW v, Rewritten(T, W, i, v), NEW e, W[i].exp = e
  PROVE  /\ v # Nil => Entries(W) = With(Entries(T), k, v, e)
         /\ v = Nil /\ T[i].val = Nil => Entries(W) = Entries(T)
         /\ v # Nil \/ T[i].val = Nil => NoStrays(T, W)
  <1>1. ASSUME v # Nil PROVE Entries(W) = With(Entries(T), k, v, e)
    <2>1. Gains(T, W, k, v, e)
      BY <1>1, RewrittenGains
    <2> QED BY <2>1, GainsEntries DEF Forest
  <1>2. ASSUME v = Nil, T[i].val = Nil PROVE Entries(W) = Entries(T)
    <2>1. Rewritten(T, W, i, Nil)
      BY <1>2
    <2>2. Agree(T, W)
      BY <1>2, <2>1, RewrittenAgrees
    <2> QED BY <2>2, SameEntries DEF Forest
  <1>3. ASSUME v # Nil PROVE NoStrays(T, W)
    <2>1. Gains(T, W, k, v, e)
      BY <1>3, RewrittenGains
    <2> QED BY <2>1, GainsStrays
  <1>4. ASSUME v = Nil, T[i].val = Nil PROVE NoStrays(T, W)
    <2>1. Rewritten(T, W, i, Nil)
      BY <1>4
    <2>2. Agree(T, W)
      BY <1>4, <2>1, RewrittenAgrees
    <2> QED BY <2>2, AgreeStrays
  <1> QED BY <1>1, <1>2, <1>3, <1>4

LEMMA PutIs ==
  ASSUME NEW W, W = nodes', NEW k, NEW v, NEW e, Entries(W) = With(Entries(nodes), k, v, e)
  PROVE  Entries(nodes)' = KV!Put(k, v, e)
  <1>1. Entries(nodes)' = With(Entries(nodes), k, v, e)
    OBVIOUS
  <1> QED BY <1>1 DEF KV!Put, With

LEMMA GetTtlMaps ==
  ASSUME Typed, Forest(nodes, {Root}), NEW k \in Keys, GetTtl(k),
         NEW i, i = Traverse(nodes, k), i # Nil => HasVal(nodes[i])
  PROVE  KV!Ttl(k)
  <1>1. PICK E : E = Entries(nodes)
    OBVIOUS
  <1>2. /\ k \in DOMAIN E <=> i # Nil /\ HasVal(nodes[i])
        /\ k \in DOMAIN E => E[k].exp = nodes[i].exp
    BY <1>1, EntryIs
  <1>3. KV!Visible(k) <=> i # Nil /\ HasVal(nodes[i]) /\ ~IsExpired(nodes[i])
    BY VisibleIs
  <1>4. /\ call' = <<"ttl", k>> /\ nodes' = nodes /\ now' = now
        /\ ret' = IF i = Nil THEN <<"KeyNotExist">>
                  ELSE IF IsExpired(nodes[i]) THEN <<"KeyNotExist">>
                  ELSE IF nodes[i].exp = NoExpiracy THEN <<"KeyWithoutTtl">>
                  ELSE <<"KeyWithTtl", nodes[i].exp - now>>
    BY DEF GetTtl, Reply
  <1>5. Entries(nodes)' = Entries(nodes)
    BY <1>4
  <1>6. ret' = IF ~KV!Visible(k) THEN <<"KeyNotExist">>
               ELSE IF E[k].exp = NoExpiracy THEN <<"KeyWithoutTtl">>
               ELSE <<"KeyWithTtl", E[k].exp - now>>
    <2>1. CASE KV!Visible(k)
      <3>1. E[k].exp = nodes[i].exp /\ i # Nil /\ ~IsExpired(nodes[i])
        BY <1>2, <1>3, <2>1
      <3> QED BY <1>4, <2>1, <3>1
    <2>2. CASE ~KV!Visible(k)
      <3>1. i = Nil \/ IsExpired(nodes[i])
        BY <1>3, <2>2
      <3> QED BY <1>4, <2>2, <3>1
    <2> QED BY <2>1, <2>2
  <1> QED BY <1>1, <1>4, <1>5, <1>6 DEF KV!Ttl

LEMMA ExpireMaps ==
  ASSUME Typed, Forest(nodes, {Root}), NEW W, W = nodes', Tree(W), Forest(W, {Root}),
         NEW k \in Keys, NEW e \in Nat, Expire(k, e), ~panicked', ExpireAgrees(k)
  PROVE  KV!Expire(k, e) /\ NoStrays(nodes, W)
  <1>1. PICK i : i = Traverse(nodes, k)
    OBVIOUS
  <1>2. PICK E : E = Entries(nodes)
    OBVIOUS
  <1>3. /\ k \in DOMAIN E <=> i # Nil /\ HasVal(nodes[i])
        /\ k \in DOMAIN E => E[k].val = nodes[i].val /\ E[k].exp = nodes[i].exp
    BY <1>1, <1>2, EntryIs
  <1>4. KV!Visible(k) <=> i # Nil /\ HasVal(nodes[i]) /\ ~IsExpired(nodes[i])
    BY <1>1, VisibleIs
  <1>5. CASE i = Nil \/ IsExpired(nodes[i])
    <2>1. call' = <<"expire", k>> /\ ret' = FALSE /\ nodes' = nodes /\ now' = now
      BY <1>1, <1>5 DEF Expire, Reply
    <2>2. ~KV!Visible(k)
      BY <1>4, <1>5
    <2>3. Entries(nodes)' = Entries(nodes) /\ NoStrays(nodes, W)
      BY <2>1, SelfStrays
    <2>4. ret' = KV!Visible(k)
      BY <2>1, <2>2 DEF KV!Visible
    <2> QED BY <2>1, <2>2, <2>3, <2>4 DEF KV!Expire
  <1>6. CASE ~(i = Nil \/ IsExpired(nodes[i]))
    <2>1. ~(e > NoExpiracy)
      BY <1>1, <1>6 DEF Expire, Panic
    <2>2. /\ call' = <<"expire", k>> /\ ret' = (nodes[i].exp = NoExpiracy)
          /\ W = [nodes EXCEPT ![i].exp = e] /\ now' = now
      BY <1>1, <1>6, <2>1 DEF Expire, Reply
    <2>3. e \in 0 .. NoExpiracy
      BY <2>1, ConstantsAssumption
    <2>v. PICK v : v = nodes[i].val
      OBVIOUS
    <2>4. /\ v # Nil => Entries(W) = With(Entries(nodes), k, v, e)
          /\ v = Nil => Entries(W) = Entries(nodes)
          /\ NoStrays(nodes, W)
      <3>1. i # Nil
        BY <1>6
      <3>2. W = [nodes EXCEPT ![i].exp = e]
        BY <2>2
      <3>3. PICK R : R = {Root}
        OBVIOUS
      <3>4. Forest(nodes, R) /\ Forest(W, R) /\ Tree(nodes)
        BY <3>3 DEF Typed
      <3>5. i \in DOMAIN nodes
        BY <1>1, <3>1, <3>4, KeysAreSeqs, TraverseType
      <3>6. Rewritten(nodes, W, i, v) /\ W[i].exp = e
        <4>1. PICK T : T = nodes
          OBVIOUS
        <4>2. Tree(T) /\ i \in DOMAIN T /\ W = [T EXCEPT ![i].exp = e]
          BY <3>2, <3>4, <3>5, <4>1
        <4>3. Rewritten(T, W, i, T[i].val)
          BY <2>3, <4>2, WriteExp
        <4>4. W[i].exp = e
          <5>1. T[i] \in Nodes
            BY <4>2 DEF Tree
          <5>2. W[i] = [T[i] EXCEPT !.exp = e]
            BY <4>2
          <5> QED BY <5>1, <5>2 DEF Nodes
        <4> QED BY <2>v, <4>1, <4>3, <4>4
      <3>7. /\ v # Nil => Entries(W) = With(Entries(nodes), k, v, e)
            /\ v = Nil /\ nodes[i].val = Nil => Entries(W) = Entries(nodes)
            /\ v # Nil \/ nodes[i].val = Nil => NoStrays(nodes, W)
        BY <1>1, <3>1, <3>4, <3>6, RewrittenMaps
      <3> QED BY <2>v, <3>7
    <2>5. HasVal(nodes[i]) /\ nodes[i].exp = NoExpiracy
      BY <1>1, <1>6 DEF ExpireAgrees
    <2>6. KV!Expire(k, e)
      <3>1. KV!Visible(k) /\ E[k].val = nodes[i].val
        BY <1>3, <1>4, <1>6, <2>5
      <3>2. ret' = TRUE
        BY <2>2, <2>5
      <3>3. Entries(nodes)' = KV!Put(k, Entries(nodes)[k].val, e)
        <4>1. Entries(nodes)' = KV!Put(k, v, e)
          BY <2>4, <2>5, <2>v, PutIs DEF HasVal
        <4> QED BY <1>2, <2>v, <3>1, <4>1
      <3> QED BY <2>2, <3>1, <3>2, <3>3 DEF KV!Expire
    <2> QED BY <2>4, <2>6
  <1> QED BY <1>5, <1>6

LEMMA PersistMaps ==
  ASSUME Typed, Forest(nodes, {Root}), NEW W, W = nodes', Tree(W), Forest(W, {Root}),
         NEW k \in Keys, Persist(k), PersistAgrees(k)
  PROVE  KV!Persist(k) /\ NoStrays(nodes, W)
  <1>1. PICK i : i = Traverse(nodes, k)
    OBVIOUS
  <1>2. PICK E : E = Entries(nodes)
    OBVIOUS
  <1>3. /\ k \in DOMAIN E <=> i # Nil /\ HasVal(nodes[i])
        /\ k \in DOMAIN E => E[k].val = nodes[i].val /\ E[k].exp = nodes[i].exp
    BY <1>1, <1>2, EntryIs
  <1>4. call' = <<"persist", k>> /\ now' = now
    BY DEF Persist, Reply
  <1>s. KV!Visible(k) <=> k \in DOMAIN E
    <2>1. KV!Visible(k) <=> i # Nil /\ HasVal(nodes[i]) /\ ~IsExpired(nodes[i])
      BY <1>1, VisibleIs
    <2>2. i = Nil \/ ~IsExpired(nodes[i]) \/ ~HasVal(nodes[i])
      BY <1>1 DEF PersistAgrees
    <2> QED BY <1>3, <2>1, <2>2
  <1>5. CASE i = Nil \/ nodes[i].exp = NoExpiracy
    <2>1. ret' = FALSE /\ nodes' = nodes
      BY <1>1, <1>5 DEF Persist, Reply
    <2>2. Entries(nodes)' = E /\ NoStrays(nodes, W)
      BY <1>2, <2>1, SelfStrays
    <2>3. ret' = (k \in DOMAIN E /\ E[k].exp # NoExpiracy)
      BY <1>3, <1>5, <2>1
    <2>4. CASE k \in DOMAIN E
      <3>1. E[k].exp = NoExpiracy
        BY <1>3, <1>5, <2>4
      <3>2. E = KV!Put(k, E[k].val, NoExpiracy)
        <4>1. E = [x \in DOMAIN E |-> E[x]]
          BY <1>2, EntriesFunction
        <4>2. E = [x \in HeldBy(nodes) |-> Shown(nodes[Traverse(nodes, x)])]
          BY <1>2, EntriesAre
        <4>3. E[k] = Shown(nodes[i])
          BY <1>1, <2>4, <4>2
        <4>4. E[k] = [val |-> E[k].val, exp |-> NoExpiracy]
          BY <3>1, <4>3 DEF Shown
        <4>5. DOMAIN E \cup {k} = DOMAIN E
          BY <2>4
        <4>6. KV!Put(k, E[k].val, NoExpiracy) =
                [x \in DOMAIN E \cup {k} |->
                   IF x = k THEN [val |-> E[k].val, exp |-> NoExpiracy] ELSE E[x]]
          BY <1>2 DEF KV!Put
        <4> QED BY <4>1, <4>4, <4>5, <4>6
      <3> QED BY <1>s, <1>2, <1>4, <2>2, <2>3, <2>4, <3>2 DEF KV!Persist
    <2>5. CASE k \notin DOMAIN E
      BY <1>s, <1>2, <1>4, <2>2, <2>3, <2>5 DEF KV!Persist
    <2> QED BY <2>4, <2>5
  <1>6. CASE ~(i = Nil \/ nodes[i].exp = NoExpiracy)
    <2>1. ret' = HasVal(nodes[i]) /\ W = [nodes EXCEPT ![i].exp = NoExpiracy]
      BY <1>1, <1>6 DEF Persist, Reply
    <2>2. NoExpiracy \in 0 .. NoExpiracy
      BY ConstantsAssumption
    <2>v. PICK v : v = nodes[i].val
      OBVIOUS
    <2>3. /\ v # Nil => Entries(W) = With(Entries(nodes), k, v, NoExpiracy)
          /\ v = Nil => Entries(W) = Entries(nodes)
          /\ NoStrays(nodes, W)
      <3>1. i # Nil
        BY <1>6
      <3>2. W = [nodes EXCEPT ![i].exp = NoExpiracy]
        BY <2>1
      <3>3. PICK R : R = {Root}
        OBVIOUS
      <3>4. Forest(nodes, R) /\ Forest(W, R) /\ Tree(nodes)
        BY <3>3 DEF Typed
      <3>5. i \in DOMAIN nodes
        BY <1>1, <3>1, <3>4, KeysAreSeqs, TraverseType
      <3>6. Rewritten(nodes, W, i, v) /\ W[i].exp = NoExpiracy
        <4>1. PICK T : T = nodes
          OBVIOUS
        <4>2. Tree(T) /\ i \in DOMAIN T /\ W = [T EXCEPT ![i].exp = NoExpiracy]
          BY <3>2, <3>4, <3>5, <4>1
        <4>3. Rewritten(T, W, i, T[i].val)
          BY <2>2, <4>2, WriteExp
        <4>4. W[i].exp = NoExpiracy
          <5>1. T[i] \in Nodes
            BY <4>2 DEF Tree
          <5>2. W[i] = [T[i] EXCEPT !.exp = NoExpiracy]
            BY <4>2
          <5> QED BY <5>1, <5>2 DEF Nodes
        <4> QED BY <2>v, <4>1, <4>3, <4>4
      <3>7. /\ v # Nil => Entries(W) = With(Entries(nodes), k, v, NoExpiracy)
            /\ v = Nil /\ nodes[i].val = Nil => Entries(W) = Entries(nodes)
            /\ v # Nil \/ nodes[i].val = Nil => NoStrays(nodes, W)
        BY <1>1, <3>1, <3>4, <3>6, RewrittenMaps
      <3> QED BY <2>v, <3>7
    <2>4. ret' = (k \in DOMAIN E /\ E[k].exp # NoExpiracy)
      BY <1>3, <1>6, <2>1 DEF HasVal
    <2>5. CASE HasVal(nodes[i])
      <3>1. k \in DOMAIN E /\ E[k].val = nodes[i].val
        BY <1>3, <1>6, <2>5
      <3>2. Entries(nodes)' = KV!Put(k, E[k].val, NoExpiracy)
        <4>1. Entries(nodes)' = KV!Put(k, v, NoExpiracy)
          BY <2>3, <2>5, <2>v, PutIs DEF HasVal
        <4> QED BY <2>v, <3>1, <4>1
      <3> QED BY <1>s, <1>2, <1>4, <2>3, <2>4, <3>1, <3>2 DEF KV!Persist
    <2>6. CASE ~HasVal(nodes[i])
      <3>1. k \notin DOMAIN E
        BY <1>3, <2>6
      <3>2. Entries(nodes)' = Entries(nodes)
        BY <2>3, <2>6, <2>v DEF HasVal
      <3> QED BY <1>s, <1>2, <1>4, <2>3, <2>4, <3>1, <3>2 DEF KV!Persist
    <2> QED BY <2>5, <2>6
  <1> QED BY <1>5, <1>6

LEMMA EvictButFor ==
  ASSUME Typed, Forest(nodes, {Root}), Orderly, NEW i \in Idx, Evict(i), NEW W, W = nodes'
  PROVE  ButFor(nodes, W, i)
  <1>1. PICK p : p = nodes[i].parent
    OBVIOUS
  <1>2. PICK r : r = nodes[i].radix
    OBVIOUS
  <1>3. Tree(nodes) /\ i \in DOMAIN nodes /\ i # Root
    BY ConstantsAssumption DEF Evict, Typed
  <1>4. W = DeleteNode(nodes, i, p, r)
    BY <1>1, <1>2 DEF Evict
  <1>5. PICK R : R = {Root}
    OBVIOUS
  <1>6. Forest(nodes, R) /\ Root \in R
    BY <1>5
  <1>7. CASE HasChildren(nodes[i])
    <2>1. W = ClearVal(nodes, i)
      BY <1>4, <1>7 DEF DeleteNode
    <2>2. ASSUME NEW key \in Seq(Radixes), NEW v, NEW e
          PROVE  Has(W, key, v, e) <=> v # Nil /\ \E j : /\ Hit(nodes, key, j) /\ j # i
                                                         /\ nodes[j].val = v /\ nodes[j].exp = e
      <3>1. key \in Seq(Radixes)
        BY KeysAreSeqs
      <3> QED BY <1>3, <1>6, <2>1, <3>1, ClearValHas
    <2> QED BY <2>2 DEF ButFor
  <1>8. CASE ~HasChildren(nodes[i])
    <2>1. W = Cut(nodes, {i}, p, r)
      BY <1>4, <1>8 DEF DeleteNode
    <2>2. p \in DOMAIN nodes /\ Find(nodes, p, r) = i
      BY <1>1, <1>2, <1>8 DEF Orderly
    <2>3. Link(nodes, p, r, i)
      BY <1>3, <2>2, FindLink, ConstantsAssumption
    <2>4. Pendant(nodes, R, {i}, p, r)
      BY <1>3, <1>6, <1>8, <2>3, LeafPendant DEF Forest
    <2>5. ASSUME NEW key \in Seq(Radixes), NEW v, NEW e
          PROVE  Has(W, key, v, e) <=> v # Nil /\ \E j : /\ Hit(nodes, key, j) /\ j # i
                                                         /\ nodes[j].val = v /\ nodes[j].exp = e
      <3>1. key \in Seq(Radixes)
        BY KeysAreSeqs
      <3>2. PICK S : S = {i}
        OBVIOUS
      <3>3. Has(W, key, v, e) <=> v # Nil /\ \E j : /\ Hit(nodes, key, j) /\ j \notin S
                                                    /\ nodes[j].val = v /\ nodes[j].exp = e
        BY <1>3, <1>6, <2>1, <2>4, <3>1, <3>2, CutHas
      <3> QED BY <3>2, <3>3
    <2> QED BY <2>5 DEF ButFor
  <1> QED BY <1>7, <1>8

\* What is dropped is the entry of the evicted node, if a key leads there.
LEMMA EvictMaps ==
  ASSUME Typed, Named(nodes), Forest(nodes, {Root}), NEW W, W = nodes', Tree(W), Forest(W, {Root}), Orderly,
         NEW i \in Idx, Evict(i)
  PROVE  /\ (\E k \in Keys : KV!Evict(k)) \/ UNCHANGED <<Entries(nodes), now, call, ret>>
         /\ NoStrays(nodes, W)
  <1>1. Tree(nodes) /\ ButFor(nodes, W, i)
    BY EvictButFor DEF Typed
  <1>2. PICK R : R = {Root}
    OBVIOUS
  <1>3. Forest(nodes, R)
    BY <1>2
  <1>4. now' = now /\ call' = call /\ ret' = ret /\ IsExpired(nodes[i])
    BY DEF Evict
  <1>s. NoStrays(nodes, W)
    BY <1>1, ButForStrays
  <1>5. CASE \E k \in Keys : Hit(nodes, k, i) /\ HasVal(nodes[i])
    <2>1. PICK k \in Keys : Hit(nodes, k, i) /\ HasVal(nodes[i])
      BY <1>5
    <2>2. k \in Seq(Radixes)
      BY KeysAreSeqs
    <2>3. i # Nil /\ i = Traverse(nodes, k)
      BY <1>1, <1>3, <2>1, <2>2, HitIsTraverse DEF Forest
    <2>4. Loses(nodes, W, {k})
      BY <1>1, <1>3, <2>3, LosesOne
    <2>5. Entries(nodes)' = KV!Drop({k})
      BY <1>1, <2>4, LosesDrops
    <2>6. k \in DOMAIN Entries(nodes) /\ KV!Expired(Entries(nodes)[k])
      <3>1. PICK E : E = Entries(nodes)
        OBVIOUS
      <3>2. k \in DOMAIN E /\ E[k].exp = nodes[i].exp
        BY <2>1, <2>3, <3>1, EntryIs
      <3> QED BY <1>4, <3>1, <3>2 DEF KV!Expired, IsExpired
    <2>7. KV!Evict(k)
      BY <1>4, <2>5, <2>6 DEF KV!Evict
    <2> QED BY <1>s, <2>7
  <1>6. CASE ~\E k \in Keys : Hit(nodes, k, i) /\ HasVal(nodes[i])
    <2>1. Agree(nodes, W)
      <3> SUFFICES ASSUME NEW key \in Seq(Radixes), NEW v, NEW e
                   PROVE  Has(nodes, key, v, e) <=> Has(W, key, v, e)
        BY DEF Agree
      <3>1. Hit(nodes, key, i) => nodes[i].val = Nil
        <4>1. SUFFICES ASSUME Hit(nodes, key, i), nodes[i].val # Nil
                       PROVE  FALSE
          OBVIOUS
        <4>2. PICK w, x : w = nodes[i].val /\ x = nodes[i].exp
          OBVIOUS
        <4>3. Has(nodes, key, w, x)
          BY <4>1, <4>2 DEF Has
        <4>4. key \in Keys
          BY <4>3 DEF Named
        <4> QED BY <1>6, <4>1, <4>4 DEF HasVal
      <3>2. Has(W, key, v, e) <=> v # Nil /\ \E j : /\ Hit(nodes, key, j) /\ j # i
                                                    /\ nodes[j].val = v /\ nodes[j].exp = e
        BY <1>1 DEF ButFor
      <3> QED BY <3>1, <3>2 DEF Has
    <2>2. Entries(nodes)' = Entries(nodes)
      BY <1>1, <2>1, AgreesSame
    <2> QED BY <1>s, <1>4, <2>2
  <1> QED BY <1>5, <1>6

LEMMA TickMaps ==
  ASSUME NEW t, Tick(t)
  PROVE  KV!Tick(t)
  <1>1. now' = t /\ nodes' = nodes /\ call' = call /\ ret' = ret
    BY DEF Tick
  <1>2. Entries(nodes)' = Entries(nodes)
    BY <1>1
  <1> QED BY <1>1, <1>2 DEF KV!Tick

-----------------------------------------------------------------------------
(* What making a node for a key changes of what a tree holds: nothing.      *)

\* s cut at n, with the radix that is passed over between the pieces.
LEMMA CutJoins ==
  ASSUME NEW s \in Seq(Radixes), NEW n \in 0 .. Len(s) - 1, NEW a, a = Upto(s, n),
         NEW b, b = Rest(s, n + 1)
  PROVE  Joined(s, a, s[n + 1], b)
  <1>1. PICK l \in Nat : l = Len(s)
    BY LenProperties
  <1>2. n \in 0 .. l - 1 /\ n \in 0 .. l /\ n + 1 \in 0 .. l /\ n + 1 \in 1 .. l /\ n \in Nat
    BY <1>1
  <1>3. a \in Seq(Radixes) /\ Len(a) = n /\ \A m \in 1 .. n : a[m] = s[m]
    BY <1>1, <1>2, PrefixType DEF Upto
  <1>4. b \in Seq(Radixes) /\ Len(b) = l - (n + 1) /\ \A m \in 1 .. l - (n + 1) : b[m] = s[n + 1 + m]
    BY <1>1, <1>2, RestType
  <1>5. PICK q \in Radixes : q = s[n + 1]
    BY <1>1, <1>2, ElementOfSeq
  <1>6. PICK t : t = a \o <<q>>
    OBVIOUS
  <1>7. t \in Seq(Radixes) /\ Len(t) = n + 1 /\ (\A m \in 1 .. n : t[m] = a[m]) /\ t[n + 1] = q
    BY <1>2, <1>3, <1>5, <1>6
  <1>8. PICK u : u = t \o b
    OBVIOUS
  <1>9. u \in Seq(Radixes) /\ Len(u) = l
    <2>1. t \o b \in Seq(Radixes) /\ Len(t \o b) = Len(t) + Len(b)
      BY <1>4, <1>7, ConcatProperties
    <2> QED BY <1>2, <1>4, <1>7, <1>8, <2>1
  <1>10. \A m \in 1 .. n + 1 : u[m] = t[m]
    BY <1>4, <1>7, <1>8, <1>9
  <1>11. \A m \in 1 .. l - (n + 1) : u[n + 1 + m] = b[m]
    BY <1>4, <1>7, <1>8, <1>9
  <1>12. ASSUME NEW m \in 1 .. l PROVE u[m] = s[m]
    <2>1. CASE m \in 1 .. n
      <3>1. m \in 1 .. n + 1
        BY <2>1
      <3> QED BY <1>3, <1>7, <1>10, <2>1, <3>1
    <2>2. CASE m = n + 1
      <3>1. m \in 1 .. n + 1
        BY <1>2, <2>2
      <3> QED BY <1>5, <1>7, <1>10, <2>2, <3>1
    <2>3. CASE m > n + 1
      <3>1. PICK o : o = m - (n + 1)
        OBVIOUS
      <3>2. o \in 1 .. l - (n + 1) /\ n + 1 + o = m
        BY <1>2, <2>3, <3>1
      <3> QED BY <1>4, <1>11, <3>2
    <2>4. m \in 1 .. n \/ m = n + 1 \/ m > n + 1
      BY <1>2
    <2> QED BY <2>1, <2>2, <2>3, <2>4
  <1>13. s = u
    BY <1>1, <1>9, <1>12, SeqEqual
  <1> QED BY <1>5, <1>6, <1>8, <1>13 DEF Joined

LEMMA SplitMerges ==
  ASSUME NEW T, Tree(T), NEW R, Forest(T, R), NEW U, NEW j \in DOMAIN T \ {Root}, NEW b \in Idx \ DOMAIN T,
         NEW n \in 0 .. Len(T[j].compression) - 1, U = SplitNode(T, j, n, b)
  PROVE  \E q : Merged(T, U, j, q, b)
  <1>1. PICK comp \in Seq(Radixes) : comp = T[j].compression
    BY DEF Tree, Nodes
  <1>2. PICK q : q = comp[n + 1]
    OBVIOUS
  <1>3. /\ SplitInto(T, U, j, b, q) /\ U[b].compression = Rest(comp, n + 1)
        /\ U[j].compression = Upto(comp, n)
    BY <1>1, <1>2, SplitShape
  <1>4. /\ DOMAIN U = DOMAIN T \cup {b} /\ b # j
        /\ \A x \in DOMAIN T \ {j} : U[x] = T[x]
        /\ U[b].childs = T[j].childs /\ U[b].overflow = T[j].overflow
        /\ DOMAIN U[j].childs = {q} /\ U[j].childs[q] = b /\ DOMAIN U[j].overflow = {}
    BY <1>3 DEF SplitInto
  <1>5. Joined(comp, U[j].compression, q, U[b].compression)
    BY <1>1, <1>2, <1>3, CutJoins
  <1>6. \A r, y : Link(U, j, r, y) <=> r = q /\ y = b
    BY <1>4 DEF Link
  <1>7. \A r, y : Link(T, j, r, y) <=> Link(U, b, r, y)
    BY <1>4 DEF Link
  <1>8. \A x, r, y : x # j /\ x # b => (Link(T, x, r, y) <=> Link(U, x, r, y))
    BY <1>4 DEF Link
  <1>9. \A x, r : ~Link(T, x, r, b)
    BY DEF Forest, Graph
  <1>10. \A x, r : Link(U, x, r, b) => x = j
    BY <1>7, <1>8, <1>9
  <1>11. q \in Radixes
    <2>1. Tree(U) /\ Link(U, j, q, b)
      BY <1>3, <1>6 DEF SplitInto
    <2> QED BY <2>1, LinkType
  <1>12. j # Root /\ j # b /\ b \notin DOMAIN T
    BY <1>4
  <1>13. Joined(T[j].compression, U[j].compression, q, U[b].compression)
    BY <1>1, <1>5
  <1> QED BY <1>4, <1>6, <1>7, <1>8, <1>10, <1>11, <1>12, <1>13 DEF Merged

LEMMA SplitAgrees ==
  ASSUME NEW T, Tree(T), NEW R, Forest(T, R), NEW U, NEW j \in DOMAIN T \ {Root}, NEW b \in Idx \ DOMAIN T,
         NEW n \in 0 .. Len(T[j].compression) - 1, U = SplitNode(T, j, n, b)
  PROVE  Agree(T, U)
  <1>1. PICK q : Merged(T, U, j, q, b)
    BY SplitMerges
  <1>2. U[b].exp = T[j].exp /\ U[j].val = Nil /\ SplitInto(T, U, j, b, T[j].compression[n + 1])
    BY SplitShape
  <1>3. U[b].val = T[j].val /\ Tree(U) /\ \A x \in DOMAIN T \ {j} : U[x] = T[x]
    BY <1>2 DEF SplitInto
  <1>4. \A x \in DOMAIN T \ {j} : T[x].val = U[x].val /\ T[x].exp = U[x].exp
    BY <1>3
  <1> SUFFICES ASSUME NEW key \in Seq(Radixes), NEW v, NEW e
               PROVE  Has(T, key, v, e) <=> Has(U, key, v, e)
    BY DEF Agree
  <1>5. key \in Seq(Radixes)
    BY KeysAreSeqs
  <1> QED BY <1>1, <1>2, <1>3, <1>4, <1>5, MergedHas

\* The upper piece of a compression that is split lies on the way of a key that
\* shares it.
LEMMA SplitReaches ==
  ASSUME NEW T, Tree(T), NEW R, Forest(T, R), NEW U, NEW j \in DOMAIN T \ {Root}, NEW b \in Idx \ DOMAIN T,
         NEW n \in 0 .. Len(T[j].compression) - 1, U = SplitNode(T, j, n, b),
         NEW key \in Seq(Radixes), NEW i, NEW c \in 0 .. Len(key) - 1, <<i, c>> \in Path(T, key),
         Link(T, i, key[c + 1], j), c + 1 + n <= Len(key),
         SpellsAt(key, c + 1, Upto(T[j].compression, n))
  PROVE  <<j, c + 1 + n>> \in Path(U, key)
  <1>1. PICK q : Merged(T, U, j, q, b)
    BY SplitMerges
  <1>2. U[j].compression = Upto(T[j].compression, n) /\ SplitInto(T, U, j, b, T[j].compression[n + 1])
    BY SplitShape
  <1>3. Tree(U)
    BY <1>2 DEF SplitInto
  <1>4. PICK comp \in Seq(Radixes) : comp = T[j].compression
    BY DEF Tree, Nodes
  <1>5. PICK h : h = U[j].compression
    OBVIOUS
  <1>6. Len(h) = n
    <2>1. n \in 0 .. Len(comp)
      BY <1>4, LenProperties
    <2>2. h = SubSeq(comp, 1, n)
      BY <1>2, <1>4, <1>5 DEF Upto
    <2> QED BY <2>1, <2>2, PrefixType
  <1>7. i # j /\ i \in DOMAIN T
    BY NoLoop DEF Forest, Link
  <1>8. <<i, c>> \in Path(U, key)
    BY <1>1, <1>3, <1>7, PathMergedDown
  <1>9. i # b
    BY <1>7
  <1>10. Link(U, i, key[c + 1], j) /\ j \in DOMAIN U
    BY <1>1, <1>7, <1>9 DEF Merged
  <1>11. SpellsAt(key, c + 1, h)
    BY <1>2, <1>5
  <1>12. c < Len(key)
    BY LenProperties
  <1>13. Descends(U, key, i, c, j, c + 1 + n)
    BY <1>5, <1>6, <1>10, <1>11, <1>12 DEF Descends
  <1> QED BY <1>3, <1>8, <1>13, PathLeast DEF Followed

\* A leaf is on no way but its own.
NewLeaf(T, U, p, a, q) ==
  /\ Carries(T, U, DOMAIN T, {}) /\ Carries(U, T, DOMAIN T, {a})
  /\ Tree(U) /\ DOMAIN U = DOMAIN T \cup {a} /\ a \notin DOMAIN T /\ Link(U, p, q, a)

LEMMA HungCarries ==
  ASSUME NEW T, Tree(T), NEW U, NEW p, NEW a, NEW q, HungInto(T, U, p, a, q)
  PROVE  NewLeaf(T, U, p, a, q)
  <1>1. /\ Tree(U) /\ DOMAIN U = DOMAIN T \cup {a} /\ a # p /\ p \in DOMAIN T /\ a \notin DOMAIN T
        /\ \A x \in DOMAIN T \ {p} : U[x] = T[x]
        /\ DOMAIN U[a].childs = {} /\ DOMAIN U[a].overflow = {}
        /\ U[p].compression = T[p].compression
    BY DEF HungInto
  <1>2. \A j : ~Link(T, p, q, j)
    BY <1>1, FindLink DEF HungInto
  <1>3. q \notin DOMAIN T[p].childs /\ q \notin DOMAIN T[p].overflow
    BY <1>1, <1>2 DEF Link
  <1>4. \A r, j : Link(U, p, r, j) <=> Link(T, p, r, j) \/ (r = q /\ j = a)
    <2>1. CASE ChildAdded(T[p].childs, U[p].childs, q, a) /\ U[p].overflow = T[p].overflow
      BY <1>1, <1>3, <2>1 DEF ChildAdded, Link
    <2>2. CASE U[p].childs = T[p].childs /\ ChildAdded(T[p].overflow, U[p].overflow, q, a)
      BY <1>1, <1>3, <2>2 DEF ChildAdded, Link
    <2> QED BY <2>1, <2>2 DEF HungInto
  <1>5. \A x \in DOMAIN T \ {p} : \A r, j : Link(U, x, r, j) <=> Link(T, x, r, j)
    BY <1>1 DEF Link
  <1>6. \A r, j : ~Link(U, a, r, j)
    BY <1>1 DEF Link
  <1>7. \A x \in DOMAIN T : U[x].compression = T[x].compression
    BY <1>1
  <1>8. Root \in DOMAIN T /\ Root # a
    BY <1>1 DEF Tree
  <1>9. Carries(T, U, DOMAIN T, {})
    BY <1>1, <1>4, <1>5, <1>7, <1>8 DEF Carries
  <1>10. Carries(U, T, DOMAIN T, {a})
    <2>1. ASSUME NEW i \in DOMAIN T, NEW r, NEW j, Link(U, i, r, j), j \in DOMAIN U, j # a
          PROVE  j \in DOMAIN T /\ Link(T, i, r, j) /\ T[j].compression = U[j].compression
      BY <1>1, <1>4, <1>5, <1>7, <2>1
    <2> QED BY <1>6, <1>8, <2>1 DEF Carries
  <1> QED BY <1>1, <1>4, <1>9, <1>10 DEF NewLeaf

LEMMA LeafAgrees ==
  ASSUME NEW T, Tree(T), NEW U, NEW p, NEW a, NEW q, HungInto(T, U, p, a, q), U[p].exp = T[p].exp,
         U[a].val = Nil
  PROVE  Agree(T, U)
  <1>1. /\ Carries(T, U, DOMAIN T, {}) /\ Carries(U, T, DOMAIN T, {a})
        /\ Tree(U) /\ a \notin DOMAIN T
    BY HungCarries DEF NewLeaf
  <1>2. \A x \in DOMAIN T : U[x].val = T[x].val /\ U[x].exp = T[x].exp
    BY DEF HungInto
  <1> SUFFICES ASSUME NEW key \in Seq(Radixes), NEW v, NEW e
               PROVE  Has(T, key, v, e) <=> Has(U, key, v, e)
    BY DEF Agree
  <1>3. key \in Seq(Radixes)
    BY KeysAreSeqs
  <1>4. PICK k : k = Len(key)
    OBVIOUS
  <1>5. ASSUME NEW j, <<j, k>> \in Path(T, key) PROVE j \in DOMAIN T /\ <<j, k>> \in Path(U, key)
    BY <1>1, <1>3, <1>5, PathCarries
  <1>6. ASSUME NEW j, <<j, k>> \in Path(U, key) PROVE j = a \/ (j \in DOMAIN T /\ <<j, k>> \in Path(T, key))
    BY <1>1, <1>3, <1>6, PathCarries
  <1> QED BY <1>2, <1>4, <1>5, <1>6 DEF Has, Hit

\* A leaf for the rest of a key is where the key leads.
LEMMA LeafReaches ==
  ASSUME NEW T, Tree(T), NEW U, NEW p, NEW a, NEW q, HungInto(T, U, p, a, q),
         NEW key \in Seq(Radixes), NEW c \in 0 .. Len(key) - 1, <<p, c>> \in Path(T, key), q = key[c + 1],
         U[a].compression = Rest(key, c + 1)
  PROVE  Hit(U, key, a)
  <1>1. Carries(T, U, DOMAIN T, {}) /\ Tree(U) /\ Link(U, p, q, a) /\ a \in DOMAIN U
    <2>1. NewLeaf(T, U, p, a, q)
      BY HungCarries
    <2> QED BY <2>1 DEF NewLeaf
  <1>2. <<p, c>> \in Path(U, key)
    BY <1>1, PathCarries
  <1>3. Descends(U, key, p, c, a, Len(key))
    <2>1. p \in DOMAIN U
      BY <1>1 DEF Link
    <2>2. Link(U, p, key[c + 1], a)
      BY <1>1
    <2> QED BY <1>1, <2>1, <2>2, GoesOnDescends
  <1> QED BY <1>1, <1>2, <1>3, PathLeast DEF Followed, Hit

LEMMA RestRest ==
  ASSUME NEW key \in Seq(Radixes), NEW c \in 0 .. Len(key), NEW n \in 0 .. Len(key) - c
  PROVE  Rest(Rest(key, c), n) = Rest(key, c + n)
  <1>1. PICK l \in Nat : l = Len(key)
    BY LenProperties
  <1>2. c \in 0 .. l /\ n \in 0 .. l - c /\ c + n \in 0 .. l /\ c \in Nat /\ n \in Nat
    BY <1>1
  <1>3. PICK s : s = Rest(key, c)
    OBVIOUS
  <1>4. s \in Seq(Radixes) /\ Len(s) = l - c /\ \A m \in 1 .. l - c : s[m] = key[c + m]
    BY <1>1, <1>2, <1>3, RestType
  <1>5. PICK t : t = Rest(s, n)
    OBVIOUS
  <1>6. t \in Seq(Radixes) /\ Len(t) = l - c - n /\ \A m \in 1 .. l - c - n : t[m] = s[n + m]
    <2>1. n \in 0 .. Len(s)
      BY <1>2, <1>4
    <2>2. t \in Seq(Radixes) /\ Len(t) = Len(s) - n /\ \A m \in 1 .. Len(s) - n : t[m] = s[n + m]
      BY <1>4, <1>5, <2>1, RestType
    <2> QED BY <1>4, <2>2
  <1>7. PICK u : u = Rest(key, c + n)
    OBVIOUS
  <1>8. u \in Seq(Radixes) /\ Len(u) = l - (c + n) /\ \A m \in 1 .. l - (c + n) : u[m] = key[c + n + m]
    BY <1>1, <1>2, <1>7, RestType
  <1>9. ASSUME NEW m \in 1 .. l - c - n PROVE t[m] = u[m]
    <2>1. n + m \in 1 .. l - c /\ c + (n + m) = c + n + m /\ m \in 1 .. l - (c + n)
      BY <1>2
    <2>2. t[m] = s[n + m]
      BY <1>6
    <2>3. s[n + m] = key[c + n + m]
      BY <1>4, <2>1
    <2>4. u[m] = key[c + n + m]
      BY <1>8, <2>1
    <2> QED BY <2>2, <2>3, <2>4
  <1>10. Len(t) = Len(u) /\ Len(t) = l - c - n
    BY <1>2, <1>6, <1>8
  <1>11. t = u
    BY <1>6, <1>8, <1>9, <1>10, SeqEqual
  <1> QED BY <1>3, <1>5, <1>7, <1>11

LEMMA TailRest ==
  ASSUME NEW key \in Seq(Radixes), NEW c \in 0 .. Len(key) - 1
  PROVE  /\ Rest(key, c) \in Seq(Radixes) /\ Rest(key, c) # <<>> /\ Head(Rest(key, c)) = key[c + 1]
         /\ Tail(Rest(key, c)) = Rest(key, c + 1)
  <1>1. PICK l \in Nat : l = Len(key)
    BY LenProperties
  <1>2. c \in 0 .. l - 1 /\ c \in 0 .. l /\ c \in Nat /\ 1 \in 0 .. l - c /\ 1 \in 1 .. l - c
    BY <1>1
  <1>3. PICK s : s = Rest(key, c)
    OBVIOUS
  <1>4. s \in Seq(Radixes) /\ Len(s) = l - c /\ s[1] = key[c + 1]
    BY <1>1, <1>2, <1>3, RestType
  <1>5. s # <<>> /\ Len(s) > 0
    BY <1>2, <1>4
  <1>6. Head(s) = s[1]
    BY <1>4, <1>5
  <1>7. Tail(s) = Rest(s, 1)
    BY <1>4, <1>5 DEF Rest
  <1>8. Rest(s, 1) = Rest(key, c + 1)
    BY <1>1, <1>2, <1>3, RestRest
  <1> QED BY <1>3, <1>4, <1>5, <1>6, <1>7, <1>8

\* U holds what T holds and has x for key, a node that T has already or an
\* empty one.
Makes(T, U, key, x) ==
  /\ Agree(T, U) /\ Hit(U, key, x)
  /\ IF Traverse(T, key) = Nil THEN U[x].val = Nil /\ U[x].exp = NoExpiracy
                               ELSE U = T /\ x = Traverse(T, key)

\* A walk that meets no child ends with a leaf for the rest of the key.
LEMMA LeafMakes ==
  ASSUME NEW T, Tree(T), NEW key \in Seq(Radixes), NEW p \in DOMAIN T, NEW c \in 0 .. Len(key) - 1,
         <<p, c>> \in Path(T, key), Find(T, p, key[c + 1]) = Nil, NEW a \in Idx \ DOMAIN T,
         NEW U, U = AddLeaf(T, p, Rest(key, c), a)
  PROVE  Agree(T, U) /\ Hit(U, key, a) /\ U[a].val = Nil /\ U[a].exp = NoExpiracy
  <1>1. PICK rest : rest = Rest(key, c)
    OBVIOUS
  <1>2. PICK q : q = key[c + 1]
    OBVIOUS
  <1>3. rest \in Seq(Radixes) /\ rest # <<>> /\ q = Head(rest) /\ Tail(rest) = Rest(key, c + 1)
    BY <1>1, <1>2, TailRest
  <1>4. U = AddLeaf(T, p, rest, a) /\ Find(T, p, q) = Nil
    BY <1>1, <1>2
  <1>5. /\ HungInto(T, U, p, a, q) /\ U[p].exp = T[p].exp
        /\ U[a].compression = Tail(rest) /\ U[a].val = Nil /\ U[a].exp = NoExpiracy
    BY <1>3, <1>4, AddLeafShape
  <1>6. Agree(T, U)
    BY <1>5, LeafAgrees
  <1>7. Hit(U, key, a)
    BY <1>2, <1>3, <1>5, LeafReaches
  <1> QED BY <1>5, <1>6, <1>7

LEMMA AgreeTwice ==
  ASSUME NEW T, NEW U, NEW V, Agree(T, U), Agree(U, V)
  PROVE  Agree(T, V)
  BY DEF Agree

\* What the walk of a key that is not empty meets decides.
LEMMA EnsureMakes ==
  ASSUME NEW T, Tree(T), NEW R, Forest(T, R), NEW key \in Seq(Radixes), NEW r \in EnsureKey(T, key),
         NEW U, U = r[1], NEW x, x = r[2]
  PROVE  Makes(T, U, key, x)
  <1>0. \A S : FreeIdx(S) \subseteq Idx \ DOMAIN S
    BY ConstantsAssumption DEF FreeIdx
  <1>n. Nil \notin DOMAIN T
    BY ConstantsAssumption DEF Tree, Indices
  <1>h. ASSUME U = T, x = Traverse(T, key), x # Nil PROVE Makes(T, U, key, x)
    <2>1. Hit(T, key, x)
      BY <1>h, HitIsTraverse DEF Forest
    <2>2. Agree(T, T)
      BY DEF Agree
    <2> QED BY <1>h, <2>1, <2>2 DEF Makes
  <1>1. CASE key = <<>>
    <2>1. r = <<T, Root>>
      BY <1>1 DEF EnsureKey
    <2>2. Traverse(T, key) = Root /\ Root # Nil
      BY <1>1, ConstantsAssumption DEF Traverse
    <2> QED BY <1>h, <2>1, <2>2
  <1>2. CASE key # <<>>
    <2>1. PICK i \in DOMAIN T, c \in 0 .. Len(key) - 1 :
            /\ <<i, c>> \in Path(T, key) /\ Walk(T, key) = <<i, c, Find(T, i, key[c + 1])>>
            /\ ~GoesOn(T, key, <<i, c>>)
      BY <1>2, WalkOnPath
    <2>2. PICK j : j = Find(T, i, key[c + 1])
      OBVIOUS
    <2>3. PICK w : w = Walk(T, key) /\ w[1] = i /\ w[2] = c /\ w[3] = j
      BY <2>1, <2>2
    <2>t. Traverse(T, key) = IF j \in DOMAIN T /\ T[j].compression = Rest(key, c + 1) THEN j ELSE Nil
      BY <1>2, <2>3 DEF Traverse
    <2>4. CASE j = Nil
      <3>1. PICK a \in FreeIdx(T) : r = <<AddLeaf(T, i, Rest(key, c), a), a>>
        BY <1>2, <2>3, <2>4 DEF EnsureKey
      <3>2. U = AddLeaf(T, i, Rest(key, c), a) /\ x = a /\ a \in Idx \ DOMAIN T
        BY <1>0, <3>1
      <3>3. Agree(T, U) /\ Hit(U, key, a) /\ U[a].val = Nil /\ U[a].exp = NoExpiracy
        <4>1. Find(T, i, key[c + 1]) = Nil /\ <<i, c>> \in Path(T, key)
          BY <2>1, <2>2, <2>4
        <4> QED BY <3>2, <4>1, LeafMakes
      <3>4. Traverse(T, key) = Nil
        BY <1>n, <2>4, <2>t
      <3> QED BY <3>2, <3>3, <3>4 DEF Makes
    <2>5. CASE j # Nil
      <3>1. j \in Idx /\ j # Root /\ Link(T, i, key[c + 1], j)
        BY <2>1, <2>2, <2>5, FindLink, LinkType
      <3>2. j \in DOMAIN T
        BY <1>2, <2>3, <2>5 DEF EnsureKey
      <3>3. PICK comp \in Seq(Radixes) : comp = T[j].compression
        BY <3>2 DEF Tree, Nodes
      <3>4. PICK rest \in Seq(Radixes) : rest = Rest(key, c + 1)
        BY RestType, c + 1 \in 0 .. Len(key)
      <3>5. ~IsStrictPrefix(comp, rest)
        <4>1. Below(T, key, <<i, c>>) = j
          BY <2>2 DEF Below
        <4> QED BY <2>1, <3>2, <3>3, <3>4, <4>1 DEF GoesOn
      <3>6. CASE comp = rest
        <4>1. r = <<T, j>>
          BY <1>2, <2>3, <2>5, <3>2, <3>3, <3>4, <3>6 DEF EnsureKey
        <4>2. Traverse(T, key) = j
          BY <2>t, <3>2, <3>3, <3>4, <3>6
        <4> QED BY <1>h, <2>5, <4>1, <4>2
      <3>7. CASE comp # rest
        <4>t. Traverse(T, key) = Nil
          BY <2>t, <3>3, <3>4, <3>7
        <4>1. PICK n : n = Len(LongestCommonPrefix({comp, rest}))
          OBVIOUS
        <4>2. n \in Shared(comp, rest) /\ (n < Len(comp) /\ n < Len(rest) => comp[n + 1] # rest[n + 1])
          BY <4>1, LongestShared
        <4>3. n \in 0 .. Len(comp) /\ n <= Len(rest) /\ \A m \in 1 .. n : comp[m] = rest[m]
          BY <4>2 DEF Shared
        <4>4. n # Len(comp)
          BY <3>5, <3>7, <4>2, PrefixIsShared DEF IsStrictPrefix
        <4>5. n \in 0 .. Len(comp) - 1 /\ n < Len(comp) /\ n \in Nat
          BY <4>3, <4>4
        <4>6. PICK l \in Nat : /\ l = Len(key) /\ c \in 0 .. l - 1 /\ Len(rest) = l - (c + 1)
                               /\ \A m \in 1 .. l - (c + 1) : rest[m] = key[c + 1 + m]
          <5>1. Len(key) \in Nat /\ c + 1 \in 0 .. Len(key)
            BY LenProperties
          <5> QED BY <3>4, <5>1, RestType
        <4>7. n \in 0 .. l - (c + 1) /\ c + 1 + n <= l
          BY <4>3, <4>5, <4>6
        <4>8. SpellsAt(key, c + 1, Upto(T[j].compression, n))
          <5>1. PICK h : h = Upto(comp, n)
            OBVIOUS
          <5>2. Len(h) = n /\ \A m \in 1 .. n : h[m] = comp[m]
            BY <4>3, <5>1, PrefixType DEF Upto
          <5>3. \A m \in 1 .. n : m \in 1 .. l - (c + 1)
            BY <4>7
          <5>4. SpellsAt(key, c + 1, h)
            BY <4>3, <4>6, <5>2, <5>3 DEF SpellsAt
          <5> QED BY <3>3, <5>1, <5>4
        <4>9. ASSUME NEW b \in FreeIdx(T), NEW V, V = SplitNode(T, j, n, b)
              PROVE  /\ b \in Idx \ DOMAIN T /\ Tree(V) /\ DOMAIN V = DOMAIN T \cup {b}
                     /\ Agree(T, V) /\ <<j, c + 1 + n>> \in Path(V, key)
                     /\ V[j].val = Nil /\ V[j].exp = NoExpiracy
                     /\ DOMAIN V[j].overflow = {} /\ DOMAIN V[j].childs = {comp[n + 1]}
          <5>1. b \in Idx \ DOMAIN T /\ j \in DOMAIN T \ {Root} /\ n \in 0 .. Len(T[j].compression) - 1
            BY <1>0, <3>1, <3>2, <3>3, <4>5
          <5>2. /\ SplitInto(T, V, j, b, T[j].compression[n + 1])
                /\ V[j].val = Nil /\ V[j].exp = NoExpiracy
            BY <4>9, <5>1, SplitShape
          <5>3. Agree(T, V)
            BY <4>9, <5>1, SplitAgrees
          <5>4. <<j, c + 1 + n>> \in Path(V, key)
            BY <2>1, <3>1, <4>6, <4>7, <4>8, <4>9, <5>1, SplitReaches
          <5> QED BY <3>3, <5>1, <5>2, <5>3, <5>4 DEF SplitInto
        <4>10. CASE n = Len(rest)
          <5>1. PICK b \in FreeIdx(T) : r = <<SplitNode(T, j, n, b), j>>
            BY <1>2, <2>3, <2>5, <3>2, <3>3, <3>4, <3>7, <4>1, <4>10 DEF EnsureKey
          <5>2. U = SplitNode(T, j, n, b) /\ x = j
            BY <5>1
          <5>3. /\ Agree(T, U) /\ <<j, c + 1 + n>> \in Path(U, key)
                /\ U[j].val = Nil /\ U[j].exp = NoExpiracy
            BY <4>9, <5>2
          <5>4. c + 1 + n = Len(key)
            BY <4>6, <4>10
          <5> QED BY <4>t, <5>2, <5>3, <5>4 DEF Makes, Hit
        <4>11. CASE n # Len(rest)
          <5>1. n < Len(rest) /\ comp[n + 1] # rest[n + 1]
            BY <4>2, <4>3, <4>5, <4>6, <4>11
          <5>2. PICK d \in 0 .. Len(key) - 1 : d = c + 1 + n
            BY <4>6, <4>7, <5>1
          <5>3. Rest(rest, n) = Rest(key, d)
            <6>1. c + 1 \in 0 .. Len(key) /\ n \in 0 .. Len(key) - (c + 1)
              BY <4>6, <4>7
            <6> QED BY <3>4, <5>2, <6>1, RestRest
          <5>4. rest[n + 1] = key[d + 1]
            <6>1. n + 1 \in 1 .. l - (c + 1) /\ c + 1 + (n + 1) = d + 1
              BY <4>5, <4>6, <5>1, <5>2
            <6> QED BY <4>6, <6>1
          <5>5. PICK b \in FreeIdx(T) : \E a \in FreeIdx(SplitNode(T, j, n, b)) :
                  r = <<AddLeaf(SplitNode(T, j, n, b), j, Rest(key, d), a), a>>
            <6>1. r \in Fork(T, j, n, Rest(key, d))
              BY <1>2, <2>3, <2>5, <3>2, <3>3, <3>4, <3>7, <4>1, <4>11, <5>3 DEF EnsureKey
            <6> QED BY <6>1 DEF Fork
          <5>6. PICK V : V = SplitNode(T, j, n, b)
            OBVIOUS
          <5>7. PICK a \in FreeIdx(V) : r = <<AddLeaf(V, j, Rest(key, d), a), a>>
            BY <5>5, <5>6
          <5>8. U = AddLeaf(V, j, Rest(key, d), a) /\ x = a /\ a \in Idx \ DOMAIN V
            BY <1>0, <5>7
          <5>9. /\ Tree(V) /\ Agree(T, V) /\ <<j, d>> \in Path(V, key) /\ j \in DOMAIN V
                /\ DOMAIN V[j].overflow = {} /\ DOMAIN V[j].childs = {comp[n + 1]}
            <6>1. /\ Tree(V) /\ DOMAIN V = DOMAIN T \cup {b} /\ Agree(T, V)
                  /\ <<j, c + 1 + n>> \in Path(V, key)
                  /\ DOMAIN V[j].overflow = {} /\ DOMAIN V[j].childs = {comp[n + 1]}
              BY <4>9, <5>6
            <6> QED BY <3>2, <5>2, <6>1
          <5>10. Find(V, j, key[d + 1]) = Nil
            BY <5>1, <5>4, <5>9 DEF Find
          <5>11. Agree(V, U) /\ Hit(U, key, a) /\ U[a].val = Nil /\ U[a].exp = NoExpiracy
            BY <5>8, <5>9, <5>10, LeafMakes
          <5>12. Agree(T, U)
            BY <5>9, <5>11, AgreeTwice
          <5> QED BY <4>t, <5>8, <5>11, <5>12 DEF Makes
        <4> QED BY <4>10, <4>11
      <3> QED BY <3>6, <3>7
    <2> QED BY <2>4, <2>5
  <1> QED BY <1>1, <1>2

\* W is V with the value v and the deadline e at x.
Writes(V, W, x, v, e) == Rewritten(V, W, x, v) /\ W[x].exp = e

LEMMA BothWritten ==
  ASSUME NEW V, Tree(V), NEW x \in DOMAIN V, NEW v \in Values \cup {Nil}, NEW e \in 0 .. NoExpiracy,
         NEW W, W = [V EXCEPT ![x].val = v, ![x].exp = e]
  PROVE  Writes(V, W, x, v, e)
  <1>1. Rewritten(V, W, x, v)
    BY WriteBoth
  <1>2. V[x] \in Nodes /\ V = [y \in DOMAIN V |-> V[y]]
    BY DEF Tree
  <1>3. PICK n : n = [V[x] EXCEPT !.val = v, !.exp = e]
    OBVIOUS
  <1>4. n.exp = e
    BY <1>2, <1>3 DEF Nodes
  <1>5. W[x] = n
    BY <1>2, <1>3
  <1> QED BY <1>1, <1>4, <1>5 DEF Writes

LEMMA ValWritten ==
  ASSUME NEW V, Tree(V), NEW x \in DOMAIN V, NEW v \in Values \cup {Nil}, NEW e, e = V[x].exp,
         NEW W, W = [V EXCEPT ![x].val = v]
  PROVE  Writes(V, W, x, v, e)
  <1>1. Rewritten(V, W, x, v)
    BY WriteVal
  <1>2. V[x] \in Nodes /\ V = [y \in DOMAIN V |-> V[y]]
    BY DEF Tree
  <1>3. PICK n : n = [V[x] EXCEPT !.val = v]
    OBVIOUS
  <1>4. n.exp = V[x].exp
    BY <1>2, <1>3 DEF Nodes
  <1>5. W[x] = n
    BY <1>2, <1>3
  <1> QED BY <1>1, <1>4, <1>5 DEF Writes

\* Making the node of k and writing it: k has what is written.
LEMMA MadeGains ==
  ASSUME NEW T, Tree(T), NEW R, Forest(T, R), NEW k \in Keys, NEW r \in EnsureKey(T, k),
         NEW V, V = r[1], NEW x, x = r[2], NEW W, NEW v, NEW e, Writes(V, W, x, v, e), v # Nil
  PROVE  Gains(T, W, k, v, e)
  <1>1. k \in Seq(Radixes)
    BY KeysAreSeqs
  <1>2. Makes(T, V, k, x)
    BY <1>1, EnsureMakes
  <1>3. Ensured(T, V, x)
    BY <1>1, EnsureKeyEnsures
  <1>4. Tree(V) /\ Forest(V, R)
    BY <1>3, EnsuredType, ForestEnsured
  <1>5. Agree(T, V) /\ Hit(V, k, x)
    BY <1>2 DEF Makes
  <1>6. x = Traverse(V, k) /\ x # Nil
    BY <1>1, <1>4, <1>5, HitIsTraverse DEF Forest
  <1>7. Gains(V, W, k, v, e)
    <2>1. Rewritten(V, W, x, v) /\ W[x].exp = e
      BY DEF Writes
    <2> QED BY <1>4, <1>6, <2>1, RewrittenGains
  <1> QED BY <1>5, <1>7 DEF Agree, Gains

LEMMA SetMaps ==
  ASSUME Typed, Forest(nodes, {Root}), NEW W, W = nodes', Tree(W), Forest(W, {Root}),
         NEW k \in Keys, NEW v \in Vals, NEW e \in Nat, Set(k, v, e), ~panicked'
  PROVE  KV!Set(k, v, e) /\ NoStrays(nodes, W)
  <1>1. Tree(nodes) /\ k \in Seq(Radixes) /\ v \in Values /\ v # Nil
    BY KeysAreSeqs, ValuesType DEF Typed
  <1>2. ~(e > NoExpiracy \/ Dangles(nodes, k))
    BY DEF Set, Panic
  <1>3. PICK r \in EnsureKey(nodes, k) : Update([r[1] EXCEPT ![r[2]].val = v, ![r[2]].exp = e])
    BY <1>2 DEF Set
  <1>4. PICK V : V = r[1]
    OBVIOUS
  <1>5. PICK x : x = r[2]
    OBVIOUS
  <1>6. Tree(V) /\ x \in DOMAIN V
    <2>1. Ensured(nodes, V, x)
      BY <1>1, <1>4, <1>5, EnsureKeyEnsures
    <2> QED BY <1>1, <2>1, EnsuredType
  <1>7. W = [V EXCEPT ![x].val = v, ![x].exp = e]
    BY <1>3, <1>4, <1>5 DEF Update
  <1>8. Writes(V, W, x, v, e)
    <2>1. e \in 0 .. NoExpiracy
      BY <1>2, ConstantsAssumption
    <2> QED BY <1>1, <1>6, <1>7, <2>1, BothWritten
  <1>9. Gains(nodes, W, k, v, e)
    BY <1>1, <1>4, <1>5, <1>8, MadeGains
  <1>10. Entries(nodes)' = KV!Put(k, v, e)
    BY <1>1, <1>9, GainsPuts
  <1>11. call' = <<"set", k>> /\ ret' = Nil /\ now' = now
    BY <1>2 DEF Set, Reply
  <1>12. NoStrays(nodes, W)
    BY <1>9, GainsStrays
  <1> QED BY <1>10, <1>11, <1>12 DEF KV!Set

\* A node without a value has no deadline that a collection would inherit.
LEMMA CollectMaps ==
  ASSUME Typed, Forest(nodes, {Root}), NEW W, W = nodes', Tree(W), Forest(W, {Root}),
         NEW k \in Keys, Collect(k), ~panicked', NEW i, i = Traverse(nodes, k),
         i # Nil /\ ~HasVal(nodes[i]) => nodes[i].exp = NoExpiracy
  PROVE  KV!Collect(k) /\ NoStrays(nodes, W)
  <1>1. Tree(nodes) /\ k \in Seq(Radixes) /\ Collection \in Values /\ Collection # Nil
    BY KeysAreSeqs, ValuesType DEF Typed
  <1>2. ~Dangles(nodes, k)
    BY DEF Collect, Panic
  <1>3. PICK r \in EnsureKey(nodes, k) :
          LET n == r[1][r[2]]
          IN  IF GetValue(n) # Nil
              THEN Reply("collect", k, GetValue(n)) /\ UNCHANGED <<nodes, tagged, now, panicked>>
              ELSE IF IsExpired(n) THEN Panic("collect", k)
              ELSE /\ Update([r[1] EXCEPT ![r[2]].val = Collection])
                   /\ Reply("collect", k, Collection)
                   /\ UNCHANGED <<now, panicked>>
    BY <1>2 DEF Collect
  <1>4. PICK V : V = r[1]
    OBVIOUS
  <1>5. PICK x : x = r[2]
    OBVIOUS
  <1>6. PICK n : n = V[x]
    OBVIOUS
  <1>7. /\ GetValue(n) # Nil => call' = <<"collect", k>> /\ ret' = GetValue(n) /\ W = nodes /\ now' = now
        /\ GetValue(n) = Nil => /\ ~IsExpired(n) /\ W = [V EXCEPT ![x].val = Collection]
                                /\ call' = <<"collect", k>> /\ ret' = Collection /\ now' = now
    BY <1>3, <1>4, <1>5, <1>6 DEF Panic, Reply, Update
  <1>8. Tree(V) /\ x \in DOMAIN V
    <2>1. Ensured(nodes, V, x)
      BY <1>1, <1>4, <1>5, EnsureKeyEnsures
    <2> QED BY <1>1, <2>1, EnsuredType
  <1>9. IF i = Nil THEN n.val = Nil /\ n.exp = NoExpiracy ELSE n = nodes[i]
    <2>1. PICK R : R = {Root}
      OBVIOUS
    <2>2. Forest(nodes, R)
      BY <2>1
    <2>3. Makes(nodes, V, k, x)
      BY <1>1, <1>4, <1>5, <2>2, EnsureMakes
    <2> QED BY <1>6, <2>3 DEF Makes
  <1>10. KV!Visible(k) <=> i # Nil /\ HasVal(nodes[i]) /\ ~IsExpired(nodes[i])
    BY VisibleIs
  <1>11. CASE GetValue(n) # Nil
    <2>1. i # Nil /\ n = nodes[i] /\ HasVal(n) /\ ~IsExpired(n) /\ GetValue(n) = n.val
      BY <1>9, <1>11 DEF GetValue, HasVal
    <2>2. KV!Visible(k)
      BY <1>10, <2>1
    <2>3. Entries(nodes)[k].val = n.val
      <3>1. PICK E : E = Entries(nodes)
        OBVIOUS
      <3>2. k \in DOMAIN E /\ E[k].val = nodes[i].val
        BY <2>1, <3>1, EntryIs
      <3> QED BY <2>1, <3>1, <3>2
    <2>4. Entries(nodes)' = Entries(nodes) /\ NoStrays(nodes, W)
      BY <1>7, <1>11, SelfStrays
    <2> QED BY <1>7, <1>11, <2>1, <2>2, <2>3, <2>4 DEF KV!Collect
  <1>12. CASE GetValue(n) = Nil
    <2>1. ~IsExpired(n) /\ ~HasVal(n) /\ n.exp = NoExpiracy /\ ~KV!Visible(k)
      <3>1. ~IsExpired(n) /\ ~HasVal(n)
        BY <1>7, <1>12 DEF GetValue, HasVal
      <3> QED BY <1>9, <1>10, <3>1
    <2>2. Writes(V, W, x, Collection, NoExpiracy)
      <3>1. W = [V EXCEPT ![x].val = Collection] /\ NoExpiracy = V[x].exp
        BY <1>6, <1>7, <1>12, <2>1
      <3> QED BY <1>1, <1>8, <3>1, ValWritten
    <2>3. Gains(nodes, W, k, Collection, NoExpiracy)
      BY <1>1, <1>4, <1>5, <2>2, MadeGains
    <2>4. Entries(nodes)' = KV!Put(k, Collection, NoExpiracy)
      BY <1>1, <2>3, GainsPuts
    <2>5. NoStrays(nodes, W)
      BY <2>3, GainsStrays
    <2> QED BY <1>7, <1>12, <2>1, <2>4, <2>5 DEF KV!Collect
  <1> QED BY <1>11, <1>12

\* What is counted in place, and what is made.
LEMMA InPlaceMaps ==
  ASSUME Typed, Forest(nodes, {Root}), NEW W, W = nodes', Tree(W), Forest(W, {Root}),
         NEW k \in Keys, NEW d \in MinInt .. MaxInt, NEW i, i = Traverse(nodes, k), KV!Visible(k),
         IncrInPlace(i, d)
  PROVE  KV!Count(k, d) /\ NoStrays(nodes, W)
  <1>1. Tree(nodes) /\ k \in Seq(Radixes) /\ \A n \in MinInt .. MaxInt :
          <<"Int", n>> \in Values /\ <<"Int", n>> # Nil
    BY KeysAreSeqs, ValuesType DEF Typed
  <1>2. i # Nil /\ HasVal(nodes[i])
    BY VisibleIs
  <1>3. i \in DOMAIN nodes
    BY <1>1, <1>2, TraverseType
  <1>4. PICK E : E = Entries(nodes)
    OBVIOUS
  <1>5. E[k].val = nodes[i].val /\ E[k].exp = nodes[i].exp
    BY <1>2, <1>4, EntryIs
  <1>6. KV!Augends(k) = Parsed(nodes[i].val)
    BY <1>4, <1>5 DEF KV!Augends, Parsed
  <1>7. now' = now
    BY DEF IncrInPlace
  <1>8. CASE Parsed(nodes[i].val) = {}
    <2>1. ret' = <<"Err", "NotAnInteger">> /\ nodes' = nodes
      BY <1>8 DEF IncrInPlace
    <2>2. Entries(nodes)' = Entries(nodes) /\ NoStrays(nodes, W)
      BY <2>1, SelfStrays
    <2> QED BY <1>6, <1>7, <1>8, <2>1, <2>2 DEF KV!Count
  <1>9. CASE Parsed(nodes[i].val) # {}
    <2>1. PICK n \in Parsed(nodes[i].val) : NodeIncr(i, n, d)
      BY <1>9 DEF IncrInPlace
    <2>2. n \in KV!Augends(k)
      BY <1>6, <2>1
    <2>3. CASE n + d \notin MinInt .. MaxInt
      <3>1. ret' = <<"Err", "Overflow">> /\ nodes' = nodes
        BY <2>1, <2>3 DEF NodeIncr
      <3>2. Entries(nodes)' = Entries(nodes) /\ NoStrays(nodes, W)
        BY <3>1, SelfStrays
      <3> QED BY <1>7, <2>2, <2>3, <3>1, <3>2 DEF KV!Count
    <2>4. CASE n + d \in MinInt .. MaxInt
      <3>1. PICK m : m = n + d
        OBVIOUS
      <3>2. PICK v : v = <<"Int", m>>
        OBVIOUS
      <3>3. v \in Values /\ v # Nil
        BY <1>1, <2>4, <3>1, <3>2
      <3>4. W = [nodes EXCEPT ![i].val = v] /\ ret' = <<"Ok", n + d>>
        BY <2>1, <2>4, <3>1, <3>2 DEF NodeIncr
      <3>5. PICK e : e = nodes[i].exp
        OBVIOUS
      <3>6. Writes(nodes, W, i, v, e)
        <4>1. PICK T : T = nodes
          OBVIOUS
        <4>2. Tree(T) /\ i \in DOMAIN T /\ e = T[i].exp /\ W = [T EXCEPT ![i].val = v]
          BY <1>1, <1>3, <3>4, <3>5, <4>1
        <4>3. Writes(T, W, i, v, e)
          BY <3>3, <4>2, ValWritten
        <4> QED BY <4>1, <4>3
      <3>7. Gains(nodes, W, k, v, e)
        <4>1. PICK R : R = {Root}
          OBVIOUS
        <4>2. Forest(nodes, R)
          BY <4>1
        <4>3. Rewritten(nodes, W, i, v) /\ W[i].exp = e
          BY <3>6 DEF Writes
        <4> QED BY <1>1, <1>2, <3>3, <4>2, <4>3, RewrittenGains
      <3>8. Entries(nodes)' = KV!Put(k, v, e)
        BY <1>1, <3>7, GainsPuts
      <3>9. Entries(nodes)' = KV!Put(k, <<"Int", n + d>>, IF KV!Visible(k) THEN Entries(nodes)[k].exp ELSE NoExpiracy)
        BY <1>4, <1>5, <3>1, <3>2, <3>5, <3>8
      <3>10. NoStrays(nodes, W)
        BY <3>7, GainsStrays
      <3> QED BY <1>7, <2>2, <2>4, <3>4, <3>9, <3>10 DEF KV!Count
    <2> QED BY <2>3, <2>4
  <1> QED BY <1>8, <1>9

LEMMA CreatesMaps ==
  ASSUME Typed, Forest(nodes, {Root}), NEW W, W = nodes', Tree(W), Forest(W, {Root}),
         NEW cmd, NEW k \in Keys, NEW d \in MinInt .. MaxInt, ~KV!Visible(k), IncrCreates(cmd, k, d), ~panicked'
  PROVE  KV!Count(k, d) /\ call' = <<cmd, k>> /\ NoStrays(nodes, W)
  <1>1. Tree(nodes) /\ k \in Seq(Radixes)
    BY KeysAreSeqs DEF Typed
  <1>2. ~Dangles(nodes, k)
    BY DEF IncrCreates, Panic
  <1>3. PICK v : v = <<"Int", d>>
    OBVIOUS
  <1>4. v \in Values /\ v # Nil
    BY <1>3, ValuesType
  <1>5. PICK r \in EnsureKey(nodes, k) :
          Update([r[1] EXCEPT ![r[2]].val = v, ![r[2]].exp = NoExpiracy])
    BY <1>2, <1>3 DEF IncrCreates
  <1>6. call' = <<cmd, k>> /\ ret' = <<"Ok", d>> /\ now' = now
    BY <1>2 DEF IncrCreates, Reply
  <1>7. PICK V : V = r[1]
    OBVIOUS
  <1>8. PICK x : x = r[2]
    OBVIOUS
  <1>9. Tree(V) /\ x \in DOMAIN V
    <2>1. Ensured(nodes, V, x)
      BY <1>1, <1>7, <1>8, EnsureKeyEnsures
    <2> QED BY <1>1, <2>1, EnsuredType
  <1>10. W = [V EXCEPT ![x].val = v, ![x].exp = NoExpiracy]
    BY <1>5, <1>7, <1>8 DEF Update
  <1>11. Writes(V, W, x, v, NoExpiracy)
    <2>1. NoExpiracy \in 0 .. NoExpiracy
      BY ConstantsAssumption
    <2> QED BY <1>4, <1>9, <1>10, <2>1, BothWritten
  <1>12. Gains(nodes, W, k, v, NoExpiracy)
    BY <1>1, <1>4, <1>7, <1>8, <1>11, MadeGains
  <1>13. Entries(nodes)' = KV!Put(k, v, NoExpiracy)
    BY <1>1, <1>12, GainsPuts
  <1>14. 0 \in KV!Augends(k) /\ 0 + d = d /\ d \in MinInt .. MaxInt
    BY DEF KV!Augends
  <1>15. /\ 0 + d \in MinInt .. MaxInt /\ ret' = <<"Ok", 0 + d>>
         /\ Entries(nodes)' = KV!Put(k, <<"Int", 0 + d>>, IF KV!Visible(k) THEN Entries(nodes)[k].exp ELSE NoExpiracy)
    BY <1>3, <1>6, <1>13, <1>14
  <1>16. NoStrays(nodes, W)
    BY <1>12, GainsStrays
  <1> QED BY <1>6, <1>14, <1>15, <1>16 DEF KV!Count

LEMMA CountMaps ==
  ASSUME Typed, Forest(nodes, {Root}), NEW W, W = nodes', Tree(W), Forest(W, {Root}),
         NEW cmd, NEW k \in Keys, NEW d \in MinInt .. MaxInt, Count(cmd, k, d), ~panicked'
  PROVE  KV!Count(k, d) /\ call' = <<cmd, k>> /\ NoStrays(nodes, W)
  <1>1. PICK i : i = Traverse(nodes, k)
    OBVIOUS
  <1>2. KV!Visible(k) <=> i # Nil /\ GetValue(nodes[i]) # Nil
    BY <1>1, VisibleIs DEF GetValue, HasVal
  <1>3. CASE KV!Visible(k)
    <2>1. IncrInPlace(i, d) /\ call' = <<cmd, k>>
      BY <1>1, <1>2, <1>3 DEF Count
    <2> QED BY <1>1, <1>3, <2>1, InPlaceMaps
  <1>4. CASE ~KV!Visible(k)
    <2>1. IncrCreates(cmd, k, d)
      BY <1>1, <1>2, <1>4 DEF Count
    <2> QED BY <1>4, <2>1, CreatesMaps
  <1> QED BY <1>3, <1>4

LEMMA IncrByMaps ==
  ASSUME Typed, Forest(nodes, {Root}), NEW W, W = nodes', Tree(W), Forest(W, {Root}),
         NEW k \in Keys, NEW d \in Deltas, IncrBy(k, d), ~panicked'
  PROVE  KV!IncrBy(k, d) /\ NoStrays(nodes, W)
  <1>1. d \in MinInt .. MaxInt /\ Count("incrby", k, d)
    BY ConstantsAssumption DEF IncrBy
  <1>2. KV!Count(k, d) /\ call' = <<"incrby", k>> /\ NoStrays(nodes, W)
    BY <1>1, CountMaps
  <1> QED BY <1>2 DEF KV!IncrBy

LEMMA DecrByMaps ==
  ASSUME Typed, Forest(nodes, {Root}), NEW W, W = nodes', Tree(W), Forest(W, {Root}),
         NEW k \in Keys, NEW d \in Deltas, d # MinInt, DecrBy(k, d), ~panicked'
  PROVE  KV!DecrBy(k, d) /\ NoStrays(nodes, W)
  <1>1. PICK c : c = 0 - d
    OBVIOUS
  <1>2. c \in MinInt .. MaxInt
    BY <1>1, ConstantsAssumption
  <1>3. Count("decrby", k, c)
    BY <1>1 DEF DecrBy, WrappingNeg
  <1>4. KV!Count(k, c) /\ call' = <<"decrby", k>> /\ NoStrays(nodes, W)
    BY <1>2, <1>3, CountMaps
  <1> QED BY <1>1, <1>4 DEF KV!DecrBy

-----------------------------------------------------------------------------
(* What hangs below a prefix, and how much it is.                           *)

\* The child j that x has by q spells what x spells, q and its compression.
LEMMA HitBelow ==
  ASSUME NEW T, Tree(T), NEW s \in Seq(Radixes), NEW x, Hit(T, s, x), NEW q, NEW j, Link(T, x, q, j),
         j \in DOMAIN T, NEW f, Joined(f, s, q, T[j].compression)
  PROVE  f \in Seq(Radixes) /\ Hit(T, f, j)
  <1>1. PICK b : b = T[j].compression
    OBVIOUS
  <1>2. b \in Seq(Radixes) /\ q \in Radixes
    BY <1>1, LinkType DEF Tree, Nodes
  <1>3. PICK l \in Nat, n \in Nat : l = Len(s) /\ n = Len(b)
    BY <1>2, LenProperties
  <1>4. f \in Seq(Radixes) /\ Len(f) = l + 1 + n
    <2>1. Joined(f, s, q, b)
      BY <1>1
    <2>2. f \in Seq(Radixes) /\ Len(f) = Len(s) + 1 + Len(b)
      BY <1>2, <2>1, JoinedLen
    <2> QED BY <1>3, <2>2
  <1>5. SpellsAt(f, 0, f)
    BY <1>4 DEF SpellsAt
  <1>6. SpellsAt(f, 0, s) /\ f[0 + Len(s) + 1] = q /\ SpellsAt(f, 0 + Len(s) + 1, b)
    <2>1. 0 \in Int
      OBVIOUS
    <2> QED BY <1>1, <1>2, <1>5, <2>1, JoinedSpells
  <1>7. f[l + 1] = q /\ SpellsAt(f, l + 1, b)
    BY <1>3, <1>6
  <1>8. Same(s, f, Len(s))
    <2>1. \A m \in 1 .. l : s[m] = f[m]
      BY <1>3, <1>6 DEF SpellsAt
    <2>2. l <= Len(s) /\ l <= Len(f)
      BY <1>3, <1>4
    <2> QED BY <1>3, <2>1, <2>2 DEF Same
  <1>9. <<x, l>> \in Path(T, f)
    BY <1>3, <1>4, <1>8, PathStarts DEF Hit
  <1>10. Descends(T, f, x, l, j, Len(f))
    <2>1. l < Len(f) /\ Len(f) = l + 1 + Len(T[j].compression) /\ Len(f) <= Len(f)
      <3>1. PICK k : k = Len(f)
        OBVIOUS
      <3>2. k = l + 1 + n /\ l < k /\ k <= k
        BY <1>4, <3>1
      <3>3. n = Len(T[j].compression)
        BY <1>1, <1>3
      <3> QED BY <3>1, <3>2, <3>3
    <2>2. Link(T, x, f[l + 1], j) /\ SpellsAt(f, l + 1, T[j].compression)
      BY <1>1, <1>7
    <2> QED BY <2>1, <2>2 DEF Descends
  <1>11. <<j, Len(f)>> \in Path(T, f)
    BY <1>4, <1>9, <1>10, PathLeast DEF Followed
  <1> QED BY <1>4, <1>11 DEF Hit

\* Every node spells something.
LEMMA AllHit ==
  ASSUME NEW T, Tree(T), Graph(T, {Root}), NEW i \in DOMAIN T
  PROVE  \E s \in Seq(Radixes) : Hit(T, s, i)
  <1>1. PICK C : C = {x \in DOMAIN T : \E s \in Seq(Radixes) : Hit(T, s, x)}
    OBVIOUS
  <1>2. Root \in C
    <2>1. PICK s \in Seq(Radixes) : s = <<>>
      BY EmptySeq
    <2>2. Len(s) = 0
      BY <2>1
    <2>3. Hit(T, s, Root)
      BY <2>2, PathLeast DEF Hit
    <2> QED BY <1>1, <2>3 DEF Tree
  <1>3. ASSUME NEW x \in C, NEW r, NEW j, Link(T, x, r, j), j \in DOMAIN T PROVE j \in C
    <2>1. PICK s \in Seq(Radixes) : Hit(T, s, x)
      BY <1>1
    <2>2. PICK f : Joined(f, s, r, T[j].compression)
      BY DEF Joined
    <2>3. f \in Seq(Radixes) /\ Hit(T, f, j)
      BY <1>3, <2>1, <2>2, HitBelow
    <2> QED BY <1>1, <1>3, <2>3
  <1>4. Closed(T, C)
    BY <1>3 DEF Closed
  <1>5. C = DOMAIN T
    BY <1>1, <1>2, <1>4 DEF Graph
  <1> QED BY <1>1, <1>5

\* The subtree that p covers holds what the keys below p lead to.
LEMMA CoverSpans ==
  ASSUME NEW T, Tree(T), Forest(T, {Root}), NEW p \in Seq(Radixes), NEW S, S = Subtree(T, {Cover(T, p)}),
         NEW k \in Seq(Radixes), NEW j, Hit(T, k, j)
  PROVE  j \in S <=> IsPrefix(p, k)
  <1>1. PICK R : R = {Root}
    OBVIOUS
  <1>2. Forest(T, R) /\ Root \in R
    BY <1>1
  <1>3. CASE p = <<>>
    <2>1. Cover(T, p) = Root
      BY <1>3 DEF Cover
    <2>2. S = DOMAIN T
      BY <1>1, <1>2, <2>1, GraphSpans DEF Forest
    <2>3. j \in S
      BY <2>2, HitType
    <2>4. Len(p) = 0 /\ Len(k) \in Nat
      BY <1>3
    <2>5. Same(p, k, Len(p))
      BY <2>4 DEF Same
    <2>6. IsPrefix(p, k)
      BY <2>5, PrefixIsSame
    <2> QED BY <2>3, <2>6
  <1>4. CASE p # <<>> /\ Cover(T, p) = Nil
    <2>1. ~IsPrefix(p, k)
      BY <1>4, NoCover DEF Forest
    <2>2. Nil \notin DOMAIN T
      BY ConstantsAssumption DEF Tree, Indices
    <2>3. PICK A : A = {Cover(T, p)}
      OBVIOUS
    <2>4. A \cap DOMAIN T = {}
      BY <1>4, <2>2, <2>3
    <2>5. Closed(T, {})
      BY DEF Closed
    <2>6. S \subseteq {}
      BY <2>3, <2>4, <2>5, SubtreeLeast
    <2> QED BY <2>1, <2>6
  <1>5. CASE p # <<>> /\ Cover(T, p) # Nil
    <2>1. PICK t : t = Cover(T, p)
      OBVIOUS
    <2>2. S = Subtree(T, {t}) /\ t # Nil
      BY <1>5, <2>1
    <2> QED BY <1>2, <1>5, <2>1, <2>2, CoverHits
  <1> QED BY <1>3, <1>4, <1>5

\* There are as many nodes with a value as keys below p.
LEMMA HeldBelow ==
  ASSUME NEW T, Tree(T), Forest(T, {Root}), Named(T), NEW p \in Seq(Radixes),
         NEW S, S = Subtree(T, {Cover(T, p)}),
         NEW A, A = {k \in HeldBy(T) : IsPrefix(p, k)}, NEW B, B = {i \in S : HasVal(T[i])}
  PROVE  Cardinality(A) = Cardinality(B)
  <1>1. S \subseteq DOMAIN T
    BY SubtreeLeast
  <1>2. IsFiniteSet(B)
    <2>1. IsFiniteSet(Indices)
      BY SlabAssumption, FS_AddElement DEF Indices
    <2>2. B \in SUBSET Indices
      BY <1>1 DEF Tree
    <2> QED BY <2>1, <2>2, FS_Subset
  <1>3. PICK f : f = [k \in A |-> Traverse(T, k)]
    OBVIOUS
  <1>4. ASSUME NEW k \in A PROVE k \in Seq(Radixes) /\ Hit(T, k, f[k]) /\ f[k] \in B
    <2>1. k \in Seq(Radixes) /\ f[k] = Traverse(T, k) /\ f[k] # Nil /\ HasVal(T[f[k]]) /\ IsPrefix(p, k)
      BY <1>3, KeysAreSeqs DEF HeldBy
    <2>2. Hit(T, k, f[k])
      BY <2>1, HitIsTraverse DEF Forest
    <2>3. f[k] \in S
      BY <2>1, <2>2, CoverSpans
    <2> QED BY <2>1, <2>2, <2>3
  <1>5. f \in Injection(A, B)
    <2>1. f \in [A -> B]
      BY <1>3, <1>4
    <2>2. ASSUME NEW x \in A, NEW y \in A, f[x] = f[y] PROVE x = y
      <3>1. PICK j : j = f[x] /\ j = f[y]
        BY <2>2
      <3>2. x \in Seq(Radixes) /\ y \in Seq(Radixes) /\ Hit(T, x, j) /\ Hit(T, y, j)
        BY <1>4, <3>1
      <3> QED BY <3>2, HitUnique DEF Forest
    <2> QED BY <2>1, <2>2 DEF Injection, IsInjective
  <1>6. ASSUME NEW i \in B PROVE \E k \in A : f[k] = i
    <2>1. i \in DOMAIN T /\ i \in S /\ T[i].val # Nil
      BY <1>1 DEF HasVal
    <2>2. PICK s \in Seq(Radixes) : Hit(T, s, i)
      BY <2>1, AllHit DEF Forest
    <2>3. Has(T, s, T[i].val, T[i].exp)
      BY <2>1, <2>2 DEF Has
    <2>4. s \in Keys
      BY <2>3 DEF Named
    <2>5. Traverse(T, s) = i /\ i # Nil
      BY <2>2, HitIsTraverse DEF Forest
    <2>6. IsPrefix(p, s)
      BY <2>1, <2>2, CoverSpans
    <2>7. s \in A
      BY <2>1, <2>4, <2>5, <2>6 DEF HeldBy, HasVal
    <2> QED BY <1>3, <2>5, <2>7
  <1>7. f \in Surjection(A, B)
    BY <1>3, <1>4, <1>6 DEF Surjection
  <1> QED BY <1>2, <1>5, <1>7, FS_Injection

LEMMA SizeIs == ASSUME NEW A PROVE KV!Cardinality(A) = Cardinality(A)
  BY DEF KV!Cardinality, Cardinality

LEMMA UnderIs ==
  ASSUME NEW p
  PROVE  KV!Under(p) = {k \in HeldBy(nodes) : IsPrefix(p, k)}
  <1>1. DOMAIN Entries(nodes) = HeldBy(nodes)
    BY EntriesAre
  <1>2. \A k : KV!IsPrefix(p, k) <=> IsPrefix(p, k)
    BY DEF KV!IsPrefix, IsPrefix
  <1> QED BY <1>1, <1>2 DEF KV!Under

\* What is emptied is all that hangs below the root.
LEMMA RootSpans ==
  ASSUME NEW T, Tree(T), Graph(T, {Root}), NEW S, S = Subtree(T, ChildIdxs(T[Root]))
  PROVE  S \cup {Root} = DOMAIN T
  <1>1. PICK A : A = ChildIdxs(T[Root])
    OBVIOUS
  <1>2. S \in SUBSET DOMAIN T /\ A \cap DOMAIN T \subseteq S /\ Closed(T, S)
    BY <1>1, SubtreeLeast
  <1>3. Root \in DOMAIN T /\ \A j : j \in A <=> \E r : Link(T, Root, r, j)
    BY <1>1, ChildIdxsLink DEF Tree
  <1>4. PICK C : C = S \cup {Root}
    OBVIOUS
  <1>5. Closed(T, C)
    BY <1>2, <1>3, <1>4 DEF Closed
  <1>6. C \in SUBSET DOMAIN T /\ {Root} \subseteq C
    BY <1>2, <1>3, <1>4
  <1>7. C = DOMAIN T
    BY <1>5, <1>6 DEF Graph
  <1> QED BY <1>4, <1>7

\* Emptying the tree takes everything.
LEMMA FlushHas ==
  ASSUME NEW T, Tree(T), Graph(T, {Root}), NEW U, Flushes(T, U), NEW key \in Seq(Radixes), NEW v, NEW e
  PROVE  ~Has(U, key, v, e)
  <1>1. PICK S : S = Subtree(T, ChildIdxs(T[Root]))
    OBVIOUS
  <1>2. Tree(U) /\ DOMAIN U = DOMAIN T \ S
    BY <1>1, FlushShape DEF Flushed
  <1>3. DOMAIN U \subseteq {Root}
    BY <1>1, <1>2, RootSpans
  <1>4. U[Root].val = Nil
    <2>1. PICK V : V = Without(T, S)
      OBVIOUS
    <2>2. Root \notin S /\ Root \in DOMAIN T
      BY <1>2 DEF Tree
    <2>3. Tree(V) /\ Root \in DOMAIN V
      <3>1. Tree(V) /\ DOMAIN V = DOMAIN T \ S
        BY <2>1, <2>2, WithoutShape
      <3> QED BY <2>2, <3>1
    <2>4. U = [V EXCEPT ![Root].val = Nil, ![Root].childs = <<>>]
      BY <1>1, <2>1 DEF Flushes
    <2>5. V[Root] \in Nodes
      BY <2>3 DEF Tree
    <2>6. U[Root] = [V[Root] EXCEPT !.val = Nil, !.childs = <<>>]
      BY <2>3, <2>4
    <2> QED BY <2>5, <2>6 DEF Nodes
  <1>5. \A j : Hit(U, key, j) => j = Root
    BY <1>2, <1>3, HitType
  <1> QED BY <1>4, <1>5 DEF Has

\* A prefix delete takes the keys below the prefix and no others.
LEMMA DelnLoses ==
  ASSUME Typed, Forest(nodes, {Root}), NEW W, W = nodes', NEW p \in PrefixArgs, Deln(p),
         NEW D, D = {k \in Seq(Radixes) : IsPrefix(p, k)}
  PROVE  Loses(nodes, W, D)
  <1> SUFFICES ASSUME NEW key \in Seq(Radixes), NEW v, NEW e
               PROVE  Has(W, key, v, e) <=> Has(nodes, key, v, e) /\ key \notin D
    BY DEF Loses
  <1>1. Tree(nodes) /\ p \in Seq(Radixes)
    BY KeysAreSeqs DEF Typed
  <1>2. PICK R : R = {Root}
    OBVIOUS
  <1>3. Forest(nodes, R) /\ Root \in R
    BY <1>2
  <1>4. PICK t : t = Cover(nodes, p)
    OBVIOUS
  <1>5. ASSUME NEW j, Hit(nodes, key, j) PROVE j \in Subtree(nodes, {t}) <=> key \in D
    BY <1>1, <1>4, <1>5, CoverSpans
  <1>6. CASE p = <<>>
    <2>1. t = Root /\ t # Nil
      BY <1>4, <1>6, ConstantsAssumption DEF Cover
    <2>2. Flushes(nodes, W)
      BY <1>4, <1>6, <2>1 DEF Deln, Update, Flushes
    <2>3. ~Has(W, key, v, e)
      BY <1>1, <2>2, FlushHas DEF Forest
    <2>4. Subtree(nodes, {t}) = DOMAIN nodes
      BY <1>2, <1>3, <2>1, GraphSpans DEF Forest
    <2>5. Has(nodes, key, v, e) => key \in D
      BY <1>1, <1>5, <2>4, HitType DEF Has
    <2> QED BY <2>3, <2>5
  <1>7. CASE p # <<>> /\ t = Nil
    <2>1. W = nodes
      BY <1>4, <1>7 DEF Deln, Update
    <2>2. Has(nodes, key, v, e) => key \notin D
      BY <1>1, <1>3, <1>4, <1>7, NoCover DEF Forest, Has
    <2> QED BY <2>1, <2>2
  <1>8. CASE p # <<>> /\ t # Nil
    <2>1. PICK i \in DOMAIN nodes, c \in 0 .. Len(p) - 1 :
            Walk(nodes, p) = <<i, c, t>> /\ Link(nodes, i, p[c + 1], t)
      BY <1>1, <1>4, <1>8, CoverFinds
    <2>2. PICK w : w = Walk(nodes, p) /\ w[1] = i /\ w[2] = c
      BY <2>1
    <2>3. PICK S : S = Subtree(nodes, {t})
      OBVIOUS
    <2>4. W = Cut(nodes, S, w[1], p[w[2] + 1])
      BY <1>4, <1>8, <2>2, <2>3 DEF Deln, Update
    <2>5. PICK q : q = p[c + 1]
      OBVIOUS
    <2>6. W = Cut(nodes, S, i, q)
      BY <2>2, <2>4, <2>5
    <2>7. Pendant(nodes, R, S, i, q)
      BY <1>3, <2>1, <2>3, <2>5, SubtreePendant DEF Forest
    <2>8. Has(W, key, v, e) <=> v # Nil /\ \E j : /\ Hit(nodes, key, j) /\ j \notin S
                                                  /\ nodes[j].val = v /\ nodes[j].exp = e
      BY <1>1, <1>3, <2>6, <2>7, CutHas
    <2> QED BY <1>5, <2>3, <2>8 DEF Has
  <1> QED BY <1>6, <1>7, <1>8

LEMMA DelnMaps ==
  ASSUME Typed, Named(nodes), Forest(nodes, {Root}), NEW W, W = nodes', Tree(W), Forest(W, {Root}),
         NEW p \in PrefixArgs, Deln(p)
  PROVE  KV!DelPrefix(p) /\ NoStrays(nodes, W)
  <1>1. Tree(nodes) /\ p \in Seq(Radixes)
    BY KeysAreSeqs DEF Typed
  <1>2. PICK D : D = {k \in Seq(Radixes) : IsPrefix(p, k)}
    OBVIOUS
  <1>3. Loses(nodes, W, D)
    BY <1>2, DelnLoses
  <1>4. NoStrays(nodes, W)
    BY <1>3, LosesStrays
  <1>5. Entries(nodes)' = KV!Drop(D)
    BY <1>1, <1>3, LosesDrops
  <1>6. KV!Drop(D) = KV!Drop(KV!Under(p))
    <2>1. DOMAIN Entries(nodes) = HeldBy(nodes)
      BY EntriesAre
    <2>2. \A k \in HeldBy(nodes) : k \in D <=> k \in KV!Under(p)
      BY <1>2, UnderIs, HeldKeys, KeysAreSeqs
    <2>3. DOMAIN Entries(nodes) \ D = DOMAIN Entries(nodes) \ KV!Under(p)
      BY <2>1, <2>2
    <2> QED BY <2>3 DEF KV!Drop
  <1>7. PICK S : S = Subtree(nodes, {Cover(nodes, p)})
    OBVIOUS
  <1>8. ret' = Cardinality({i \in S : HasVal(nodes[i])})
    <2>1. CASE p # <<>>
      BY <1>7, <2>1 DEF Deln, Reply
    <2>2. CASE p = <<>>
      <3>1. PICK Q : Q = Subtree(nodes, ChildIdxs(nodes[Root])) \cup {Root}
        OBVIOUS
      <3>2. ret' = Cardinality({i \in Q : HasVal(nodes[i])})
        BY <2>2, <3>1 DEF Deln, Reply
      <3>3. Q = DOMAIN nodes
        BY <1>1, <3>1, RootSpans DEF Forest
      <3>4. Cover(nodes, p) = Root
        BY <2>2 DEF Cover
      <3>5. S = DOMAIN nodes
        BY <1>7, <3>4, GraphSpans DEF Forest
      <3> QED BY <3>2, <3>3, <3>5
    <2> QED BY <2>1, <2>2
  <1>9. ret' = Cardinality(KV!Under(p))
    <2>1. PICK A : A = {k \in HeldBy(nodes) : IsPrefix(p, k)}
      OBVIOUS
    <2>2. PICK B : B = {i \in S : HasVal(nodes[i])}
      OBVIOUS
    <2>3. Cardinality(A) = Cardinality(B)
      BY <1>1, <1>7, <2>1, <2>2, HeldBelow
    <2>4. KV!Under(p) = A
      BY <2>1, UnderIs
    <2> QED BY <1>8, <2>2, <2>3, <2>4
  <1>10. call' = <<"deln", p>> /\ now' = now
    BY DEF Deln, Reply
  <1>11. ret' = KV!Cardinality(KV!Under(p))
    BY <1>9, SizeIs
  <1>12. Entries(nodes)' = KV!Drop(KV!Under(p))
    BY <1>5, <1>6
  <1> QED BY <1>4, <1>10, <1>11, <1>12 DEF KV!DelPrefix

-----------------------------------------------------------------------------
(* What a walk of all nodes spells.                                         *)

\* What Spelled computes level by level: the nodes below one, each with what it
\* spells, and the next pair of what is done and what is due.
Offspring(T, x) == {<<k[2], x[2] \o <<k[1]>> \o T[k[2]].compression>> :
                      k \in {y \in Kids(T[x[1]]) : y[2] \in DOMAIN T}}
Rung(T, q) == <<q[1] \cup q[2], UNION {Offspring(T, x) : x \in q[2]}>>
Levels(T, L, n, x) == L = [d \in 0 .. n |-> IF d = 0 THEN <<{}, {x}>> ELSE Rung(T, L[d - 1])]

LEMMA OffspringIs ==
  ASSUME NEW T, NEW i \in DOMAIN T, NEW s, NEW y
  PROVE  y \in Offspring(T, <<i, s>>) <=>
           \E r, j, f : Link(T, i, r, j) /\ j \in DOMAIN T /\ Joined(f, s, r, T[j].compression) /\ y = <<j, f>>
  <1>1. ASSUME y \in Offspring(T, <<i, s>>)
        PROVE  \E r, j, f : Link(T, i, r, j) /\ j \in DOMAIN T /\ Joined(f, s, r, T[j].compression) /\ y = <<j, f>>
    <2>1. PICK k \in Kids(T[i]) : k[2] \in DOMAIN T /\ y = <<k[2], s \o <<k[1]>> \o T[k[2]].compression>>
      BY <1>1 DEF Offspring
    <2>2. PICK r, j : r = k[1] /\ j = k[2]
      OBVIOUS
    <2>3. Link(T, i, r, j)
      BY <2>1, <2>2 DEF Kids, Link
    <2>4. PICK f : f = s \o <<r>> \o T[j].compression
      OBVIOUS
    <2>5. y = <<j, f>> /\ j \in DOMAIN T
      BY <2>1, <2>2, <2>4
    <2> QED BY <2>3, <2>4, <2>5 DEF Joined
  <1>2. ASSUME NEW r, NEW j, NEW f, Link(T, i, r, j), j \in DOMAIN T, Joined(f, s, r, T[j].compression), y = <<j, f>>
        PROVE  y \in Offspring(T, <<i, s>>)
    <2>1. PICK k : k = <<r, j>>
      OBVIOUS
    <2>2. k \in Kids(T[i]) /\ k[1] = r /\ k[2] = j
      BY <1>2, <2>1 DEF Link, Kids
    <2>3. y = <<k[2], s \o <<k[1]>> \o T[k[2]].compression>>
      BY <1>2, <2>2 DEF Joined
    <2>4. <<i, s>>[1] = i /\ <<i, s>>[2] = s
      OBVIOUS
    <2> QED BY <1>2, <2>2, <2>3, <2>4 DEF Offspring
  <1> QED BY <1>1, <1>2

LEMMA LevelsExist ==
  ASSUME NEW T, NEW n \in Nat, NEW x
  PROVE  \E L : Levels(T, L, n, x)
  <1>1. PICK S : S = {m \in 0 .. n : \E L : Levels(T, L, m, x)}
    OBVIOUS
  <1>2. 0 \in S
    <2>1. PICK L : L = [d \in 0 .. 0 |-> <<{}, {x}>>]
      OBVIOUS
    <2>2. L = [d \in 0 .. 0 |-> IF d = 0 THEN <<{}, {x}>> ELSE Rung(T, L[d - 1])]
      BY <2>1
    <2>3. Levels(T, L, 0, x)
      BY <2>2 DEF Levels
    <2> QED BY <1>1, <2>3
  <1>3. ASSUME NEW m \in 0 .. n - 1, m \in S PROVE m + 1 \in S
    <2>1. PICK f : Levels(T, f, m, x)
      BY <1>1, <1>3
    <2>2. PICK g : g = [d \in 0 .. m + 1 |-> IF d <= m THEN f[d] ELSE Rung(T, f[m])]
      OBVIOUS
    <2>3. ASSUME NEW d \in 0 .. m + 1
          PROVE  g[d] = IF d = 0 THEN <<{}, {x}>> ELSE Rung(T, g[d - 1])
      <3>1. CASE d = 0
        <4>1. 0 \in 0 .. m /\ 0 <= m
          OBVIOUS
        <4>2. g[d] = f[d] /\ f[0] = <<{}, {x}>>
          BY <2>1, <2>2, <3>1, <4>1 DEF Levels
        <4> QED BY <3>1, <4>2
      <3>2. CASE d # 0 /\ d <= m
        <4>1. d \in 0 .. m /\ d - 1 \in 0 .. m + 1 /\ d - 1 <= m
          BY <3>2
        <4>2. g[d] = f[d] /\ g[d - 1] = f[d - 1]
          BY <2>2, <3>2, <4>1
        <4>3. f[d] = Rung(T, f[d - 1])
          BY <2>1, <3>2, <4>1 DEF Levels
        <4> QED BY <3>2, <4>2, <4>3
      <3>3. CASE d = m + 1
        <4>1. ~(d <= m) /\ d # 0 /\ d - 1 = m /\ m \in 0 .. m + 1
          BY <3>3
        <4>2. g[d] = Rung(T, f[m]) /\ g[m] = f[m]
          BY <2>2, <4>1
        <4> QED BY <4>1, <4>2
      <3> QED BY <3>1, <3>2, <3>3
    <2>4. g = [d \in 0 .. m + 1 |-> g[d]]
      BY <2>2
    <2>5. g = [d \in 0 .. m + 1 |-> IF d = 0 THEN <<{}, {x}>> ELSE Rung(T, g[d - 1])]
      BY <2>3, <2>4
    <2>6. Levels(T, g, m + 1, x)
      BY <2>5 DEF Levels
    <2> QED BY <1>1, <2>6
  <1>4. n \in S
    BY <1>2, <1>3, IntervalInduction
  <1> QED BY <1>1, <1>4

LEMMA SpelledIs ==
  ASSUME NEW T, NEW start, NEW path, NEW n \in Nat, n = Cardinality(Indices)
  PROVE  \E L : Levels(T, L, n, <<start, path>>) /\ Spelled(T, start, path) = L[n][1]
  <1>1. PICK x : x = <<start, path>>
    OBVIOUS
  <1> DEFINE Body(L, d) == IF d = 0 THEN <<{}, {<<start, path>>}>>
                           ELSE LET p == L[d - 1]
                                IN  <<p[1] \cup p[2], UNION {Offspring(T, y) : y \in p[2]}>>
  <1>2. PICK L : L = CHOOSE v : v = [d \in 0 .. Cardinality(Indices) |-> Body(v, d)]
    OBVIOUS
  <1>3. ASSUME NEW v PROVE Levels(T, v, n, x) <=> v = [d \in 0 .. Cardinality(Indices) |-> Body(v, d)]
    BY <1>1 DEF Levels, Rung
  <1>4. \E v : v = [d \in 0 .. Cardinality(Indices) |-> Body(v, d)]
    <2> HIDE DEF Body
    <2> QED BY <1>3, LevelsExist
  <1>5. L = [d \in 0 .. Cardinality(Indices) |-> Body(L, d)]
    BY <1>2, <1>4
  <1>6. Levels(T, L, n, x)
    BY <1>3, <1>5
  <1>7. Spelled(T, start, path) = L[n][1]
    BY <1>2 DEF Spelled, Offspring
  <1> QED BY <1>1, <1>6, <1>7

\* A sweep of as many levels as there are slots meets every node below start.
Sweep(T, a, f, n, start) ==
  /\ a \in [0 .. n -> SUBSET DOMAIN T] /\ f \in [0 .. n -> SUBSET DOMAIN T]
  /\ a[0] = {} /\ f[0] = {start}
  /\ \A d \in 0 .. n - 1 : a[d + 1] = a[d] \cup f[d]
  /\ \A d \in 0 .. n - 1 : \A i \in f[d] : \A r, j : Link(T, i, r, j) /\ j \in DOMAIN T => j \in f[d + 1]
  /\ \A d \in 0 .. n - 1 : \A j \in f[d + 1] : \E i \in f[d] : \E r : Link(T, i, r, j)

\* What is done has its children done or due, and either a slot is done per
\* level or nothing new is due.
Swept(T, A, F, d, start) ==
  /\ start \in A \cup F
  /\ \A i \in A : \A r, j : Link(T, i, r, j) /\ j \in DOMAIN T => j \in A \cup F
  /\ F \subseteq A \/ Cardinality(A) >= d

LEMMA SweepStep ==
  ASSUME NEW T, Tree(T), NEW A \in SUBSET DOMAIN T, NEW F \in SUBSET DOMAIN T, NEW d \in Nat, NEW start,
         Swept(T, A, F, d, start), NEW B, B = A \cup F, NEW G,
         \A i \in F : \A r, j : Link(T, i, r, j) /\ j \in DOMAIN T => j \in G,
         \A j \in G : j \in DOMAIN T /\ \E i \in F : \E r : Link(T, i, r, j)
  PROVE  Swept(T, B, G, d + 1, start)
  <1>1. start \in B \cup G
    BY DEF Swept
  <1>2. \A i \in B : \A r, j : Link(T, i, r, j) /\ j \in DOMAIN T => j \in B \cup G
    BY DEF Swept
  <1>3. CASE F \subseteq A
    <2>1. B = A
      BY <1>3
    <2>2. G \subseteq B
      BY <1>3, <2>1 DEF Swept
    <2> QED BY <1>1, <1>2, <2>2 DEF Swept
  <1>4. CASE ~(F \subseteq A)
    <2>1. PICK x \in F : x \notin A
      BY <1>4
    <2>2. IsFiniteSet(A) /\ IsFiniteSet(B)
      <3>1. IsFiniteSet(Indices)
        BY SlabAssumption, FS_AddElement DEF Indices
      <3>2. A \in SUBSET Indices /\ B \in SUBSET Indices
        BY DEF Tree
      <3> QED BY <3>1, <3>2, FS_Subset
    <2>3. IsFiniteSet(A \cup {x}) /\ Cardinality(A \cup {x}) = Cardinality(A) + 1
      BY <2>1, <2>2, FS_AddElement
    <2>4. A \cup {x} \in SUBSET B
      BY <2>1
    <2>5. Cardinality(A \cup {x}) <= Cardinality(B)
      BY <2>2, <2>4, FS_Subset
    <2>6. Cardinality(A) \in Nat /\ Cardinality(B) \in Nat /\ Cardinality(A) >= d
      BY <1>4, <2>2, FS_CardinalityType DEF Swept
    <2>7. Cardinality(B) >= d + 1
      BY <2>3, <2>5, <2>6
    <2> QED BY <1>1, <1>2, <2>7 DEF Swept
  <1> QED BY <1>3, <1>4

LEMMA SweepsAll ==
  ASSUME NEW T, Tree(T), NEW n \in Nat, n = Cardinality(Indices), NEW a, NEW f, NEW start \in DOMAIN T,
         Sweep(T, a, f, n, start), NEW S, S = Subtree(T, {start})
  PROVE  S \subseteq a[n]
  <1>1. PICK I : I = {d \in 0 .. n : Swept(T, a[d], f[d], d, start)}
    OBVIOUS
  <1>2. 0 \in I
    <2>1. a[0] = {} /\ f[0] = {start} /\ Cardinality({}) = 0
      BY FS_EmptySet DEF Sweep
    <2>2. Swept(T, a[0], f[0], 0, start)
      BY <2>1 DEF Swept
    <2> QED BY <1>1, <2>2
  <1>3. ASSUME NEW d \in 0 .. n - 1, d \in I PROVE d + 1 \in I
    <2>1. d \in 0 .. n /\ d + 1 \in 0 .. n /\ d \in Nat
      OBVIOUS
    <2>2. PICK A, F, B, G : A = a[d] /\ F = f[d] /\ B = a[d + 1] /\ G = f[d + 1]
      OBVIOUS
    <2>3. A \in SUBSET DOMAIN T /\ F \in SUBSET DOMAIN T /\ G \in SUBSET DOMAIN T
      BY <2>1, <2>2 DEF Sweep
    <2>4. Swept(T, A, F, d, start)
      BY <1>1, <1>3, <2>2
    <2>5. /\ B = A \cup F
          /\ \A i \in F : \A r, j : Link(T, i, r, j) /\ j \in DOMAIN T => j \in G
          /\ \A j \in G : j \in DOMAIN T /\ \E i \in F : \E r : Link(T, i, r, j)
      BY <2>2, <2>3 DEF Sweep
    <2>6. Swept(T, B, G, d + 1, start)
      BY <2>1, <2>3, <2>4, <2>5, SweepStep
    <2> QED BY <1>1, <2>1, <2>2, <2>6
  <1>4. n \in I
    BY <1>2, <1>3, IntervalInduction
  <1>5. PICK A, F : A = a[n] /\ F = f[n]
    OBVIOUS
  <1>6. Swept(T, A, F, n, start) /\ A \in SUBSET DOMAIN T
    BY <1>1, <1>4, <1>5 DEF Sweep
  <1>7. S \in SUBSET DOMAIN T
    BY SubtreeLeast
  <1>8. CASE F \subseteq A
    <2>1. Closed(T, A) /\ {start} \cap DOMAIN T \subseteq A
      BY <1>6, <1>8 DEF Closed, Swept
    <2> QED BY <1>5, <1>6, <2>1, SubtreeLeast
  <1>9. CASE ~(F \subseteq A)
    <2>1. Cardinality(A) >= n
      BY <1>6, <1>9 DEF Swept
    <2>2. IsFiniteSet(Indices)
      BY SlabAssumption, FS_AddElement DEF Indices
    <2>3. A \in SUBSET Indices /\ DOMAIN T \subseteq Indices
      BY <1>6 DEF Tree
    <2>4. Cardinality(A) <= n /\ IsFiniteSet(A)
      BY <2>2, <2>3, FS_Subset
    <2>5. Cardinality(A) \in Nat
      BY <2>4, FS_CardinalityType
    <2>6. Cardinality(Indices) = Cardinality(A)
      BY <2>1, <2>4, <2>5
    <2>7. Indices = A
      BY <2>2, <2>3, <2>6, FS_Subset
    <2> QED BY <1>5, <1>7, <2>3, <2>7
  <1> QED BY <1>8, <1>9

\* The nodes of S with what they spell.
Told(T, S) == {y \in S \X Seq(Radixes) : Hit(T, y[2], y[1])}

LEMMA OffspringTold ==
  ASSUME NEW T, Tree(T), NEW S, S \subseteq DOMAIN T, Closed(T, S), NEW x \in Told(T, S)
  PROVE  Offspring(T, x) \subseteq Told(T, S)
  <1> SUFFICES ASSUME NEW y \in Offspring(T, x) PROVE y \in Told(T, S)
    OBVIOUS
  <1>1. PICK i \in S, s \in Seq(Radixes) : x = <<i, s>> /\ Hit(T, s, i)
    BY DEF Told
  <1>2. PICK r, j, f : Link(T, i, r, j) /\ j \in DOMAIN T /\ Joined(f, s, r, T[j].compression) /\ y = <<j, f>>
    BY <1>1, OffspringIs
  <1>3. f \in Seq(Radixes) /\ Hit(T, f, j)
    BY <1>1, <1>2, HitBelow
  <1>4. j \in S
    BY <1>1, <1>2 DEF Closed
  <1> QED BY <1>2, <1>3, <1>4 DEF Told

\* Every level is of nodes with what they spell.
LEMMA LevelsTold ==
  ASSUME NEW T, Tree(T), NEW n \in Nat, NEW S, S \subseteq DOMAIN T, Closed(T, S), NEW x \in Told(T, S),
         NEW L, Levels(T, L, n, x)
  PROVE  \A d \in 0 .. n : L[d][1] \subseteq Told(T, S) /\ L[d][2] \subseteq Told(T, S)
  <1>1. PICK I : I = {d \in 0 .. n : L[d][1] \subseteq Told(T, S) /\ L[d][2] \subseteq Told(T, S)}
    OBVIOUS
  <1>2. 0 \in I
    <2>1. L[0] = <<{}, {x}>>
      BY DEF Levels
    <2> QED BY <1>1, <2>1
  <1>3. ASSUME NEW d \in 0 .. n - 1, d \in I PROVE d + 1 \in I
    <2>1. d + 1 \in 0 .. n /\ d + 1 # 0 /\ (d + 1) - 1 = d
      OBVIOUS
    <2>2. L[d + 1] = Rung(T, L[d])
      BY <2>1 DEF Levels
    <2>3. PICK A, F : A = L[d][1] /\ F = L[d][2]
      OBVIOUS
    <2>4. L[d + 1][1] = A \cup F /\ L[d + 1][2] = UNION {Offspring(T, y) : y \in F}
      BY <2>2, <2>3 DEF Rung
    <2>5. A \subseteq Told(T, S) /\ F \subseteq Told(T, S)
      BY <1>1, <1>3, <2>3
    <2>6. \A y \in F : Offspring(T, y) \subseteq Told(T, S)
      BY <2>5, OffspringTold
    <2> QED BY <1>1, <2>1, <2>4, <2>5, <2>6
  <1>4. \A d \in 0 .. n : d \in I
    BY <1>2, <1>3, IntervalInduction
  <1> QED BY <1>1, <1>4

\* The slots of a set of nodes with what they spell.
Firsts(Q) == {y[1] : y \in Q}

LEMMA LevelsSweep ==
  ASSUME NEW T, Tree(T), NEW n \in Nat, NEW start \in DOMAIN T, NEW S, S = Subtree(T, {start}), NEW path,
         <<start, path>> \in Told(T, S), NEW L, Levels(T, L, n, <<start, path>>),
         NEW a, a = [d \in 0 .. n |-> Firsts(L[d][1])], NEW f, f = [d \in 0 .. n |-> Firsts(L[d][2])]
  PROVE  Sweep(T, a, f, n, start)
  <1>1. S \subseteq DOMAIN T /\ Closed(T, S)
    BY SubtreeLeast
  <1>2. \A d \in 0 .. n : L[d][1] \subseteq Told(T, S) /\ L[d][2] \subseteq Told(T, S)
    BY <1>1, LevelsTold
  <1>3. \A Q : Q \subseteq Told(T, S) => Firsts(Q) \subseteq DOMAIN T
    BY <1>1 DEF Told, Firsts
  <1>4. a \in [0 .. n -> SUBSET DOMAIN T] /\ f \in [0 .. n -> SUBSET DOMAIN T]
    BY <1>2, <1>3
  <1>5. a[0] = {} /\ f[0] = {start}
    <2>1. L[0][1] = {} /\ L[0][2] = {<<start, path>>} /\ 0 \in 0 .. n
      BY DEF Levels
    <2> QED BY <2>1 DEF Firsts
  <1>6. ASSUME NEW d \in 0 .. n - 1
        PROVE  /\ a[d + 1] = a[d] \cup f[d]
               /\ \A i \in f[d] : \A r, j : Link(T, i, r, j) /\ j \in DOMAIN T => j \in f[d + 1]
               /\ \A j \in f[d + 1] : \E i \in f[d] : \E r : Link(T, i, r, j)
    <2>1. d \in 0 .. n /\ d + 1 \in 0 .. n /\ d + 1 # 0 /\ (d + 1) - 1 = d
      OBVIOUS
    <2>2. L[d + 1] = Rung(T, L[d])
      BY <2>1 DEF Levels
    <2>3. PICK A, F : A = L[d][1] /\ F = L[d][2]
      OBVIOUS
    <2>4. L[d + 1][1] = A \cup F /\ L[d + 1][2] = UNION {Offspring(T, y) : y \in F}
      BY <2>2, <2>3 DEF Rung
    <2>5. /\ a[d] = Firsts(A) /\ f[d] = Firsts(F) /\ a[d + 1] = Firsts(A \cup F)
          /\ f[d + 1] = Firsts(UNION {Offspring(T, y) : y \in F})
      BY <2>1, <2>3, <2>4
    <2>6. Firsts(A \cup F) = Firsts(A) \cup Firsts(F)
      BY DEF Firsts
    <2>7. ASSUME NEW y \in F PROVE \E i \in S, s \in Seq(Radixes) : y = <<i, s>> /\ i \in DOMAIN T
      <3>1. y \in Told(T, S)
        BY <1>2, <2>1, <2>3
      <3>2. y \in S \X Seq(Radixes)
        BY <3>1 DEF Told
      <3>3. y[1] \in S /\ y[2] \in Seq(Radixes) /\ y = <<y[1], y[2]>>
        BY <3>2
      <3> QED BY <1>1, <3>3
    <2>8. ASSUME NEW i \in f[d], NEW r, NEW j, Link(T, i, r, j), j \in DOMAIN T PROVE j \in f[d + 1]
      <3>1. PICK y \in F : y[1] = i
        BY <2>5 DEF Firsts
      <3>2. PICK s : y = <<i, s>> /\ i \in DOMAIN T
        BY <2>7, <3>1
      <3>3. PICK g : Joined(g, s, r, T[j].compression)
        BY DEF Joined
      <3>4. PICK z : z = <<j, g>>
        OBVIOUS
      <3>5. z \in Offspring(T, y)
        BY <2>8, <3>2, <3>3, <3>4, OffspringIs
      <3>6. z \in UNION {Offspring(T, u) : u \in F} /\ z[1] = j
        BY <3>4, <3>5
      <3> QED BY <2>5, <3>6 DEF Firsts
    <2>9. ASSUME NEW j \in f[d + 1] PROVE \E i \in f[d] : \E r : Link(T, i, r, j)
      <3>1. PICK z \in UNION {Offspring(T, u) : u \in F} : z[1] = j
        BY <2>5 DEF Firsts
      <3>2. PICK y \in F : z \in Offspring(T, y)
        BY <3>1
      <3>3. PICK i, s : y = <<i, s>> /\ i \in DOMAIN T
        BY <2>7
      <3>4. PICK r, k, g : Link(T, i, r, k) /\ z = <<k, g>>
        BY <3>2, <3>3, OffspringIs
      <3>5. Link(T, i, r, j) /\ i = y[1]
        BY <3>1, <3>3, <3>4
      <3> QED BY <2>5, <3>5 DEF Firsts
    <2> QED BY <2>5, <2>6, <2>8, <2>9
  <1> QED BY <1>4, <1>5, <1>6 DEF Sweep

\* A depth-first walk from start meets the nodes below it, each once, with what
\* it spells.
LEMMA SpelledTold ==
  ASSUME NEW T, Tree(T), Graph(T, {Root}), NEW start \in DOMAIN T, NEW path \in Seq(Radixes), Hit(T, path, start),
         NEW S, S = Subtree(T, {start})
  PROVE  Spelled(T, start, path) = Told(T, S)
  <1>1. PICK n \in Nat : n = Cardinality(Indices)
    <2>1. IsFiniteSet(Indices)
      BY SlabAssumption, FS_AddElement DEF Indices
    <2> QED BY <2>1, FS_CardinalityType
  <1>2. PICK L : Levels(T, L, n, <<start, path>>) /\ Spelled(T, start, path) = L[n][1]
    BY <1>1, SpelledIs
  <1>3. S \subseteq DOMAIN T /\ Closed(T, S) /\ start \in S
    BY SubtreeLeast
  <1>4. <<start, path>> \in Told(T, S)
    BY <1>3 DEF Told
  <1>5. PICK Q : Q = L[n][1]
    OBVIOUS
  <1>6. Q \subseteq Told(T, S)
    <2>1. n \in 0 .. n
      OBVIOUS
    <2> QED BY <1>2, <1>3, <1>4, <1>5, <2>1, LevelsTold
  <1>7. S \subseteq Firsts(Q)
    <2>1. PICK a : a = [d \in 0 .. n |-> Firsts(L[d][1])]
      OBVIOUS
    <2>2. PICK f : f = [d \in 0 .. n |-> Firsts(L[d][2])]
      OBVIOUS
    <2>3. Sweep(T, a, f, n, start)
      BY <1>2, <1>4, <2>1, <2>2, LevelsSweep
    <2>4. S \subseteq a[n]
      BY <1>1, <2>3, SweepsAll
    <2>5. n \in 0 .. n
      OBVIOUS
    <2>6. a[n] = Firsts(Q)
      BY <1>5, <2>1, <2>5
    <2> QED BY <2>4, <2>6
  <1>8. ASSUME NEW y \in Told(T, S) PROVE y \in Q
    <2>1. PICK i \in S, s \in Seq(Radixes) : y = <<i, s>> /\ Hit(T, s, i)
      BY DEF Told
    <2>2. PICK z \in Q : z[1] = i
      BY <1>7, <2>1 DEF Firsts
    <2>3. PICK g \in Seq(Radixes) : z = <<i, g>> /\ Hit(T, g, i)
      BY <1>6, <2>2 DEF Told
    <2>4. g = s
      BY <2>1, <2>3, HitUnique
    <2> QED BY <2>1, <2>2, <2>3, <2>4
  <1> QED BY <1>2, <1>5, <1>6, <1>8

-----------------------------------------------------------------------------
(* What GETN spells.                                                        *)

\* Where the walk for p has come to, it has spelled the bytes behind it.
LEMMA PathHits ==
  ASSUME NEW T, Tree(T), Graph(T, {Root}), NEW p \in Seq(Radixes), NEW i, NEW c \in 0 .. Len(p),
         <<i, c>> \in Path(T, p), NEW s, s = Upto(p, c)
  PROVE  s \in Seq(Radixes) /\ Hit(T, s, i)
  <1>1. i \in DOMAIN T
    BY PathTop
  <1>2. PICK g \in Seq(Radixes) : Hit(T, g, i)
    BY <1>1, AllHit
  <1>3. Len(g) = c /\ Same(g, p, c)
    <2>1. <<i, Len(g)>> \in Path(T, g)
      BY <1>2 DEF Hit
    <2>2. Len(g) = c /\ Same(g, p, Len(g))
      BY <2>1, PathSpells
    <2> QED BY <2>2
  <1>4. s \in Seq(Radixes) /\ Len(s) = c /\ \A m \in 1 .. c : s[m] = p[m]
    BY PrefixType DEF Upto
  <1>5. \A m \in 1 .. c : g[m] = p[m]
    BY <1>3 DEF Same
  <1>6. s = g
    <2>1. Len(s) = Len(g) /\ \A m \in 1 .. Len(s) : s[m] = g[m]
      BY <1>3, <1>4, <1>5
    <2> QED BY <1>4, <2>1, SeqEqual
  <1> QED BY <1>2, <1>4, <1>6

\* CoverPath is what the node that covers p spells.
LEMMA CoverPathHits ==
  ASSUME NEW T, Tree(T), Graph(T, {Root}), Apart(T), T[Root].compression = <<>>,
         NEW p \in Seq(Radixes), NEW t, t = Cover(T, p), t # Nil
  PROVE  t \in DOMAIN T /\ CoverPath(T, p) \in Seq(Radixes) /\ Hit(T, CoverPath(T, p), t)
  <1>1. CASE p = <<>>
    <2>1. t = Root /\ CoverPath(T, p) = p /\ Len(p) = 0 /\ t \in DOMAIN T
      BY <1>1 DEF Cover, CoverPath, Tree
    <2>2. Hit(T, p, t)
      BY <2>1, PathLeast DEF Hit
    <2> QED BY <2>1, <2>2
  <1>2. CASE p # <<>>
    <2>1. PICK i \in DOMAIN T, c \in 0 .. Len(p) - 1 : Stops(T, p, i, c)
      BY <1>2, WalkOnPath DEF Stops
    <2>2. <<i, c>> \in Path(T, p) /\ Walk(T, p) = <<i, c, Find(T, i, p[c + 1])>>
      BY <2>1 DEF Stops
    <2>3. PICK w : w = Walk(T, p) /\ w[2] = c /\ w[3] = Find(T, i, p[c + 1])
      BY <2>2
    <2>4. t = Find(T, i, p[c + 1]) /\ t \in DOMAIN T
      BY <1>2, <2>3 DEF Cover
    <2>5. Link(T, i, p[c + 1], t)
      BY <2>4, FindLink
    <2>6. PICK l \in Nat : l = Len(p)
      BY LenProperties
    <2>7. c \in 0 .. Len(p) /\ c + 1 \in 0 .. Len(p) /\ c \in Nat
      BY <2>6
    <2>8. PICK s : s = Upto(p, c)
      OBVIOUS
    <2>9. s \in Seq(Radixes) /\ Hit(T, s, i)
      BY <2>2, <2>7, <2>8, PathHits
    <2>10. PICK q \in Radixes : q = p[c + 1]
      BY <2>5, LinkType
    <2>11. PICK u : u = SubSeq(p, 1, c + 1)
      OBVIOUS
    <2>12. u = s \o <<q>>
      <3>1. u \in Seq(Radixes) /\ Len(u) = c + 1 /\ \A m \in 1 .. c + 1 : u[m] = p[m]
        BY <2>7, <2>11, PrefixType
      <3>2. Len(s) = c /\ \A m \in 1 .. c : s[m] = p[m]
        BY <2>7, <2>8, PrefixType DEF Upto
      <3>3. PICK v : v = s \o <<q>>
        OBVIOUS
      <3>4. v \in Seq(Radixes) /\ Len(v) = c + 1 /\ (\A m \in 1 .. c : v[m] = s[m]) /\ v[c + 1] = q
        BY <2>7, <2>9, <3>2, <3>3
      <3>5. ASSUME NEW m \in 1 .. c + 1 PROVE u[m] = v[m]
        <4>1. CASE m \in 1 .. c
          BY <3>1, <3>2, <3>4, <4>1
        <4>2. CASE m = c + 1
          BY <2>10, <3>1, <3>4, <4>2
        <4> QED BY <2>7, <4>1, <4>2
      <3> QED BY <3>1, <3>3, <3>4, <3>5, SeqEqual
    <2>13. PICK f : f = CoverPath(T, p)
      OBVIOUS
    <2>14. f = u \o T[t].compression
      BY <1>2, <2>3, <2>11, <2>13 DEF CoverPath
    <2>15. Joined(f, s, q, T[t].compression)
      BY <2>12, <2>14 DEF Joined
    <2>16. f \in Seq(Radixes) /\ Hit(T, f, t)
      BY <2>4, <2>5, <2>9, <2>10, <2>15, HitBelow
    <2> QED BY <2>4, <2>13, <2>16
  <1> QED BY <1>1, <1>2

LEMMA GetnMaps ==
  ASSUME Typed, Named(nodes), Forest(nodes, {Root}), RootUncompressed, NEW p \in PrefixArgs, Getn(p)
  PROVE  KV!GetPrefix(p)
  <1>1. Tree(nodes) /\ p \in Seq(Radixes)
    BY KeysAreSeqs DEF Typed
  <1>2. PICK T : T = nodes
    OBVIOUS
  <1>3. Tree(T) /\ Forest(T, {Root}) /\ Named(T) /\ T[Root].compression = <<>>
    BY <1>1, <1>2 DEF RootUncompressed
  <1>4. PICK S : S = Subtree(T, {Cover(T, p)})
    OBVIOUS
  <1>5. PICK E : E = Entries(T)
    OBVIOUS
  <1>6. PICK V : V = {x \in KV!Under(p) : KV!Visible(x)}
    OBVIOUS
  <1>7. ASSUME NEW k
        PROVE  k \in V <=> /\ k \in Keys /\ Traverse(T, k) # Nil
                           /\ GetValue(T[Traverse(T, k)]) # Nil /\ IsPrefix(p, k)
    <2>1. k \in V <=> k \in HeldBy(T) /\ IsPrefix(p, k) /\ KV!Visible(k)
      BY <1>2, <1>6, UnderIs
    <2>2. ASSUME k \in Keys
          PROVE  KV!Visible(k) <=> /\ Traverse(T, k) # Nil /\ HasVal(T[Traverse(T, k)])
                                   /\ ~IsExpired(T[Traverse(T, k)])
      BY <1>2, <2>2, VisibleIs
    <2> QED BY <2>1, <2>2 DEF HeldBy, GetValue, HasVal
  <1>8. ASSUME NEW k \in V PROVE E[k].val = T[Traverse(T, k)].val
    <2>1. PICK i : i = Traverse(T, k)
      OBVIOUS
    <2>2. k \in Keys /\ i # Nil /\ HasVal(T[i])
      BY <1>7, <1>8, <2>1 DEF GetValue, HasVal
    <2> QED BY <1>5, <2>1, <2>2, EntryIs
  <1>9. PICK P : P = IF Cover(T, p) = Nil THEN {} ELSE Spelled(T, Cover(T, p), CoverPath(T, p))
    OBVIOUS
  <1>10. ret' = {<<x[2], T[x[1]].val>> : x \in {y \in P : GetValue(T[y[1]]) # Nil}}
    <2>1. CASE Cover(T, p) = Nil
      BY <1>2, <1>9, <2>1 DEF Getn, Reply
    <2>2. CASE Cover(T, p) # Nil
      BY <1>2, <1>9, <2>2 DEF Getn, Reply
    <2> QED BY <2>1, <2>2
  <1>11. P = Told(T, S)
    <2>1. CASE Cover(T, p) = Nil
      <3>1. Nil \notin DOMAIN T
        BY <1>3, ConstantsAssumption DEF Tree, Indices
      <3>2. PICK A : A = {Cover(T, p)}
        OBVIOUS
      <3>3. A \cap DOMAIN T = {} /\ Closed(T, {})
        BY <2>1, <3>1, <3>2 DEF Closed
      <3>4. S \subseteq {}
        BY <1>4, <3>2, <3>3, SubtreeLeast
      <3> QED BY <1>9, <2>1, <3>4 DEF Told
    <2>2. CASE Cover(T, p) # Nil
      <3>1. PICK t, f : t = Cover(T, p) /\ f = CoverPath(T, p)
        OBVIOUS
      <3>2. t \in DOMAIN T /\ f \in Seq(Radixes) /\ Hit(T, f, t)
        BY <1>1, <1>3, <2>2, <3>1, CoverPathHits DEF Forest
      <3>3. Spelled(T, t, f) = Told(T, S)
        BY <1>3, <1>4, <3>1, <3>2, SpelledTold DEF Forest
      <3> QED BY <1>9, <2>2, <3>1, <3>3
    <2> QED BY <2>1, <2>2
  <1>12. ASSUME NEW y \in Told(T, S), GetValue(T[y[1]]) # Nil
         PROVE  y[2] \in V /\ Traverse(T, y[2]) = y[1]
    <2>1. PICK i \in S, s \in Seq(Radixes) : y = <<i, s>> /\ Hit(T, s, i)
      BY <1>12 DEF Told
    <2>2. T[i].val # Nil /\ GetValue(T[i]) # Nil
      BY <1>12, <2>1 DEF GetValue, HasVal
    <2>3. Has(T, s, T[i].val, T[i].exp)
      BY <2>1, <2>2 DEF Has
    <2>4. s \in Keys
      BY <1>3, <2>1, <2>3 DEF Named
    <2>5. Traverse(T, s) = i /\ i # Nil
      BY <1>3, <2>1, HitIsTraverse DEF Forest
    <2>6. IsPrefix(p, s)
      <3>1. Hit(T, s, i) /\ i \in S
        BY <2>1
      <3>2. i \in S <=> IsPrefix(p, s)
        BY <1>1, <1>3, <1>4, <3>1, CoverSpans
      <3> QED BY <3>1, <3>2
    <2> QED BY <1>7, <2>1, <2>2, <2>4, <2>5, <2>6
  <1>13. ASSUME NEW k \in V PROVE \E y \in Told(T, S) : y = <<Traverse(T, k), k>> /\ GetValue(T[y[1]]) # Nil
    <2>1. PICK i : i = Traverse(T, k)
      OBVIOUS
    <2>2. k \in Seq(Radixes) /\ i # Nil /\ GetValue(T[i]) # Nil /\ IsPrefix(p, k)
      BY <1>7, <1>13, <2>1, KeysAreSeqs
    <2>3. Hit(T, k, i)
      BY <1>3, <2>1, <2>2, HitIsTraverse DEF Forest
    <2>4. i \in S
      BY <1>1, <1>3, <1>4, <2>2, <2>3, CoverSpans
    <2>5. <<i, k>> \in Told(T, S) /\ <<i, k>>[1] = i
      BY <2>2, <2>3, <2>4 DEF Told
    <2> QED BY <2>1, <2>2, <2>5
  <1>14. ret' = {<<k, E[k].val>> : k \in V}
    <2>1. PICK X : X = {y \in P : GetValue(T[y[1]]) # Nil}
      OBVIOUS
    <2>2. ASSUME NEW y \in X PROVE y[2] \in V /\ <<y[2], T[y[1]].val>> = <<y[2], E[y[2]].val>>
      <3>1. y[2] \in V /\ Traverse(T, y[2]) = y[1]
        BY <1>11, <1>12, <2>1, <2>2
      <3> QED BY <1>8, <3>1
    <2>3. ASSUME NEW k \in V PROVE \E y \in X : <<k, E[k].val>> = <<y[2], T[y[1]].val>>
      <3>1. PICK y \in Told(T, S) : y = <<Traverse(T, k), k>> /\ GetValue(T[y[1]]) # Nil
        BY <1>13, <2>3
      <3>2. y \in X /\ y[1] = Traverse(T, k) /\ y[2] = k
        BY <1>11, <2>1, <3>1
      <3>3. E[k].val = T[Traverse(T, k)].val
        BY <1>8, <2>3
      <3> QED BY <3>2, <3>3
    <2>4. {<<y[2], T[y[1]].val>> : y \in X} = {<<k, E[k].val>> : k \in V}
      BY <2>2, <2>3
    <2> QED BY <1>10, <2>1, <2>4
  <1>15. call' = <<"getn", p>> /\ nodes' = nodes /\ now' = now
    BY DEF Getn, Reply
  <1>16. Entries(nodes)' = Entries(nodes)
    BY <1>15
  <1>17. ret' = {<<k, Entries(nodes)[k].val>> : k \in {x \in KV!Under(p) : KV!Visible(x)}}
    BY <1>2, <1>5, <1>6, <1>14
  <1> QED BY <1>15, <1>16, <1>17 DEF KV!GetPrefix

-----------------------------------------------------------------------------
(* The tree implements the map.                                             *)

\* The steps that show nothing a node keeps after its value is gone and whose
\* answers are as documented: no expect, unwrap or assert fails, TTL is not
\* asked and no collection with a deadline is made where a node has no value,
\* EXPIRE and PERSIST meet no entry for which the code answers otherwise, and
\* the least integer, whose negation wraps, is not subtracted.
Tame ==
  /\ ~panicked'
  /\ \A k \in Keys : \A i : i = Traverse(nodes, k) /\ i # Nil /\ ~HasVal(nodes[i]) =>
       /\ ~GetTtl(k)
       /\ Collect(k) => nodes[i].exp = NoExpiracy
  /\ \A k \in Keys : /\ (\E t \in Ttls : Expire(k, now + t)) => ExpireAgrees(k)
                     /\ Persist(k) => PersistAgrees(k)
  /\ \A k \in Keys, d \in Deltas : DecrBy(k, d) => d # MinInt

LEMMA EmptyHas ==
  ASSUME Init
  PROVE  Named(nodes) /\ Entries(nodes) = <<>>
  <1>1. DOMAIN nodes = {Root} /\ nodes[Root].val = Nil
    BY DEF Init, Node
  <1>2. Typed
    BY TypedInit
  <1>3. \A k \in Seq(Radixes) : \A v, e : ~Has(nodes, k, v, e)
    <2> SUFFICES ASSUME NEW k \in Seq(Radixes), NEW v, NEW e, Has(nodes, k, v, e) PROVE FALSE
      OBVIOUS
    <2>1. PICK j : Hit(nodes, k, j) /\ nodes[j].val = v /\ v # Nil
      BY DEF Has
    <2>2. j \in DOMAIN nodes
      BY <1>2, <2>1, HitType DEF Typed
    <2> QED BY <1>1, <2>1, <2>2
  <1>4. \A k \in Keys : Traverse(nodes, k) # Nil => Traverse(nodes, k) \in DOMAIN nodes
    BY <1>2, TraverseType, KeysAreSeqs DEF Typed
  <1>5. HeldBy(nodes) = {}
    BY <1>1, <1>4 DEF HeldBy, HasVal
  <1>6. PICK f : f = [k \in HeldBy(nodes) |-> Shown(nodes[Traverse(nodes, k)])]
    OBVIOUS
  <1>7. f = [k \in {} |-> Shown(nodes[Traverse(nodes, k)])]
    BY <1>5, <1>6
  <1>8. f = <<>>
    <2>1. DOMAIN f = {} /\ f = [k \in DOMAIN f |-> f[k]]
      BY <1>7
    <2>2. PICK g : g = <<>>
      OBVIOUS
    <2>3. DOMAIN g = {} /\ g = [k \in DOMAIN g |-> g[k]]
      BY <2>2
    <2> QED BY <2>1, <2>2, <2>3
  <1>9. Entries(nodes) = f
    BY <1>6, EntriesAre
  <1> QED BY <1>3, <1>8, <1>9 DEF Named

LEMMA MapsInit == Init => KV!Init
  BY EmptyHas DEF Init, KV!Init

\* What a step does to the map, and that it makes no stray entry.
Maps(W) == (KV!Next \/ UNCHANGED KV!kvVars) /\ NoStrays(nodes, W)

LEMMA KeyMaps ==
  ASSUME Typed, Forest(nodes, {Root}), NEW W, W = nodes', Tree(W), Forest(W, {Root}),
         RootKept, Tame, NEW k \in Keys,
         \/ \E v \in Vals, e \in Expiries : Set(k, v, e)
         \/ Get(k) \/ Del(k) \/ GetTtl(k) \/ Persist(k) \/ Collect(k)
         \/ \E t \in Ttls : Expire(k, now + t)
         \/ \E d \in Deltas : IncrBy(k, d)
         \/ \E d \in Deltas : DecrBy(k, d)
  PROVE  Maps(W)
  <1>1. ~panicked'
    BY DEF Tame
  <1>2. PICK i : i = Traverse(nodes, k)
    OBVIOUS
  <1>3. now \in Nat /\ NoExpiracy \in Nat /\ \A t \in Ttls : t \in Nat /\ now + t \in Nat
    BY ConstantsAssumption DEF Typed
  <1>4. ASSUME NEW v \in Vals, NEW e \in Expiries, Set(k, v, e) PROVE Maps(W)
    <2>1. e \in Nat /\ e \in {NoExpiracy} \cup {now + t : t \in Ttls}
      BY <1>3, <1>4 DEF Expiries
    <2>2. KV!Set(k, v, e) /\ NoStrays(nodes, W)
      BY <1>1, <1>4, <2>1, SetMaps
    <2> QED BY <2>1, <2>2 DEF Maps, KV!Next
  <1>5. ASSUME Get(k) PROVE Maps(W)
    <2>1. KV!Get(k) /\ NoStrays(nodes, W)
      BY <1>5, GetMaps
    <2> QED BY <2>1 DEF Maps, KV!Next
  <1>6. ASSUME Del(k) PROVE Maps(W)
    <2>1. KV!Del(k) /\ NoStrays(nodes, W)
      BY <1>6, DelMaps
    <2> QED BY <2>1 DEF Maps, KV!Next
  <1>7. ASSUME GetTtl(k) PROVE Maps(W)
    <2>1. i # Nil => HasVal(nodes[i])
      BY <1>2, <1>7 DEF Tame
    <2>2. KV!Ttl(k)
      BY <1>2, <1>7, <2>1, GetTtlMaps
    <2>3. W = nodes
      BY <1>7 DEF GetTtl
    <2>4. NoStrays(nodes, W)
      BY <2>3, SelfStrays
    <2> QED BY <2>2, <2>4 DEF Maps, KV!Next
  <1>8. ASSUME Persist(k) PROVE Maps(W)
    <2>1. PersistAgrees(k)
      BY <1>8 DEF Tame
    <2>2. KV!Persist(k) /\ NoStrays(nodes, W)
      BY <1>8, <2>1, PersistMaps
    <2> QED BY <2>2 DEF Maps, KV!Next
  <1>9. ASSUME Collect(k) PROVE Maps(W)
    <2>1. i # Nil /\ ~HasVal(nodes[i]) => nodes[i].exp = NoExpiracy
      BY <1>2, <1>9 DEF Tame
    <2>2. KV!Collect(k) /\ NoStrays(nodes, W)
      BY <1>1, <1>2, <1>9, <2>1, CollectMaps
    <2> QED BY <2>2 DEF Maps, KV!Next
  <1>10. ASSUME NEW t \in Ttls, Expire(k, now + t) PROVE Maps(W)
    <2>1. PICK e : e = now + t
      OBVIOUS
    <2>2. e \in Nat /\ Expire(k, e)
      BY <1>3, <1>10, <2>1
    <2>4. ExpireAgrees(k)
      BY <1>10 DEF Tame
    <2>3. KV!Expire(k, e) /\ NoStrays(nodes, W)
      BY <1>1, <2>2, <2>4, ExpireMaps
    <2> QED BY <2>1, <2>3 DEF Maps, KV!Next
  <1>11. ASSUME NEW d \in Deltas, IncrBy(k, d) PROVE Maps(W)
    <2>1. KV!IncrBy(k, d) /\ NoStrays(nodes, W)
      BY <1>1, <1>11, IncrByMaps
    <2> QED BY <2>1 DEF Maps, KV!Next
  <1>12. ASSUME NEW d \in Deltas, DecrBy(k, d) PROVE Maps(W)
    <2>1. d # MinInt
      BY <1>12 DEF Tame
    <2>2. KV!DecrBy(k, d) /\ NoStrays(nodes, W)
      BY <1>1, <1>12, <2>1, DecrByMaps
    <2> QED BY <2>2 DEF Maps, KV!Next
  <1> QED BY <1>4, <1>5, <1>6, <1>7, <1>8, <1>9, <1>10, <1>11, <1>12

LEMMA StepMaps ==
  ASSUME Typed, Named(nodes), Forest(nodes, {Root}), RootUncompressed,
         NEW W, W = nodes', Tree(W), Forest(W, {Root}), Orderly, RootKept, Tame, Next
  PROVE  Maps(W)
  <1>1. ASSUME NEW k \in Keys,
               \/ \E v \in Vals, e \in Expiries : Set(k, v, e)
               \/ Get(k) \/ Del(k) \/ GetTtl(k) \/ Persist(k) \/ Collect(k)
               \/ \E t \in Ttls : Expire(k, now + t)
               \/ \E d \in Deltas : IncrBy(k, d)
               \/ \E d \in Deltas : DecrBy(k, d)
        PROVE  Maps(W)
    BY <1>1, KeyMaps
  <1>2. ASSUME NEW p \in PrefixArgs, Deln(p) PROVE Maps(W)
    <2>1. KV!DelPrefix(p) /\ NoStrays(nodes, W)
      BY <1>2, DelnMaps
    <2> QED BY <2>1 DEF Maps, KV!Next
  <1>3. ASSUME NEW p \in PrefixArgs, Getn(p) PROVE Maps(W)
    <2>1. KV!GetPrefix(p)
      BY <1>3, GetnMaps
    <2>2. W = nodes
      BY <1>3 DEF Getn
    <2>3. NoStrays(nodes, W)
      BY <2>2, SelfStrays
    <2> QED BY <2>1, <2>3 DEF Maps, KV!Next
  <1>4. ASSUME NEW t \in 0 .. MaxNow, Tick(t) PROVE Maps(W)
    <2>1. KV!Tick(t)
      BY <1>4, TickMaps
    <2>2. W = nodes
      BY <1>4 DEF Tick
    <2>3. NoStrays(nodes, W)
      BY <2>2, SelfStrays
    <2> QED BY <2>1, <2>3 DEF Maps, KV!Next
  <1>5. ASSUME NEW i \in Idx, Evict(i) PROVE Maps(W)
    <2>1. /\ (\E k \in Keys : KV!Evict(k)) \/ UNCHANGED <<Entries(nodes), now, call, ret>>
          /\ NoStrays(nodes, W)
      BY <1>5, EvictMaps
    <2>2. ASSUME NEW k \in Keys, KV!Evict(k) PROVE Maps(W)
      BY <2>1, <2>2 DEF Maps, KV!Next
    <2>3. ASSUME UNCHANGED <<Entries(nodes), now, call, ret>> PROVE Maps(W)
      BY <2>1, <2>3 DEF Maps, KV!kvVars
    <2> QED BY <2>1, <2>2, <2>3
  <1> QED BY <1>1, <1>2, <1>3, <1>4, <1>5 DEF Next

LEMMA MapsNext ==
  ASSUME Typed, Named(nodes), Forest(nodes, {Root}), RootUncompressed,
         [Next]_vars, [Orderly]_vars, [RootKept]_vars, [Tame]_vars
  PROVE  [KV!Next]_(KV!kvVars) /\ Named(nodes')
  <1>1. CASE UNCHANGED vars
    <2>1. nodes' = nodes /\ now' = now /\ call' = call /\ ret' = ret
      BY <1>1 DEF vars
    <2>2. UNCHANGED KV!kvVars
      BY <2>1 DEF KV!kvVars
    <2> QED BY <2>1, <2>2
  <1>2. CASE Next /\ ~(UNCHANGED vars)
    <2>1. Orderly /\ RootKept /\ Tame
      BY <1>2
    <2>2. Typed' /\ Forest(nodes, {Root})'
      BY <1>2, <2>1, TypedNext, ForestNext
    <2>3. PICK W : W = nodes'
      OBVIOUS
    <2>4. Tree(W) /\ Forest(W, {Root})
      BY <2>2, <2>3 DEF Typed
    <2>5. Maps(W)
      BY <1>2, <2>1, <2>3, <2>4, StepMaps
    <2>6. NoStrays(nodes, W)
      BY <2>5 DEF Maps
    <2>7. Named(W)
      BY <2>6, NamedStays
    <2>8. KV!Next \/ UNCHANGED KV!kvVars
      BY <2>5 DEF Maps
    <2> QED BY <2>3, <2>7, <2>8
  <1> QED BY <1>1, <1>2

\* As long as the links and the root stay in order (Orderly, RootKept) and the
\* steps are tame (Tame, which keeps of EXPIRE and PERSIST the calls that
\* ExpireAgrees and PersistAgrees describe), every call of OxidArt answers and
\* changes what the same call of a plain map with deadlines does, whatever the
\* tree looks like: GET drops an expired entry, DELN counts and GETN lists the
\* keys with the prefix, and splits and merges change no entry
\* (oxidart/src/lib.rs).
THEOREM Implements ==
  Spec /\ [][Orderly]_vars /\ [][RootKept]_vars /\ [][Tame]_vars => KV!Spec
  <1>1. /\ Typed /\ Named(nodes) /\ Forest(nodes, {Root}) /\ RootUncompressed
        /\ [Next]_vars /\ [Orderly]_vars /\ [RootKept]_vars /\ [Tame]_vars
        => Named(nodes)' /\ [KV!Next]_(KV!kvVars)
    BY MapsNext
  <1>2. Init => Named(nodes)
    BY EmptyHas
  <1> QED BY <1>1, <1>2, MapsInit, TypedAlways, ForestAlways, RootStaysUncompressed, PTL
          DEF Spec, KV!Spec
=============================================================================
