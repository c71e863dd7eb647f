-------------------------- MODULE ConnectionProofs --------------------------
(***************************************************************************)
(* For every number of clients, keys and frames: the count of a shared     *)
(* string is the number of its holders, and a connection that is not       *)
(* writing holds none.  First what the operations of SharedByte preserve,  *)
(* then the steps of Connection, each a chain of these operations.         *)
(*                                                                         *)
(* Then, however the bytes are cut into reads: the i-th reply on a         *)
(* connection answers the i-th frame, and the process stops only after a   *)
(* malformed frame.  The argument is that buffer and wire together are the *)
(* halves of the frames that have not been decoded, in order.              *)
(***************************************************************************)
EXTENDS Connection, FiniteSetTheorems, FunctionTheorems, SequenceTheorems, TLAPS

\* The memories that the operations meet.
Good(m) ==
  /\ DOMAIN m.ptr \subseteq Holder
  /\ DOMAIN m.heap \subseteq Addr
  /\ Counted(m)

\* Holders are finitely many, fewer than the count can express.
LEMMA HoldersFinite ==
  ASSUME NEW m, Good(m), NEW a
  PROVE  /\ IsFiniteSet(HoldersOf(m, a))
         /\ Cardinality(HoldersOf(m, a)) \in Nat
         /\ Cardinality(HoldersOf(m, a)) < RcMod
         /\ RcMod \in Nat
<1>1. HoldersOf(m, a) \in SUBSET Holder BY DEF Good, HoldersOf
<1>2. /\ IsFiniteSet(HoldersOf(m, a))
      /\ Cardinality(HoldersOf(m, a)) <= Cardinality(Holder)
  BY <1>1, FS_Subset, SharedAssumption
<1>3. Cardinality(HoldersOf(m, a)) \in Nat /\ Cardinality(Holder) \in Nat
  BY <1>2, FS_CardinalityType, SharedAssumption
<1> QED BY <1>2, <1>3, SharedAssumption

\* While a place is empty, the allocator has an address left: every
\* allocation has a holder, and there are as many addresses as places.
LEMMA FreshExists ==
  ASSUME NEW m, Good(m), NEW h \in Holder, ~Holds(m, h)
  PROVE  Fresh(m) \in Addr /\ Fresh(m) \notin DOMAIN m.heap
<1> DEFINE P == DOMAIN m.ptr
           p == [g \in P |-> m.ptr[g]]
<1>1. \A a \in DOMAIN m.heap : \E g \in P : p[g] = a
  <2> SUFFICES ASSUME NEW a \in DOMAIN m.heap PROVE \E g \in P : p[g] = a OBVIOUS
  <2>1. Cardinality(HoldersOf(m, a)) # 0 BY DEF Good, Counted
  <2>2. HoldersOf(m, a) # {} BY <2>1, FS_EmptySet
  <2> QED BY <2>2 DEF HoldersOf
<1>2. p \in Surjection(P, DOMAIN m.heap)
  BY <1>1 DEF Surjection, Good, Counted
<1>3. P \in SUBSET (Holder \ {h}) BY DEF Good, Holds
<1>4. /\ IsFiniteSet(Holder \ {h})
      /\ Cardinality(Holder \ {h}) = Cardinality(Holder) - 1
  BY FS_RemoveElement, SharedAssumption
<1>5. IsFiniteSet(P) /\ Cardinality(P) <= Cardinality(Holder) - 1
  BY <1>3, <1>4, FS_Subset
<1>6. IsFiniteSet(DOMAIN m.heap) /\ Cardinality(DOMAIN m.heap) <= Cardinality(P)
  BY <1>2, <1>5, FS_Surjection
<1>7. /\ Cardinality(DOMAIN m.heap) \in Nat /\ Cardinality(P) \in Nat
      /\ Cardinality(Holder) \in Nat /\ Cardinality(Addr) \in Nat
  BY <1>5, <1>6, FS_CardinalityType, SharedAssumption
<1>8. Cardinality(DOMAIN m.heap) < Cardinality(Addr)
  BY <1>5, <1>6, <1>7, SharedAssumption
<1>9. DOMAIN m.heap # Addr BY <1>7, <1>8
<1>10. \E a \in Addr : a \notin DOMAIN m.heap BY <1>9 DEF Good
<1> QED BY <1>10 DEF Fresh

\* from_slice into an empty place: the place holds the text alone, and the
\* others hold what they held.
LEMMA FromSliceGood ==
  ASSUME NEW m, Good(m), NEW h \in Holder, ~Holds(m, h), NEW d
  PROVE  LET n == FromSlice(m, h, d)
         IN  /\ Good(n)
             /\ DOMAIN n.ptr = DOMAIN m.ptr \cup {h}
             /\ Rc(n, h) = 1 /\ Data(n, h) = d
             /\ \A g \in DOMAIN m.ptr : Rc(n, g) = Rc(m, g) /\ Data(n, g) = Data(m, g)
<1> DEFINE a == Fresh(m)
           n == FromSlice(m, h, d)
<1>1. a \in Addr /\ a \notin DOMAIN m.heap BY FreshExists
<1>2. /\ n.heap = [z \in DOMAIN m.heap \cup {a} |-> IF z = a THEN [rc |-> 1, data |-> d] ELSE m.heap[z]]
      /\ n.ptr = [z \in DOMAIN m.ptr \cup {h} |-> IF z = h THEN a ELSE m.ptr[z]]
  BY DEF FromSlice, With
<1> HIDE DEF n
<1>3. \A g \in DOMAIN m.ptr : m.ptr[g] \in DOMAIN m.heap /\ g # h
  BY DEF Good, Counted, Holds
<1>4. HoldersOf(n, a) = {h}
  BY <1>1, <1>2, <1>3 DEF HoldersOf
<1>5. \A b \in DOMAIN m.heap : HoldersOf(n, b) = HoldersOf(m, b)
  BY <1>1, <1>2, <1>3 DEF HoldersOf
<1>6. Cardinality({h}) = 1 BY FS_Singleton
<1>7. Counted(n)
  <2>1. \A g \in DOMAIN n.ptr : n.ptr[g] \in DOMAIN n.heap BY <1>2, <1>3
  <2>2. ASSUME NEW b \in DOMAIN n.heap
        PROVE  n.heap[b].rc = Cardinality(HoldersOf(n, b)) /\ n.heap[b].rc # 0
    <3>1. CASE b = a BY <3>1, <1>2, <1>4, <1>6
    <3>2. CASE b # a
      <4>1. b \in DOMAIN m.heap /\ n.heap[b] = m.heap[b] BY <3>2, <1>2
      <4> QED BY <4>1, <1>5 DEF Good, Counted
    <3> QED BY <3>1, <3>2
  <2> QED BY <2>1, <2>2 DEF Counted
<1>8. Good(n) BY <1>1, <1>2, <1>7 DEF Good
<1>9. Rc(n, h) = 1 /\ Data(n, h) = d BY <1>2 DEF Rc, Data
<1>10. ASSUME NEW g \in DOMAIN m.ptr PROVE Rc(n, g) = Rc(m, g) /\ Data(n, g) = Data(m, g)
  BY <1>1, <1>2, <1>3 DEF Rc, Data
<1>11. DOMAIN n.ptr = DOMAIN m.ptr \cup {h} BY <1>2
<1> QED BY <1>8, <1>9, <1>10, <1>11 DEF n

\* clone into an empty place.
LEMMA CloneGood ==
  ASSUME NEW m, Good(m), NEW g \in DOMAIN m.ptr, NEW h \in Holder, ~Holds(m, h)
  PROVE  LET n == Clone(m, g, h)
         IN  /\ Good(n)
             /\ DOMAIN n.ptr = DOMAIN m.ptr \cup {h}
             /\ Data(n, h) = Data(m, g)
             /\ \A x \in DOMAIN m.ptr : Data(n, x) = Data(m, x)
<1> DEFINE a == m.ptr[g]
           n == Clone(m, g, h)
<1>1. a \in DOMAIN m.heap BY DEF Good, Counted
<1>2. m.heap[a].rc = Cardinality(HoldersOf(m, a)) BY <1>1 DEF Good, Counted
<1>3. /\ n.heap = [z \in DOMAIN m.heap \cup {a} |->
                     IF z = a THEN [rc |-> (m.heap[a].rc + 1) % RcMod, data |-> m.heap[a].data]
                     ELSE m.heap[z]]
      /\ n.ptr = [z \in DOMAIN m.ptr \cup {h} |-> IF z = h THEN a ELSE m.ptr[z]]
  BY DEF Clone, With, Rc, Data
<1> HIDE DEF n
<1>4. HoldersOf(n, a) = HoldersOf(m, a) \cup {h} /\ h \notin HoldersOf(m, a)
  BY <1>3 DEF HoldersOf, Holds
<1>5. \A b \in DOMAIN m.heap \ {a} : HoldersOf(n, b) = HoldersOf(m, b)
  BY <1>3 DEF HoldersOf, Holds
<1>6. Cardinality(HoldersOf(n, a)) = Cardinality(HoldersOf(m, a)) + 1
  BY <1>4, HoldersFinite, FS_AddElement
<1>7. Cardinality(HoldersOf(n, a)) < RcMod
  <2>1. HoldersOf(n, a) \in SUBSET Holder BY <1>4 DEF HoldersOf, Good
  <2>2. Cardinality(HoldersOf(n, a)) <= Cardinality(Holder) BY <2>1, FS_Subset, SharedAssumption
  <2>3. Cardinality(Holder) \in Nat BY FS_CardinalityType, SharedAssumption
  <2>4. Cardinality(HoldersOf(m, a)) \in Nat BY HoldersFinite
  <2> QED BY <1>6, <2>2, <2>3, <2>4, SharedAssumption
<1>8. n.heap[a].rc = Cardinality(HoldersOf(n, a)) /\ n.heap[a].rc # 0
  <2>1. Cardinality(HoldersOf(m, a)) \in Nat /\ RcMod \in Nat BY HoldersFinite
  <2>2. (m.heap[a].rc + 1) % RcMod = m.heap[a].rc + 1 BY <2>1, <1>2, <1>6, <1>7
  <2> QED BY <2>1, <2>2, <1>1, <1>2, <1>3, <1>6
<1>9. Counted(n)
  <2>1. \A x \in DOMAIN n.ptr : n.ptr[x] \in DOMAIN n.heap BY <1>1, <1>3 DEF Good, Counted
  <2>2. ASSUME NEW b \in DOMAIN n.heap
        PROVE  n.heap[b].rc = Cardinality(HoldersOf(n, b)) /\ n.heap[b].rc # 0
    <3>1. CASE b = a BY <3>1, <1>8
    <3>2. CASE b # a
      <4>1. b \in DOMAIN m.heap /\ n.heap[b] = m.heap[b] BY <3>2, <1>3
      <4> QED BY <4>1, <3>2, <1>5 DEF Good, Counted
    <3> QED BY <3>1, <3>2
  <2> QED BY <2>1, <2>2 DEF Counted
<1>10. DOMAIN n.ptr = DOMAIN m.ptr \cup {h} BY <1>3
<1>11. DOMAIN n.heap = DOMAIN m.heap BY <1>1, <1>3
<1>12. Good(n) BY <1>9, <1>10, <1>11 DEF Good
<1>13. Data(n, h) = Data(m, g) BY <1>3 DEF Data
<1>14. ASSUME NEW x \in DOMAIN m.ptr PROVE Data(n, x) = Data(m, x)
  <2>1. n.ptr[x] = m.ptr[x] BY <1>3 DEF Holds
  <2>2. m.ptr[x] \in DOMAIN m.heap BY DEF Good, Counted
  <2> QED BY <1>3, <2>1, <2>2, SMTT(30) DEF Data
<1> QED BY <1>10, <1>12, <1>13, <1>14 DEF n

\* Dropping what some places hold: an allocation stays while it has another
\* holder.
LEMMA DropGood ==
  ASSUME NEW m, Good(m), NEW S
  PROVE  LET n == Drop(m, S)
         IN  /\ Good(n)
             /\ DOMAIN n.ptr = DOMAIN m.ptr \ S
             /\ \A x \in DOMAIN n.ptr : Data(n, x) = Data(m, x)
<1> DEFINE n == Drop(m, S)
           K == {a \in DOMAIN m.heap : m.heap[a].rc = 0 \/ m.heap[a].rc > Share(m, a, S)}
<1>1. /\ n.heap = [a \in K |-> [rc |-> (m.heap[a].rc - Share(m, a, S)) % RcMod, data |-> m.heap[a].data]]
      /\ n.ptr = [h \in DOMAIN m.ptr \ S |-> m.ptr[h]]
  BY DEF Drop
<1> HIDE DEF n
<1>2. ASSUME NEW a \in DOMAIN m.heap
      PROVE  /\ HoldersOf(n, a) = HoldersOf(m, a) \ S
             /\ Cardinality(HoldersOf(n, a)) = m.heap[a].rc - Share(m, a, S)
             /\ m.heap[a].rc - Share(m, a, S) \in 0 .. RcMod - 1
             /\ m.heap[a].rc \in Nat \ {0} /\ Share(m, a, S) \in Nat
             /\ IsFiniteSet(HoldersOf(n, a))
  <2>1. HoldersOf(n, a) = HoldersOf(m, a) \ S BY <1>1 DEF HoldersOf
  <2>2. m.heap[a].rc = Cardinality(HoldersOf(m, a)) /\ m.heap[a].rc # 0 BY DEF Good, Counted
  <2>3. /\ IsFiniteSet(HoldersOf(m, a)) /\ Cardinality(HoldersOf(m, a)) \in Nat
        /\ Cardinality(HoldersOf(m, a)) < RcMod /\ RcMod \in Nat
    BY HoldersFinite
  <2>4. /\ IsFiniteSet(HoldersOf(m, a) \ S)
        /\ Cardinality(HoldersOf(m, a) \ S) = Cardinality(HoldersOf(m, a)) - Share(m, a, S)
    BY <2>3, FS_Difference DEF Share
  <2>5. IsFiniteSet(HoldersOf(m, a) \cap S) BY <2>3, FS_Intersection
  <2>6. Share(m, a, S) \in Nat /\ Cardinality(HoldersOf(m, a) \ S) \in Nat
    BY <2>4, <2>5, FS_CardinalityType DEF Share
  <2> QED BY <2>1, <2>2, <2>3, <2>4, <2>6
<1>3. ASSUME NEW h \in DOMAIN n.ptr PROVE n.ptr[h] \in DOMAIN n.heap
  <2>1. h \in DOMAIN m.ptr \ S /\ n.ptr[h] = m.ptr[h] BY <1>1
  <2>2. m.ptr[h] \in DOMAIN m.heap BY <2>1 DEF Good, Counted
  <2>3. h \in HoldersOf(n, m.ptr[h]) BY <2>1 DEF HoldersOf
  <2>4. Cardinality(HoldersOf(n, m.ptr[h])) # 0 BY <2>2, <2>3, <1>2, FS_EmptySet
  <2>5. m.heap[m.ptr[h]].rc > Share(m, m.ptr[h], S) BY <2>2, <2>4, <1>2
  <2> QED BY <2>1, <2>2, <2>5, <1>1
<1>4. ASSUME NEW a \in DOMAIN n.heap
      PROVE  n.heap[a].rc = Cardinality(HoldersOf(n, a)) /\ n.heap[a].rc # 0
  <2>1. a \in DOMAIN m.heap /\ (m.heap[a].rc = 0 \/ m.heap[a].rc > Share(m, a, S)) BY <1>1
  <2>2. n.heap[a].rc = (m.heap[a].rc - Share(m, a, S)) % RcMod BY <1>1
  <2>3. RcMod \in Nat BY SharedAssumption
  <2>4. (m.heap[a].rc - Share(m, a, S)) % RcMod = m.heap[a].rc - Share(m, a, S)
    BY <2>1, <2>3, <1>2
  <2> QED BY <2>1, <2>2, <2>4, <1>2
<1>5. Counted(n) BY <1>3, <1>4 DEF Counted
<1>6. Good(n) BY <1>1, <1>5 DEF Good
<1>7. ASSUME NEW x \in DOMAIN n.ptr PROVE Data(n, x) = Data(m, x)
  <2>1. n.ptr[x] = m.ptr[x] /\ n.ptr[x] \in K BY <1>1, <1>3
  <2> HIDE DEF K
  <2>2. n.heap[m.ptr[x]].data = m.heap[m.ptr[x]].data BY <1>1, <2>1
  <2> QED BY <2>1, <2>2 DEF Data
<1> QED BY <1>1, <1>6, <1>7 DEF n

\* to_uppercase of a sole holder, as handle_buffer calls it.
LEMMA ToUppercaseGood ==
  ASSUME NEW m, Good(m), NEW h \in DOMAIN m.ptr, Rc(m, h) = 1
  PROVE  LET n == ToUppercase(m, h)
         IN  /\ Good(n)
             /\ DOMAIN n.ptr = DOMAIN m.ptr
             /\ Data(n, h) = <<Data(m, h)[1], TRUE>>
             /\ \A x \in DOMAIN m.ptr \ {h} : Data(n, x) = Data(m, x)
<1> DEFINE n == ToUppercase(m, h)
           a == m.ptr[h]
           t == <<Data(m, h)[1], TRUE>>
<1>1. a \in DOMAIN m.heap /\ m.heap[a].rc = 1 BY DEF Good, Counted, Rc
<1>2. /\ n.heap = [z \in DOMAIN m.heap \cup {a} |->
                     IF z = a THEN [rc |-> 1, data |-> t] ELSE m.heap[z]]
      /\ n.ptr = m.ptr
  BY DEF ToUppercase, With
<1> HIDE DEF n, t
<1>3. \A b : HoldersOf(n, b) = HoldersOf(m, b) BY <1>2 DEF HoldersOf
<1>4. DOMAIN n.heap = DOMAIN m.heap /\ \A b \in DOMAIN m.heap : n.heap[b].rc = m.heap[b].rc
  BY <1>1, <1>2
<1>5. Counted(n) BY <1>2, <1>3, <1>4 DEF Good, Counted
<1>6. Good(n) BY <1>2, <1>4, <1>5 DEF Good
<1>7. Data(n, h) = t BY <1>2 DEF Data
<1>8. HoldersOf(m, a) = {h}
  <2>1. IsFiniteSet(HoldersOf(m, a)) /\ Cardinality(HoldersOf(m, a)) = 1
    BY <1>1, HoldersFinite DEF Good, Counted
  <2>2. PICK x : HoldersOf(m, a) = {x} BY <2>1, FS_Singleton
  <2>3. h \in HoldersOf(m, a) BY DEF HoldersOf
  <2> QED BY <2>2, <2>3
<1>9. ASSUME NEW x \in DOMAIN m.ptr \ {h} PROVE Data(n, x) = Data(m, x)
  <2>1. m.ptr[x] # a BY <1>8 DEF HoldersOf
  <2>2. m.ptr[x] \in DOMAIN m.heap BY DEF Good, Counted
  <2> QED BY <1>2, <2>1, <2>2 DEF Data
<1> QED BY <1>2, <1>6, <1>7, <1>9 DEF n, t

-----------------------------------------------------------------------------
(* Connections.                                                             *)

\* The places of different connections, and of the tree, are different.
LEMMA PlacesApart ==
  ASSUME NEW c \in Clients
  PROVE  /\ Own(c) \subseteq Holder
         /\ \A d \in Clients \ {c} : Own(c) \cap Own(d) = {}
         /\ \A k : Val(k) \notin Own(c)
         /\ \A k \in Keys : Val(k) \in Holder
         /\ Cmd(c) # Arg(c, 1) /\ Cmd(c) # Arg(c, 2) /\ Arg(c, 1) # Arg(c, 2)
         /\ Rep(c, 1) # Rep(c, 2)
         /\ Rep(c, 1) \notin {Cmd(c), Arg(c, 1), Arg(c, 2)}
         /\ Rep(c, 2) \notin {Cmd(c), Arg(c, 1), Arg(c, 2)}
<1>1. Own(c) \subseteq Holder
  BY PlacesAssumption DEF Own, Places
<1>2. \A d \in Clients \ {c} : Own(c) \cap Own(d) = {}
  BY DEF Own, Cmd, Arg, Rep
<1>3. \A k : Val(k) \notin Own(c)
  BY DEF Own, Cmd, Arg, Rep, Val
<1>4. \A k \in Keys : Val(k) \in Holder
  BY PlacesAssumption DEF Places
<1>5. /\ Cmd(c) # Arg(c, 1) /\ Cmd(c) # Arg(c, 2) /\ Arg(c, 1) # Arg(c, 2)
      /\ Rep(c, 1) # Rep(c, 2)
      /\ Rep(c, 1) \notin {Cmd(c), Arg(c, 1), Arg(c, 2)}
      /\ Rep(c, 2) \notin {Cmd(c), Arg(c, 1), Arg(c, 2)}
  BY DEF Cmd, Arg, Rep
<1> QED BY <1>1, <1>2, <1>3, <1>4, <1>5

Vals == {Val(k) : k \in Keys}

ScriptFrames == UNION {UNION {{s[i] : i \in DOMAIN s} : s \in Scripts[c]} : c \in Clients}
Tokens == ScriptFrames \X {1, 2}

\* The frames of the scripts have the arguments their commands want.
LEMMA FramesWellUsed == ASSUME NEW f \in ScriptFrames PROVE WellUsed(f)
<1>1. PICK c \in Clients : f \in UNION {{s[i] : i \in DOMAIN s} : s \in Scripts[c]}
  BY DEF ScriptFrames
<1>2. PICK s \in Scripts[c] : f \in {s[i] : i \in DOMAIN s} BY <1>1
<1> QED BY <1>2, ConnectionAssumption

\* The bytes in buffers and on the wire are halves of frames of the scripts.
BytesOfFrames ==
  /\ conn = [c \in Clients |-> [stage |-> conn[c].stage, buf |-> conn[c].buf,
                                reply |-> conn[c].reply, then |-> conn[c].then]]
  /\ \A c \in Clients : conn[c].buf \in Seq(Tokens)
  /\ wire \in [Clients -> Seq(Tokens)]
  /\ sent \in [Clients -> Seq(ScriptFrames)]

\* The inductive invariant: RcExact needs the places of an idle connection to
\* be empty, and SET and ECHO to come with their arguments.
IInv == Good(mem) /\ IdleHoldsNothing /\ BytesOfFrames

LEMMA InitInv == Init => IInv
<1> SUFFICES ASSUME Init PROVE IInv OBVIOUS
<1>1. mem.ptr = [h \in {} |-> 0] /\ mem.heap = [a \in {} |-> [rc |-> 0, data |-> <<>>]]
  BY DEF Init, NoMemory
<1>2. Good(mem)
  <2>1. DOMAIN mem.ptr = {} /\ DOMAIN mem.heap = {} BY <1>1
  <2> QED BY <2>1 DEF Good, Counted
<1>3. IdleHoldsNothing BY <1>1 DEF IdleHoldsNothing
<1>4. BytesOfFrames
  <2>1. <<>> \in Seq(Tokens) /\ <<>> \in Seq(ScriptFrames) OBVIOUS
  <2> QED BY <2>1 DEF Init, BytesOfFrames
<1> QED BY <1>2, <1>3, <1>4 DEF IInv

\* The i-th argument is there when the frame has it.
LEMMA ArgumentGood ==
  ASSUME NEW m, Good(m), NEW c \in Clients, NEW i \in 1 .. 2, NEW f,
         ~Holds(m, Arg(c, i))
  PROVE  LET n == Argument(m, c, i, f)
         IN  /\ Good(n)
             /\ DOMAIN m.ptr \subseteq DOMAIN n.ptr
             /\ DOMAIN n.ptr \subseteq DOMAIN m.ptr \cup {Arg(c, i)}
             /\ i < Len(f) => Arg(c, i) \in DOMAIN n.ptr /\ Data(n, Arg(c, i)) = Text(f[i + 1])
             /\ \A g \in DOMAIN m.ptr : Rc(n, g) = Rc(m, g) /\ Data(n, g) = Data(m, g)
<1>1. Arg(c, i) \in Holder BY PlacesApart DEF Own
<1>2. CASE i < Len(f)
  <2> DEFINE n == FromSlice(m, Arg(c, i), Text(f[i + 1]))
  <2>1. Argument(m, c, i, f) = n BY <1>2 DEF Argument
  <2>2. /\ Good(n)
        /\ DOMAIN n.ptr = DOMAIN m.ptr \cup {Arg(c, i)}
        /\ Data(n, Arg(c, i)) = Text(f[i + 1])
        /\ \A g \in DOMAIN m.ptr : Rc(n, g) = Rc(m, g) /\ Data(n, g) = Data(m, g)
    BY <1>1, FromSliceGood
  <2> HIDE DEF n
  <2> QED BY <2>1, <2>2
<1>3. CASE ~(i < Len(f)) BY <1>3 DEF Argument
<1> QED BY <1>2, <1>3

LEMMA FetchGood ==
  ASSUME NEW m, Good(m), NEW c \in Clients, NEW i \in 1 .. 2, NEW k,
         ~Holds(m, Rep(c, i))
  PROVE  LET n == Fetch(m, k, c, i)
         IN  /\ Good(n)
             /\ DOMAIN n.ptr \subseteq DOMAIN m.ptr \cup {Rep(c, i)}
             /\ \A x \in DOMAIN m.ptr : Data(n, x) = Data(m, x)
<1>1. Rep(c, i) \in Holder BY PlacesApart DEF Own
<1>2. CASE Holds(m, Val(k))
  <2> DEFINE n == Clone(m, Val(k), Rep(c, i))
  <2>1. Fetch(m, k, c, i) = n BY <1>2 DEF Fetch
  <2>2. Val(k) \in DOMAIN m.ptr BY <1>2 DEF Holds
  <2>3. /\ Good(n) /\ DOMAIN n.ptr = DOMAIN m.ptr \cup {Rep(c, i)}
        /\ \A x \in DOMAIN m.ptr : Data(n, x) = Data(m, x)
    BY <1>1, <2>2, CloneGood
  <2> HIDE DEF n
  <2> QED BY <2>1, <2>3
<1>3. CASE ~Holds(m, Val(k)) BY <1>3 DEF Fetch
<1> QED BY <1>2, <1>3

\* What the handler leaves, given a command of its own and its arguments.
LEMMA RunGood ==
  ASSUME NEW m, Good(m), NEW c \in Clients, NEW f,
         ~Holds(m, Rep(c, 1)), ~Holds(m, Rep(c, 2)),
         Handler(m, c) = "echo" => Holds(m, Arg(c, 1)),
         Handler(m, c) = "set" => Holds(m, Arg(c, 2)) /\ f[2] \in Keys,
         Run(m, c, f)
  PROVE  /\ Good(mem')
         /\ DOMAIN mem'.ptr \subseteq DOMAIN m.ptr \cup Own(c) \cup Vals
         /\ \A k : Val(k) \in DOMAIN mem'.ptr =>
              \/ Val(k) \in DOMAIN m.ptr /\ Data(mem', Val(k)) = Data(m, Val(k))
              \/ /\ Handler(m, c) = "set" /\ Val(k) = Val(f[2])
                 /\ Data(mem', Val(k)) = Data(m, Arg(c, 2))
<1>0. /\ Rep(c, 1) \in Holder /\ Rep(c, 1) \in Own(c) /\ Rep(c, 2) \in Own(c)
      /\ Arg(c, 2) \in Own(c)
      /\ \A k : Val(k) \notin Own(c)
  BY PlacesApart DEF Own
<1>1. CASE Handler(m, c) = "get" /\ mem' = Fetch(m, f[2], c, 1)
  BY <1>0, <1>1, FetchGood
<1>2. CASE Handler(m, c) = "mget" /\ \E n \in {Fetch(m, f[2], c, 1)} : mem' = Fetch(n, f[3], c, 2)
  <2> DEFINE n == Fetch(m, f[2], c, 1)
  <2>1. /\ Good(n) /\ DOMAIN n.ptr \subseteq DOMAIN m.ptr \cup {Rep(c, 1)}
        /\ \A x \in DOMAIN m.ptr : Data(n, x) = Data(m, x)
    BY FetchGood
  <2>2. mem' = Fetch(n, f[3], c, 2) BY <1>2
  <2> HIDE DEF n
  <2>3. ~Holds(n, Rep(c, 2)) BY <2>1, PlacesApart DEF Holds
  <2>4. /\ Good(mem') /\ DOMAIN mem'.ptr \subseteq DOMAIN n.ptr \cup {Rep(c, 2)}
        /\ \A x \in DOMAIN n.ptr : Data(mem', x) = Data(n, x)
    BY <2>1, <2>2, <2>3, FetchGood
  <2> QED BY <2>1, <2>4, <1>0
<1>3. CASE /\ Handler(m, c) = "set"
           /\ \E n \in {Drop(m, {Val(f[2])})} :
              \E p \in {Clone(n, Arg(c, 2), Val(f[2]))} :
                mem' = FromSlice(p, Rep(c, 1), Text("OK"))
  <2> DEFINE n == Drop(m, {Val(f[2])})
             p == Clone(n, Arg(c, 2), Val(f[2]))
  <2>1. mem' = FromSlice(p, Rep(c, 1), Text("OK")) BY <1>3
  <2>2. f[2] \in Keys /\ Arg(c, 2) \in DOMAIN m.ptr BY <1>3 DEF Holds
  <2>3. /\ Good(n) /\ DOMAIN n.ptr = DOMAIN m.ptr \ {Val(f[2])}
        /\ \A x \in DOMAIN n.ptr : Data(n, x) = Data(m, x)
    BY DropGood
  <2>4. Val(f[2]) \in Holder /\ Val(f[2]) \notin Own(c) BY <2>2, PlacesApart
  <2>5. Arg(c, 2) \in DOMAIN n.ptr BY <2>2, <2>3, <2>4 DEF Own
  <2>6. ~Holds(n, Val(f[2])) BY <2>3 DEF Holds
  <2> HIDE DEF n
  <2>7. /\ Good(p) /\ DOMAIN p.ptr = DOMAIN n.ptr \cup {Val(f[2])}
        /\ Data(p, Val(f[2])) = Data(n, Arg(c, 2))
        /\ \A x \in DOMAIN n.ptr : Data(p, x) = Data(n, x)
    BY <2>3, <2>4, <2>5, <2>6, CloneGood
  <2> HIDE DEF p
  <2>8. ~Holds(p, Rep(c, 1)) BY <2>3, <2>4, <2>7, <1>0 DEF Holds
  <2>9. /\ Good(mem') /\ DOMAIN mem'.ptr = DOMAIN p.ptr \cup {Rep(c, 1)}
        /\ \A x \in DOMAIN p.ptr : Data(mem', x) = Data(p, x)
    BY <2>1, <2>7, <2>8, <1>0, FromSliceGood
  <2>10. DOMAIN mem'.ptr \subseteq DOMAIN m.ptr \cup Own(c) \cup Vals
    BY <2>2, <2>3, <2>7, <2>9, <1>0 DEF Vals
  <2>11. ASSUME NEW k, Val(k) \in DOMAIN mem'.ptr
         PROVE  \/ Val(k) \in DOMAIN m.ptr /\ Data(mem', Val(k)) = Data(m, Val(k))
                \/ Val(k) = Val(f[2]) /\ Data(mem', Val(k)) = Data(m, Arg(c, 2))
    BY <2>11, <2>3, <2>5, <2>7, <2>9, <1>0
  <2> QED BY <2>9, <2>10, <2>11, <1>3
<1>4. CASE Handler(m, c) = "del" /\ mem' = Drop(m, {Val(f[2])})
  BY <1>4, DropGood
<1>5. CASE Handler(m, c) = "echo" /\ mem' = Clone(m, Arg(c, 1), Rep(c, 1))
  BY <1>0, <1>5, CloneGood DEF Holds
<1>6. CASE Handler(m, c) = "ping" /\ mem' = FromSlice(m, Rep(c, 1), Text("PONG"))
  BY <1>0, <1>6, FromSliceGood
<1>7. CASE Handler(m, c) = "quit" /\ mem' = FromSlice(m, Rep(c, 1), Text("OK"))
  BY <1>0, <1>7, FromSliceGood
<1>8. CASE Handler(m, c) = "none" /\ mem' = m
  BY <1>8
<1> QED BY <1>1, <1>2, <1>3, <1>4, <1>5, <1>6, <1>7, <1>8 DEF Run

\* A step of c leaves the places of the other connections as they were.
LEMMA OthersIdle ==
  ASSUME IInv, NEW c \in Clients, NEW d \in Clients \ {c},
         DOMAIN mem'.ptr \subseteq DOMAIN mem.ptr \cup Own(c) \cup Vals,
         conn'[d].stage = conn[d].stage
  PROVE  conn'[d].stage # "writing" => DOMAIN mem'.ptr \cap Own(d) = {}
<1>1. Own(c) \cap Own(d) = {} /\ Vals \cap Own(d) = {} BY PlacesApart DEF Vals
<1> QED BY <1>1 DEF IInv, IdleHoldsNothing

\* The reply to f, in terms of the memory before the command.
RepliedFrom(f, r) ==
  /\ f[1] = "get"  => r = Found(mem, f[2])
  /\ f[1] = "mget" => r = <<"Array", Found(mem, f[2]), Found(mem, f[3])>>
  /\ f[1] = "set"  => r = <<"Simple", "OK">>
  /\ f[1] = "del"  => r[1] = "Integer"
  /\ f[1] = "echo" => r = <<"Bulk", f[2]>>
  /\ f[1] = "ping" => r = <<"Simple", "PONG">>
  /\ f[1] = "quit" => r = <<"Simple", "OK">>
  /\ f = Nested    => r = <<"Error", "empty command">>
  /\ f[1] \notin Known /\ f # Nested => r = <<"Error", "unknown command">>

\* A memory with the values of mem, the command in capitals and its argument
\* gives the reply that mem does.
LEMMA AnswerFrom ==
  ASSUME NEW c \in Clients, NEW f, f # Nested, NEW m,
         \A k : Holds(m, Val(k)) <=> Holds(mem, Val(k)),
         \A k : Holds(mem, Val(k)) => Data(m, Val(k)) = Data(mem, Val(k)),
         Handler(m, c) = IF f[1] \in Known THEN f[1] ELSE "none",
         f[1] = "echo" => Data(m, Arg(c, 1)) = Text(f[2])
  PROVE  RepliedFrom(f, Answer(m, c, f))
<1>1. \A k : Found(m, k) = Found(mem, k) BY DEF Found
<1>2. f[1] = "get" => Answer(m, c, f) = Found(mem, f[2]) BY <1>1 DEF Answer, Known
<1>3. f[1] = "mget" => Answer(m, c, f) = <<"Array", Found(mem, f[2]), Found(mem, f[3])>>
  BY <1>1 DEF Answer, Known
<1>4. f[1] = "set" => Answer(m, c, f) = <<"Simple", "OK">> BY DEF Answer, Known
<1>5. f[1] = "del" => Answer(m, c, f)[1] = "Integer" BY DEF Answer, Known
<1>6. f[1] = "echo" => Answer(m, c, f) = <<"Bulk", f[2]>> BY DEF Answer, Known, Text
<1>7. f[1] = "ping" => Answer(m, c, f) = <<"Simple", "PONG">> BY DEF Answer, Known
<1>8. f[1] = "quit" => Answer(m, c, f) = <<"Simple", "OK">> BY DEF Answer, Known
<1>9. f[1] \notin Known => Answer(m, c, f) = <<"Error", "unknown command">>
  <2> HAVE f[1] \notin Known
  <2>1. Handler(m, c) = "none" OBVIOUS
  <2> QED BY <2>1 DEF Answer
<1> QED BY <1>2, <1>3, <1>4, <1>5, <1>6, <1>7, <1>8, <1>9 DEF RepliedFrom

\* What a command does: to the memory, and as the reply that is written.
LEMMA DispatchMemory ==
  ASSUME IInv, NEW c \in Clients, Dispatch(c)
  PROVE  LET f == conn[c].buf[1][1]
         IN  /\ Good(mem')
             /\ DOMAIN mem'.ptr \subseteq DOMAIN mem.ptr \cup Own(c) \cup Vals
             /\ \A k : Val(k) \in DOMAIN mem'.ptr =>
                  \/ Val(k) \in DOMAIN mem.ptr /\ Data(mem', Val(k)) = Data(mem, Val(k))
                  \/ f[1] = "set" /\ Val(k) = Val(f[2]) /\ Data(mem', Val(k)) = Text(f[3])
             /\ \E r : /\ RepliedFrom(f, r)
                       /\ Send(c, Tail(Tail(conn[c].buf)), r, IF f[1] = "quit" THEN "quit" ELSE "next")
<1> DEFINE f == conn[c].buf[1][1]
<1>1. Good(mem) /\ DOMAIN mem.ptr \cap Own(c) = {}
  BY DEF IInv, IdleHoldsNothing, Dispatch
<1>2. WellUsed(f)
  <2>1. conn[c].buf \in Seq(Tokens) /\ Len(conn[c].buf) >= 2
    BY DEF IInv, BytesOfFrames, Dispatch, Complete
  <2>2. conn[c].buf[1] \in Tokens BY <2>1
  <2>3. f \in ScriptFrames BY <2>2 DEF Tokens
  <2> QED BY <2>3, FramesWellUsed
<1>3. CASE f = Nested
  <2> DEFINE r == <<"Error", "empty command">>
  <2>1. mem' = mem /\ Send(c, Tail(Tail(conn[c].buf)), r, "next") BY <1>3 DEF Dispatch
  <2>2. f[1] = "nested" BY <1>3 DEF Nested
  <2>3. RepliedFrom(f, r) BY <1>3, <2>2 DEF RepliedFrom, Known
  <2> HIDE DEF f, r
  <2>4. \E q : /\ RepliedFrom(f, q)
               /\ Send(c, Tail(Tail(conn[c].buf)), q, IF f[1] = "quit" THEN "quit" ELSE "next")
    BY <2>1, <2>2, <2>3
  <2> QED BY <1>1, <2>1, <2>4 DEF f
<1>4. CASE f # Nested
  <2> DEFINE m0 == FromSlice(mem, Cmd(c), Text(f[1]))
             m1 == Argument(m0, c, 1, f)
             m2 == Argument(m1, c, 2, f)
             m  == ToUppercase(m2, Cmd(c))
  <2> DEFINE t == IF Handler(m, c) = "quit" THEN "quit" ELSE "next"
  <2>1. Run(m, c, f) /\ Send(c, Tail(Tail(conn[c].buf)), Answer(m, c, f), t)
    BY <1>4 DEF Dispatch
  <2>2. /\ Cmd(c) \in Holder
        /\ {Cmd(c), Arg(c, 1), Arg(c, 2), Rep(c, 1), Rep(c, 2)} = Own(c)
    BY PlacesApart DEF Own
  <2>3. ~Holds(mem, Cmd(c)) BY <1>1, <2>2 DEF Holds
  <2>4. /\ Good(m0) /\ DOMAIN m0.ptr = DOMAIN mem.ptr \cup {Cmd(c)}
        /\ Rc(m0, Cmd(c)) = 1 /\ Data(m0, Cmd(c)) = Text(f[1])
        /\ \A x \in DOMAIN mem.ptr : Data(m0, x) = Data(mem, x)
    BY <1>1, <2>2, <2>3, FromSliceGood
  <2> HIDE DEF m0
  <2>5. ~Holds(m0, Arg(c, 1)) BY <1>1, <2>2, <2>4, PlacesApart DEF Holds
  <2>6. /\ Good(m1)
        /\ DOMAIN m0.ptr \subseteq DOMAIN m1.ptr
        /\ DOMAIN m1.ptr \subseteq DOMAIN m0.ptr \cup {Arg(c, 1)}
        /\ 1 < Len(f) => Arg(c, 1) \in DOMAIN m1.ptr /\ Data(m1, Arg(c, 1)) = Text(f[2])
        /\ \A x \in DOMAIN m0.ptr : Data(m1, x) = Data(m0, x)
        /\ Rc(m1, Cmd(c)) = 1 /\ Data(m1, Cmd(c)) = Text(f[1])
    BY <2>4, <2>5, ArgumentGood
  <2> HIDE DEF m1
  <2>7. ~Holds(m1, Arg(c, 2)) BY <1>1, <2>2, <2>4, <2>6, PlacesApart DEF Holds
  <2>8. /\ Good(m2)
        /\ DOMAIN m1.ptr \subseteq DOMAIN m2.ptr
        /\ DOMAIN m2.ptr \subseteq DOMAIN m1.ptr \cup {Arg(c, 2)}
        /\ 2 < Len(f) => Arg(c, 2) \in DOMAIN m2.ptr /\ Data(m2, Arg(c, 2)) = Text(f[3])
        /\ \A x \in DOMAIN m1.ptr : Data(m2, x) = Data(m1, x)
        /\ Rc(m2, Cmd(c)) = 1 /\ Data(m2, Cmd(c)) = Text(f[1])
    BY <2>4, <2>6, <2>7, ArgumentGood
  <2> HIDE DEF m2
  <2>9. Cmd(c) \in DOMAIN m2.ptr BY <2>4, <2>6, <2>8
  <2>10. /\ Good(m) /\ DOMAIN m.ptr = DOMAIN m2.ptr
         /\ Data(m, Cmd(c)) = <<Data(m2, Cmd(c))[1], TRUE>>
         /\ \A x \in DOMAIN m2.ptr \ {Cmd(c)} : Data(m, x) = Data(m2, x)
    BY <2>8, <2>9, ToUppercaseGood
  <2> HIDE DEF m
  <2>11. Handler(m, c) = IF f[1] \in Known THEN f[1] ELSE "none"
    <3>1. Data(m, Cmd(c))[1] = f[1] /\ Data(m, Cmd(c))[2] = TRUE BY <2>8, <2>10 DEF Text
    <3> QED BY <3>1 DEF Handler
  <2>12. /\ f[1] = "echo" => Holds(m, Arg(c, 1)) /\ Data(m, Arg(c, 1)) = Text(f[2])
         /\ f[1] = "set" => /\ Holds(m, Arg(c, 2)) /\ f[2] \in Keys
                            /\ Data(m, Arg(c, 2)) = Text(f[3])
    <3>1. Len(f) \in Nat BY <1>2 DEF WellUsed
    <3>2. f[1] = "echo" => 1 < Len(f) BY <1>2, <3>1 DEF WellUsed
    <3>3. f[1] = "set" => 2 < Len(f) /\ f[2] \in Keys BY <1>2, <3>1 DEF WellUsed
    <3> QED BY <2>6, <2>8, <2>10, <3>2, <3>3, PlacesApart DEF Holds
  <2>13. ~Holds(m, Rep(c, 1)) /\ ~Holds(m, Rep(c, 2))
    BY <1>1, <2>2, <2>4, <2>6, <2>8, <2>10, PlacesApart DEF Holds
  <2> HIDE DEF f
  <2>14. /\ Good(mem')
         /\ DOMAIN mem'.ptr \subseteq DOMAIN m.ptr \cup Own(c) \cup Vals
         /\ \A k : Val(k) \in DOMAIN mem'.ptr =>
              \/ Val(k) \in DOMAIN m.ptr /\ Data(mem', Val(k)) = Data(m, Val(k))
              \/ /\ Handler(m, c) = "set" /\ Val(k) = Val(f[2])
                 /\ Data(mem', Val(k)) = Data(m, Arg(c, 2))
    <3>1. Handler(m, c) = "echo" => f[1] = "echo" BY <2>11 DEF Known
    <3>2. Handler(m, c) = "set" => f[1] = "set" BY <2>11 DEF Known
    <3> QED BY <2>1, <2>10, <2>12, <2>13, <3>1, <3>2, RunGood
  <2>15. DOMAIN m.ptr \subseteq DOMAIN mem.ptr \cup Own(c)
    BY <2>2, <2>4, <2>6, <2>8, <2>10
  <2>16. \A k : Val(k) \in DOMAIN m.ptr <=> Val(k) \in DOMAIN mem.ptr
    BY <2>4, <2>6, <2>8, <2>10, <2>15, PlacesApart
  <2>17. \A k : Val(k) \in DOMAIN mem.ptr => Data(m, Val(k)) = Data(mem, Val(k))
    <3> SUFFICES ASSUME NEW k, Val(k) \in DOMAIN mem.ptr PROVE Data(m, Val(k)) = Data(mem, Val(k))
      OBVIOUS
    <3>1. Val(k) # Cmd(c) BY <2>2, PlacesApart
    <3> QED BY <3>1, <2>4, <2>6, <2>8, <2>10
  <2>18. RepliedFrom(f, Answer(m, c, f))
    BY <1>4, <2>11, <2>12, <2>16, <2>17, AnswerFrom DEF Holds
  <2>19. t = IF f[1] = "quit" THEN "quit" ELSE "next" BY <2>11 DEF Known
  <2>20. ASSUME NEW k, Val(k) \in DOMAIN mem'.ptr
         PROVE  \/ Val(k) \in DOMAIN mem.ptr /\ Data(mem', Val(k)) = Data(mem, Val(k))
                \/ f[1] = "set" /\ Val(k) = Val(f[2]) /\ Data(mem', Val(k)) = Text(f[3])
    <3>1. Handler(m, c) = "set" => f[1] = "set" BY <2>11 DEF Known
    <3> QED BY <2>12, <2>14, <2>16, <2>17, <2>20, <3>1
  <2>21. \E r : /\ RepliedFrom(f, r)
                /\ Send(c, Tail(Tail(conn[c].buf)), r, IF f[1] = "quit" THEN "quit" ELSE "next")
    <3> DEFINE r == Answer(m, c, f)
    <3>1. RepliedFrom(f, r) /\ Send(c, Tail(Tail(conn[c].buf)), r, t) BY <2>1, <2>18
    <3> HIDE DEF r, t
    <3> QED BY <3>1, <2>19
  <2> QED BY <2>14, <2>15, <2>20, <2>21 DEF f
<1> QED BY <1>3, <1>4

\* A connection whose record is replaced keeps the others, and its form.
LEMMA ConnReplaced ==
  ASSUME BytesOfFrames, NEW c \in Clients, NEW st, NEW b \in Seq(Tokens), NEW r, NEW t,
         conn' = [conn EXCEPT ![c] = [stage |-> st, buf |-> b, reply |-> r, then |-> t]],
         wire' \in [Clients -> Seq(Tokens)], sent' \in [Clients -> Seq(ScriptFrames)]
  PROVE  /\ BytesOfFrames'
         /\ conn'[c].stage = st
         /\ \A d \in Clients \ {c} : conn'[d] = conn[d]
<1>1. DOMAIN conn = Clients BY DEF BytesOfFrames
<1>2. conn'[c] = [stage |-> st, buf |-> b, reply |-> r, then |-> t] BY <1>1
<1>3. \A d \in Clients \ {c} : conn'[d] = conn[d] BY <1>1
<1>4. \A d \in Clients : conn'[d].buf \in Seq(Tokens) BY <1>2, <1>3 DEF BytesOfFrames
<1>5. \A d \in Clients : conn'[d] = [stage |-> conn'[d].stage, buf |-> conn'[d].buf,
                                     reply |-> conn'[d].reply, then |-> conn'[d].then]
  <2>1. \A d \in Clients : conn[d] = [stage |-> conn[d].stage, buf |-> conn[d].buf,
                                      reply |-> conn[d].reply, then |-> conn[d].then]
    BY DEF BytesOfFrames
  <2> QED BY <1>2, <1>3, <2>1
<1>6. conn' = [d \in Clients |-> conn'[d]] BY <1>1
<1>7. conn' = [d \in Clients |-> [stage |-> conn'[d].stage, buf |-> conn'[d].buf,
                                  reply |-> conn'[d].reply, then |-> conn'[d].then]]
  BY <1>5, <1>6
<1> QED BY <1>2, <1>3, <1>4, <1>7 DEF BytesOfFrames

\* A step of c that leaves the memory, or what c does not own of it.
LEMMA StepInv ==
  ASSUME IInv, NEW c \in Clients, NEW st, NEW b \in Seq(Tokens), NEW r, NEW t,
         conn' = [conn EXCEPT ![c] = [stage |-> st, buf |-> b, reply |-> r, then |-> t]],
         wire' \in [Clients -> Seq(Tokens)], sent' = sent,
         Good(mem'),
         DOMAIN mem'.ptr \subseteq DOMAIN mem.ptr \cup Own(c) \cup Vals,
         st # "writing" => DOMAIN mem'.ptr \cap Own(c) = {}
  PROVE  IInv'
<1>1. BytesOfFrames /\ sent' \in [Clients -> Seq(ScriptFrames)] BY DEF IInv, BytesOfFrames
<1>2. /\ BytesOfFrames' /\ conn'[c].stage = st
      /\ \A d \in Clients \ {c} : conn'[d] = conn[d]
  BY <1>1, ConnReplaced
<1>3. IdleHoldsNothing'
  <2>1. ASSUME NEW d \in Clients, conn'[d].stage # "writing" PROVE DOMAIN mem'.ptr \cap Own(d) = {}
    <3>1. CASE d = c BY <2>1, <3>1, <1>2
    <3>2. CASE d # c BY <2>1, <3>2, <1>2, OthersIdle
    <3> QED BY <3>1, <3>2
  <2> QED BY <2>1 DEF IdleHoldsNothing, Own, Cmd, Arg, Rep
<1> QED BY <1>2, <1>3 DEF IInv, Good, Counted, HoldersOf

\* Every step keeps the invariant.
LEMMA NextInv == IInv /\ [Next]_vars => IInv'
<1> SUFFICES ASSUME IInv, [Next]_vars PROVE IInv' OBVIOUS
<1>0. /\ Good(mem) /\ IdleHoldsNothing /\ BytesOfFrames
      /\ wire \in [Clients -> Seq(Tokens)] /\ sent \in [Clients -> Seq(ScriptFrames)]
      /\ DOMAIN conn = Clients
      /\ \A c \in Clients : /\ conn[c].buf \in Seq(Tokens)
                            /\ conn[c] = [stage |-> conn[c].stage, buf |-> conn[c].buf,
                                          reply |-> conn[c].reply, then |-> conn[c].then]
  BY DEF IInv, BytesOfFrames
<1>1. ASSUME NEW c \in Clients, NEW n \in 1 .. Len(wire[c]), ReadSome(c, n) PROVE IInv'
  <2> DEFINE b == conn[c].buf \o SubSeq(wire[c], 1, n)
             w == SubSeq(wire[c], n + 1, Len(wire[c]))
  <2>1. wire[c] \in Seq(Tokens) /\ Len(wire[c]) \in Nat BY <1>0
  <2>2. \A i \in 1 .. Len(wire[c]) : wire[c][i] \in Tokens BY <2>1
  <2>3. SubSeq(wire[c], 1, n) \in Seq(Tokens) BY <2>1, <2>2, SubSeqProperties
  <2>4. w \in Seq(Tokens) BY <2>1, <2>2, SubSeqProperties
  <2>5. b \in Seq(Tokens) BY <1>0, <2>3, ConcatProperties
  <2>6. wire' = [wire EXCEPT ![c] = w] BY <1>1 DEF ReadSome
  <2>7. conn' = [conn EXCEPT ![c] = [stage |-> "ready", buf |-> b,
                                     reply |-> <<>>, then |-> "none"]]
    BY <1>1 DEF ReadSome, Becomes
  <2> HIDE DEF b, w
  <2>8. wire' \in [Clients -> Seq(Tokens)] BY <1>0, <2>4, <2>6
  <2>9. mem' = mem /\ sent' = sent BY <1>1 DEF ReadSome
  <2>10. DOMAIN mem.ptr \cap Own(c) = {} BY <1>0, <1>1 DEF ReadSome, Polled, IdleHoldsNothing
  <2> QED BY <1>0, <2>5, <2>7, <2>8, <2>9, <2>10, StepInv
<1>2. ASSUME NEW c \in Clients, ReadEnds(c) PROVE IInv'
  <2>1. conn' = [conn EXCEPT ![c] = [stage |-> "closed", buf |-> conn[c].buf,
                                     reply |-> <<>>, then |-> "none"]]
    BY <1>2 DEF ReadEnds, Becomes
  <2>2. mem' = mem /\ wire' = wire /\ sent' = sent BY <1>2 DEF ReadEnds
  <2>3. DOMAIN mem.ptr \cap Own(c) = {} BY <1>0, <1>2 DEF ReadEnds, Polled, IdleHoldsNothing
  <2> QED BY <1>0, <2>1, <2>2, <2>3, StepInv
<1>3. ASSUME NEW c \in Clients, NeedMore(c) PROVE IInv'
  <2>1. conn' = [conn EXCEPT ![c] = [stage |-> "reading", buf |-> conn[c].buf,
                                     reply |-> <<>>, then |-> "none"]]
    BY <1>3 DEF NeedMore, Becomes
  <2>2. mem' = mem /\ wire' = wire /\ sent' = sent BY <1>3 DEF NeedMore
  <2>3. DOMAIN mem.ptr \cap Own(c) = {} BY <1>0, <1>3 DEF NeedMore, IdleHoldsNothing
  <2> QED BY <1>0, <2>1, <2>2, <2>3, StepInv
<1>4. ASSUME NEW c \in Clients, ParseError(c) PROVE IInv'
  <2>1. conn' = [conn EXCEPT ![c] = [stage |-> "writing", buf |-> conn[c].buf,
                                     reply |-> <<"Error", "parse error">>, then |-> "read"]]
    BY <1>4 DEF ParseError, Send, Becomes
  <2>2. mem' = mem /\ wire' = wire /\ sent' = sent BY <1>4 DEF ParseError
  <2> QED BY <1>0, <2>1, <2>2, StepInv
<1>5. ASSUME NEW c \in Clients, Dispatch(c) PROVE IInv'
  <2> DEFINE b == Tail(Tail(conn[c].buf))
  <2>1. conn[c].buf \in Seq(Tokens) /\ Len(conn[c].buf) >= 2
    BY <1>0, <1>5 DEF Dispatch, Complete
  <2>2. conn[c].buf # <<>> /\ Len(conn[c].buf) \in Nat BY <2>1
  <2>3. Tail(conn[c].buf) \in Seq(Tokens) /\ Len(Tail(conn[c].buf)) = Len(conn[c].buf) - 1
    BY <2>1, <2>2, HeadTailProperties
  <2>4. Tail(conn[c].buf) # <<>>
    <3> DEFINE n == Len(conn[c].buf)
               m == Len(Tail(conn[c].buf))
    <3>1. n >= 2 /\ n \in Nat /\ m = n - 1 BY <2>1, <2>2, <2>3
    <3>2. m # 0
      <4> HIDE DEF n, m
      <4> QED BY <3>1
    <3> QED BY <3>2, EmptySeq
  <2>5. b \in Seq(Tokens) BY <2>3, <2>4, HeadTailProperties
  <2>6. \E r, t : conn' = [conn EXCEPT ![c] = [stage |-> "writing", buf |-> b, reply |-> r, then |-> t]]
    BY <1>5 DEF Dispatch, Send, Becomes
  <2>7. PICK r, t : conn' = [conn EXCEPT ![c] = [stage |-> "writing", buf |-> b, reply |-> r, then |-> t]]
    BY <2>6
  <2> HIDE DEF b
  <2>8. wire' = wire /\ sent' = sent BY <1>5 DEF Dispatch
  <2>9. Good(mem') /\ DOMAIN mem'.ptr \subseteq DOMAIN mem.ptr \cup Own(c) \cup Vals
    BY <1>5, DispatchMemory
  <2> QED BY <1>0, <2>5, <2>7, <2>8, <2>9, StepInv
<1>6. ASSUME NEW c \in Clients, WriteDone(c) PROVE IInv'
  <2>1. conn' = [conn EXCEPT ![c] = [stage |-> After[conn[c].then], buf |-> conn[c].buf,
                                     reply |-> <<>>, then |-> "none"]]
    BY <1>6 DEF WriteDone, Becomes
  <2>2. wire' = wire /\ sent' = sent BY <1>6 DEF WriteDone
  <2>3. mem' = Drop(mem, Own(c)) BY <1>6 DEF WriteDone, Released
  <2>4. Good(mem') /\ DOMAIN mem'.ptr = DOMAIN mem.ptr \ Own(c) BY <1>0, <2>3, DropGood
  <2> QED BY <1>0, <2>1, <2>2, <2>4, StepInv
<1>7. ASSUME NEW c \in Clients, WriteFails(c) PROVE IInv'
  <2>1. conn' = [conn EXCEPT ![c] = [stage |-> "closed", buf |-> conn[c].buf,
                                     reply |-> <<>>, then |-> "none"]]
    BY <1>7 DEF WriteFails, Becomes
  <2>2. wire' = wire /\ sent' = sent BY <1>7 DEF WriteFails
  <2>3. mem' = Drop(mem, Own(c)) BY <1>7 DEF WriteFails, Released
  <2>4. Good(mem') /\ DOMAIN mem'.ptr = DOMAIN mem.ptr \ Own(c) BY <1>0, <2>3, DropGood
  <2> QED BY <1>0, <2>1, <2>2, <2>4, StepInv
<1>8. ASSUME NEW c \in Clients, NEW s \in Scripts[c], Request(c, s) PROVE IInv'
  <2> DEFINE f == s[Len(sent[c]) + 1]
  <2>1. f \in ScriptFrames
    <3>1. s \in Seq({s[i] : i \in DOMAIN s}) BY ConnectionAssumption
    <3>2. Len(s) \in Nat /\ DOMAIN s = 1 .. Len(s) BY <3>1
    <3>3. Len(sent[c]) \in Nat BY <1>0
    <3>4. Len(sent[c]) + 1 \in DOMAIN s BY <1>8, <3>2, <3>3 DEF Request
    <3> QED BY <3>4 DEF ScriptFrames
  <2>2. Halves(f) \in Seq(Tokens)
    <3>1. <<f, 1>> \in Tokens /\ <<f, 2>> \in Tokens BY <2>1 DEF Tokens
    <3> HIDE DEF f
    <3> QED BY <3>1 DEF Halves
  <2>3. /\ sent' = [sent EXCEPT ![c] = Append(sent[c], f)]
        /\ wire' = [wire EXCEPT ![c] = wire[c] \o Halves(f)]
        /\ mem' = mem /\ conn' = conn
    BY <1>8 DEF Request
  <2> HIDE DEF f
  <2>4. Append(sent[c], f) \in Seq(ScriptFrames) BY <1>0, <2>1, AppendProperties
  <2>5. wire[c] \o Halves(f) \in Seq(Tokens) BY <1>0, <2>2, ConcatProperties
  <2>6. sent' \in [Clients -> Seq(ScriptFrames)] /\ wire' \in [Clients -> Seq(Tokens)]
    BY <1>0, <2>3, <2>4, <2>5
  <2>7. BytesOfFrames' BY <1>0, <2>3, <2>6 DEF BytesOfFrames
  <2> QED BY <1>0, <2>3, <2>7
       DEF IInv, Good, Counted, HoldersOf, IdleHoldsNothing, Own, Cmd, Arg, Rep
<1>9. ASSUME mem' = mem, conn' = conn, wire' = wire, sent' = sent PROVE IInv'
  BY <1>9 DEF IInv, Good, Counted, HoldersOf, IdleHoldsNothing, Own, Cmd, Arg, Rep, BytesOfFrames
<1>10. CASE UNCHANGED vars BY <1>9, <1>10 DEF vars
<1>11. CASE Next
  <2>1. PICK c \in Clients : Task(c) \/ Leave(c) \/ (\E s \in Scripts[c] : Request(c, s))
    BY <1>11 DEF Next
  <2>2. CASE Task(c) BY <2>2, <1>1, <1>2, <1>3, <1>4, <1>5, <1>6, <1>7 DEF Task
  <2>3. CASE Leave(c) BY <2>3, <1>9 DEF Leave
  <2>4. CASE \E s \in Scripts[c] : Request(c, s) BY <2>4, <1>8
  <2> QED BY <2>1, <2>2, <2>3, <2>4
<1> QED BY <1>10, <1>11

\* For any number of clients, keys and scripts, and any interleaving of
\* their reads, writes and failures: every count is the number of holders.
THEOREM CountsAreExact == Spec => []RcExact
<1>1. IInv => RcExact BY DEF IInv, Good, RcExact
<1> QED BY InitInv, NextInv, <1>1, PTL DEF Spec

\* And no connection keeps a string beyond the write of its reply.
THEOREM NothingHeldWhenIdle == Spec => []IdleHoldsNothing
<1>1. IInv => IdleHoldsNothing BY DEF IInv
<1> QED BY InitInv, NextInv, <1>1, PTL DEF Spec

-----------------------------------------------------------------------------
(* Replies.                                                                *)

\* No frame of s up to the i-th is malformed.
Clean(s, i) == \A j \in 1 .. i : s[j] # Malformed

\* Of the frames s that a client has sent, p have been decoded, and the bytes
\* S are the halves of the others, at least up to a malformed one.
Aligned(s, S, p) ==
  /\ p \in 0 .. Len(s) /\ Clean(s, p)
  /\ \A k \in p + 1 .. Len(s) :
       Clean(s, k - 1) => 2 * (k - p) - 1 <= Len(S) /\ S[2 * (k - p) - 1][1] = s[k]
  /\ Clean(s, Len(s)) => Len(S) = 2 * (Len(s) - p)

Stream(c) == conn[c].buf \o wire[c]

ParseReply == <<"Error", "parse error">>

\* The replies o that a connection in state x has written, when p of the
\* frames s have been decoded: one for each of these, or for each but the one
\* whose reply is being written, and then parse errors.
Answered(s, o, x, p) ==
  /\ \A i \in 1 .. Len(o) : IF i <= p THEN Fits(s[i], o[i]) ELSE o[i] = ParseReply
  /\ Len(o) > p => Broken(x.buf)
  /\ x.stage \notin {"writing", "closed"} => p <= Len(o)
  /\ x.stage = "writing" =>
       \/ x.then = "read" /\ Broken(x.buf) /\ p <= Len(o) /\ x.reply = ParseReply
       \/ /\ x.then \in {"next", "quit"} /\ p = Len(o) + 1 /\ Fits(s[p], x.reply)
          /\ x.then = "next" => s[p] # <<"quit">>
  /\ \A j \in 1 .. p : s[j] = <<"quit">> =>
       j = p /\ (x.stage = "closed" \/ (x.stage = "writing" /\ x.then # "read"))

ProperSeq(o) == o \in Seq({o[i] : i \in DOMAIN o})

\* What key k holds, some client has SET it to.
ValuesWereSet ==
  \A k : Val(k) \in DOMAIN mem.ptr => Told(k, <<"Bulk", Data(mem, Val(k))[1]>>)

\* The inductive invariant of the replies, on top of IInv.
ReplyInv ==
  /\ ValuesWereSet
  /\ out = [c \in Clients |-> out[c]]
  /\ \A c \in Clients :
       /\ ProperSeq(out[c])
       /\ \E p \in Nat : Aligned(sent[c], Stream(c), p) /\ Answered(sent[c], out[c], conn[c], p)

-----------------------------------------------------------------------------
(* Streams of halves.                                                       *)

\* A frame that is sent comes last, and its halves too.
LEMMA AlignedAppend ==
  ASSUME NEW s \in Seq(ScriptFrames), NEW S \in Seq(Tokens), NEW p, Aligned(s, S, p),
         NEW f \in ScriptFrames, Halves(f) \in Seq(Tokens)
  PROVE  Aligned(Append(s, f), S \o Halves(f), p)
<1> DEFINE s2 == Append(s, f)
           h == Halves(f)
           S2 == S \o h
           n == Len(s)
<1>1. /\ n \in Nat /\ Len(s2) = n + 1 /\ s2[n + 1] = f
      /\ \A i \in 1 .. n : s2[i] = s[i]
  BY AppendProperties
<1>2. /\ Len(S) \in Nat /\ Len(S2) = Len(S) + Len(h)
      /\ \A i \in 1 .. Len(S) : S2[i] = S[i]
      /\ \A i \in 1 .. Len(h) : S2[Len(S) + i] = h[i]
  <2>1. S2 \in Seq(Tokens) /\ Len(S2) = Len(S) + Len(h) BY ConcatProperties
  <2> HIDE DEF h
  <2> QED BY <2>1, ConcatProperties
<1>3. /\ Len(h) >= 1 /\ h[1][1] = f
      /\ f # Malformed => Len(h) = 2
  BY DEF Halves
<1>4. /\ p \in 0 .. n /\ Clean(s, p)
      /\ \A k \in p + 1 .. n :
           Clean(s, k - 1) => 2 * (k - p) - 1 <= Len(S) /\ S[2 * (k - p) - 1][1] = s[k]
      /\ Clean(s, n) => Len(S) = 2 * (n - p)
  BY DEF Aligned
<1> HIDE DEF s2, h, S2, n
<1>5. \A i \in 0 .. n : Clean(s2, i) <=> Clean(s, i) BY <1>1 DEF Clean
<1>6. p \in 0 .. n + 1 /\ Clean(s2, p) BY <1>1, <1>4, <1>5
<1>7. ASSUME NEW k \in p + 1 .. n + 1, Clean(s2, k - 1)
      PROVE  2 * (k - p) - 1 <= Len(S2) /\ S2[2 * (k - p) - 1][1] = s2[k]
  <2>0. k - 1 \in 0 .. n /\ k \in 1 .. n + 1 /\ Clean(s, k - 1) BY <1>1, <1>4, <1>5, <1>7
  <2>1. CASE k <= n
    <3>1. k \in p + 1 .. n BY <2>1, <1>1, <1>4
    <3>2. 2 * (k - p) - 1 <= Len(S) /\ S[2 * (k - p) - 1][1] = s[k] BY <3>1, <2>0, <1>4
    <3>3. 2 * (k - p) - 1 \in 1 .. Len(S) BY <3>1, <3>2, <1>1, <1>2, <1>4
    <3>4. Len(h) \in Nat BY <1>3 DEF h
    <3>5. s2[k] = s[k] BY <1>1, <2>0, <2>1
    <3> QED BY <3>2, <3>3, <3>4, <3>5, <1>2
  <2>2. CASE k > n
    <3>1. k = n + 1 /\ Clean(s, n) BY <2>0, <2>2, <1>1
    <3>2. 2 * (k - p) - 1 = Len(S) + 1 BY <3>1, <1>1, <1>2, <1>4
    <3>3. Len(h) \in Nat BY DEF h
    <3>4. 1 \in 1 .. Len(h) BY <3>3, <1>3
    <3>5. S2[Len(S) + 1] = h[1] BY <3>4, <1>2
    <3> QED BY <3>1, <3>2, <3>3, <3>5, <1>1, <1>2, <1>3
  <2> QED BY <2>0, <2>1, <2>2, <1>1
<1>8. ASSUME Clean(s2, n + 1) PROVE Len(S2) = 2 * (n + 1 - p)
  <2>1. f # Malformed /\ Clean(s, n) BY <1>8, <1>1 DEF Clean
  <2>2. Len(S2) = Len(S) + 2 BY <2>1, <1>2, <1>3
  <2>3. Len(S) = 2 * (n - p) BY <2>1, <1>4
  <2>4. p \in Int /\ n \in Int BY <1>1, <1>4
  <2> QED BY <2>2, <2>3, <2>4
<1>9. Aligned(s2, S2, p) BY <1>1, <1>6, <1>7, <1>8 DEF Aligned
<1> QED BY <1>9 DEF s2, S2, h

\* The first half in the stream is that of the first frame not decoded.
LEMMA AlignedHead ==
  ASSUME NEW s \in Seq(ScriptFrames), NEW S \in Seq(Tokens), NEW p, Aligned(s, S, p), S # <<>>
  PROVE  p < Len(s) /\ s[p + 1] = S[1][1] /\ Clean(s, p)
<1>1. Len(S) \in Nat \ {0} /\ Len(s) \in Nat BY EmptySeq
<1>2. p \in 0 .. Len(s) /\ Clean(s, p) BY DEF Aligned
<1>3. p # Len(s)
  <2> SUFFICES ASSUME p = Len(s) PROVE FALSE OBVIOUS
  <2>1. Len(S) = 2 * (Len(s) - p) BY <1>2 DEF Aligned
  <2> QED BY <2>1, <1>1, <1>2
<1>4. p < Len(s) BY <1>1, <1>2, <1>3
<1>5. 2 * ((p + 1) - p) - 1 = 1 /\ p + 1 \in p + 1 .. Len(s) /\ (p + 1) - 1 = p
  BY <1>1, <1>2, <1>4
<1>6. S[2 * ((p + 1) - p) - 1][1] = s[p + 1] BY <1>2, <1>5 DEF Aligned
<1> QED BY <1>2, <1>4, <1>5, <1>6

\* A frame that is decoded takes two halves out of the stream.
LEMMA AlignedPop ==
  ASSUME NEW s \in Seq(ScriptFrames), NEW S \in Seq(Tokens), NEW p, Aligned(s, S, p),
         Len(S) >= 2, S[1][1] # Malformed,
         NEW T \in Seq(Tokens), Len(T) = Len(S) - 2,
         \A i \in 1 .. Len(S) - 2 : T[i] = S[i + 2]
  PROVE  Aligned(s, T, p + 1)
<1> DEFINE n == Len(s)
           q == p + 1
<1>1. Len(S) \in Nat /\ n \in Nat BY DEF n
<1>2. p < n /\ s[p + 1] # Malformed /\ Clean(s, p) BY <1>1, AlignedHead, EmptySeq
<1>3. /\ p \in 0 .. n
      /\ \A k \in p + 1 .. n :
           Clean(s, k - 1) => 2 * (k - p) - 1 <= Len(S) /\ S[2 * (k - p) - 1][1] = s[k]
      /\ Clean(s, n) => Len(S) = 2 * (n - p)
  BY DEF Aligned
<1> HIDE DEF n
<1>4. q \in 0 .. n /\ Clean(s, q) BY <1>1, <1>2, <1>3 DEF Clean
<1>5. ASSUME NEW k \in q + 1 .. n, Clean(s, k - 1)
      PROVE  2 * (k - q) - 1 <= Len(T) /\ T[2 * (k - q) - 1][1] = s[k]
  <2> DEFINE i == 2 * (k - q) - 1
  <2>1. k \in p + 1 .. n BY <1>1, <1>3
  <2>2. 2 * (k - p) - 1 <= Len(S) /\ S[2 * (k - p) - 1][1] = s[k] BY <2>1, <1>3, <1>5
  <2>3. 2 * (k - p) - 1 = i + 2 /\ i \in Int /\ i >= 1 BY <1>1, <1>3
  <2> HIDE DEF i
  <2>4. i \in 1 .. Len(S) - 2 BY <2>2, <2>3, <1>1
  <2>5. T[i] = S[i + 2] BY <2>4
  <2> QED BY <2>2, <2>3, <2>4, <2>5, <1>1 DEF i
<1>6. ASSUME Clean(s, n) PROVE Len(T) = 2 * (n - q)
  BY <1>6, <1>1, <1>3
<1> QED BY <1>4, <1>5, <1>6 DEF Aligned, n

\* Reading moves the cut between buffer and wire.
LEMMA StreamRead ==
  ASSUME NEW b \in Seq(Tokens), NEW w \in Seq(Tokens), NEW n \in 1 .. Len(w)
  PROVE  (b \o SubSeq(w, 1, n)) \o SubSeq(w, n + 1, Len(w)) = b \o w
<1> DEFINE x == SubSeq(w, 1, n)
           y == SubSeq(w, n + 1, Len(w))
<1>1. Len(w) \in Nat /\ \A i \in 1 .. Len(w) : w[i] \in Tokens OBVIOUS
<1>2. x \in Seq(Tokens) /\ y \in Seq(Tokens) BY <1>1, SubSeqProperties
<1>3. x \o y = w
  <2>1. 1 \in 1 .. Len(w) + 1 /\ n \in 1 - 1 .. Len(w) /\ Len(w) \in n .. Len(w) BY <1>1
  <2>2. x \o y = SubSeq(w, 1, Len(w)) BY <2>1, ConcatAdjacentSubSeq
  <2> QED BY <2>2, SubSeqFull
<1> HIDE DEF x, y
<1>4. (b \o x) \o y = b \o (x \o y) BY <1>2, ConcatAssociative, SMTT(30)
<1> QED BY <1>3, <1>4 DEF x, y

-----------------------------------------------------------------------------
(* What stays when clients go on.                                           *)

\* The frames that have been sent stay sent.
SentGrows ==
  \A d \in Clients : \A j \in DOMAIN sent[d] : j \in DOMAIN sent'[d] /\ sent'[d][j] = sent[d][j]

LEMMA ToldStays ==
  ASSUME SentGrows, NEW k, NEW r, Told(k, r)
  PROVE  Told(k, r)'
BY DEF SentGrows, Told

LEMMA FitsStays ==
  ASSUME SentGrows, NEW f, NEW r, Fits(f, r)
  PROVE  Fits(f, r)'
<1>1. \A k, q : Told(k, q) => Told(k, q)' BY ToldStays
<1> QED BY <1>1 DEF Fits

LEMMA AnsweredStays ==
  ASSUME SentGrows, NEW s, NEW t, NEW o, NEW x, NEW p \in Nat, Answered(s, o, x, p),
         \A i \in 1 .. p : t[i] = s[i]
  PROVE  Answered(t, o, x, p)'
<1>1. \A f, r : Fits(f, r) => Fits(f, r)' BY FitsStays
<1>2. Len(o) + 1 = p => p \in 1 .. p OBVIOUS
<1> QED BY <1>1 DEF Answered

\* A connection that the step does not touch.
LEMMA OthersAnswered ==
  ASSUME ReplyInv, SentGrows, NEW d \in Clients,
         conn'[d] = conn[d], wire'[d] = wire[d], sent'[d] = sent[d], out'[d] = out[d]
  PROVE  /\ ProperSeq(out'[d])
         /\ \E p \in Nat : Aligned(sent[d], Stream(d), p)' /\ Answered(sent[d], out[d], conn[d], p)'
<1>1. PICK p \in Nat : Aligned(sent[d], Stream(d), p) /\ Answered(sent[d], out[d], conn[d], p)
  BY DEF ReplyInv
<1>2. Aligned(sent[d], Stream(d), p)' BY <1>1 DEF Stream
<1>3. Answered(sent[d], out[d], conn[d], p)' BY <1>1, AnsweredStays
<1> QED BY <1>2, <1>3 DEF ReplyInv

\* A step that only touches the connection of c: what is left to show.
LEMMA StepReply ==
  ASSUME ReplyInv, SentGrows, NEW c \in Clients, NEW p \in Nat,
         ValuesWereSet',
         \A d \in Clients \ {c} : /\ conn'[d] = conn[d] /\ wire'[d] = wire[d]
                                  /\ sent'[d] = sent[d] /\ out'[d] = out[d],
         out' = [d \in Clients |-> out'[d]], ProperSeq(out'[c]),
         Aligned(sent[c], Stream(c), p)', Answered(sent[c], out[c], conn[c], p)'
  PROVE  ReplyInv'
<1>1. ASSUME NEW d \in Clients
      PROVE  /\ ProperSeq(out'[d])
             /\ \E q \in Nat : Aligned(sent[d], Stream(d), q)' /\ Answered(sent[d], out[d], conn[d], q)'
  <2>1. CASE d = c BY <2>1
  <2>2. CASE d # c BY <2>2, OthersAnswered
  <2> QED BY <2>1, <2>2
<1> QED BY <1>1 DEF ReplyInv

LEMMA ValuesStay ==
  ASSUME ValuesWereSet, SentGrows,
         \A k : Val(k) \in DOMAIN mem'.ptr =>
           Val(k) \in DOMAIN mem.ptr /\ Data(mem', Val(k)) = Data(mem, Val(k))
  PROVE  ValuesWereSet'
<1> SUFFICES ASSUME NEW k, Val(k) \in DOMAIN mem'.ptr
             PROVE  Told(k, <<"Bulk", Data(mem, Val(k))[1]>>)'
  BY DEF ValuesWereSet, Val
<1>1. PICK q : q = <<"Bulk", Data(mem', Val(k))[1]>> OBVIOUS
<1>2. Told(k, q) BY <1>1 DEF ValuesWereSet
<1>3. Told(k, q)' BY <1>2, ToldStays
<1> QED BY <1>1, <1>3 DEF Val

\* A reply from the memory fits, since the values were SET.
LEMMA RepliedFits ==
  ASSUME ValuesWereSet, NEW f, NEW r, RepliedFrom(f, r)
  PROVE  Fits(f, r)
<1>1. ASSUME NEW k PROVE Told(k, Found(mem, k))
  <2>1. CASE Holds(mem, Val(k))
    <3>1. Found(mem, k) = <<"Bulk", Data(mem, Val(k))[1]>> BY <2>1 DEF Found
    <3>2. Told(k, <<"Bulk", Data(mem, Val(k))[1]>>) BY <2>1 DEF ValuesWereSet, Holds
    <3> QED BY <3>1, <3>2
  <2>2. CASE ~Holds(mem, Val(k)) BY <2>2 DEF Found, Told
  <2> QED BY <2>1, <2>2
<1>2. f[1] = "mget" => r[1] = "Array" /\ r[2] = Found(mem, f[2]) /\ r[3] = Found(mem, f[3])
  <2> HAVE f[1] = "mget"
  <2>1. r = <<"Array", Found(mem, f[2]), Found(mem, f[3])>> BY DEF RepliedFrom
  <2> QED BY <2>1
<1> QED BY <1>1, <1>2 DEF RepliedFrom, Fits

\* A reply is appended to the replies.
LEMMA AppendProper ==
  ASSUME NEW o, ProperSeq(o), NEW r
  PROVE  LET t == Append(o, r)
         IN  /\ ProperSeq(t) /\ Len(o) \in Nat /\ Len(t) = Len(o) + 1 /\ t[Len(o) + 1] = r
             /\ \A i \in 1 .. Len(o) : t[i] = o[i]
<1> DEFINE R == {o[i] : i \in DOMAIN o} \cup {r}
           t == Append(o, r)
<1>1. o \in Seq(R) BY SeqMonotonic DEF ProperSeq
<1>2. r \in R OBVIOUS
<1> HIDE DEF R
<1>3. /\ t \in Seq(R) /\ Len(o) \in Nat /\ Len(t) = Len(o) + 1 /\ t[Len(o) + 1] = r
      /\ \A i \in 1 .. Len(o) : t[i] = o[i]
  BY <1>1, <1>2, AppendProperties
<1> HIDE DEF t
<1>4. ProperSeq(t)
  <2>1. t \in [1 .. Len(t) -> R] /\ Len(t) \in Nat /\ DOMAIN t = 1 .. Len(t) BY <1>3
  <2>2. t \in [1 .. Len(t) -> {t[i] : i \in DOMAIN t}] BY <2>1
  <2> QED BY <2>1, <2>2 DEF ProperSeq
<1> QED BY <1>3, <1>4 DEF t

-----------------------------------------------------------------------------
(* The steps.                                                               *)

LEMMA InitReply == Init => ReplyInv
<1> SUFFICES ASSUME Init PROVE ReplyInv OBVIOUS
<1>1. mem.ptr = [h \in {} |-> 0] BY DEF Init, NoMemory
<1>2. ValuesWereSet BY <1>1 DEF ValuesWereSet
<1>3. ASSUME NEW c \in Clients
      PROVE  /\ ProperSeq(out[c])
             /\ Aligned(sent[c], Stream(c), 0) /\ Answered(sent[c], out[c], conn[c], 0)
  <2>1. /\ sent[c] = <<>> /\ out[c] = <<>> /\ wire[c] = <<>>
        /\ conn[c].buf = <<>> /\ conn[c].stage = "reading"
    BY DEF Init
  <2>2. Stream(c) = <<>> BY <2>1, ConcatEmptySeq, EmptySeq DEF Stream
  <2>3. Aligned(<<>>, <<>>, 0) BY DEF Aligned, Clean
  <2>4. Answered(sent[c], out[c], conn[c], 0) BY <2>1 DEF Answered
  <2> QED BY <2>1, <2>2, <2>3, <2>4 DEF ProperSeq
<1>4. out = [c \in Clients |-> out[c]] BY DEF Init
<1> QED BY <1>2, <1>3, <1>4 DEF ReplyInv

LEMMA ReadSomeReply ==
  ASSUME IInv, ReplyInv, NEW c \in Clients, NEW n \in 1 .. Len(wire[c]), ReadSome(c, n)
  PROVE  ReplyInv'
<1> DEFINE b == conn[c].buf \o SubSeq(wire[c], 1, n)
           w == SubSeq(wire[c], n + 1, Len(wire[c]))
           x == [stage |-> "ready", buf |-> b, reply |-> <<>>, then |-> "none"]
<1>0. /\ DOMAIN conn = Clients /\ conn[c].buf \in Seq(Tokens) /\ wire[c] \in Seq(Tokens)
      /\ DOMAIN wire = Clients /\ conn[c].stage = "reading"
  BY DEF IInv, BytesOfFrames, ReadSome, Polled
<1>1. /\ conn' = [conn EXCEPT ![c] = x]
      /\ wire' = [wire EXCEPT ![c] = w]
      /\ mem' = mem /\ sent' = sent /\ out' = out
  BY DEF ReadSome, Becomes
<1>2. PICK p \in Nat : Aligned(sent[c], Stream(c), p) /\ Answered(sent[c], out[c], conn[c], p)
  BY DEF ReplyInv
<1>3. b \o w = Stream(c) BY <1>0, StreamRead DEF Stream
<1>4. Broken(conn[c].buf) => Broken(b)
  <2>1. SubSeq(wire[c], 1, n) \in Seq(Tokens)
    <3>1. \A i \in 1 .. n : wire[c][i] \in Tokens BY <1>0
    <3> QED BY <3>1, SubSeqProperties
  <2> HAVE Broken(conn[c].buf)
  <2>2. conn[c].buf # <<>> /\ conn[c].buf[1][1] = Malformed BY DEF Broken
  <2>3. Len(conn[c].buf) \in Nat \ {0} BY <2>2, <1>0, EmptySeq
  <2>4. b[1] = conn[c].buf[1] /\ Len(b) \in Nat \ {0} BY <2>1, <2>3, <1>0, ConcatProperties
  <2>5. b # <<>> BY <2>4
  <2> QED BY <2>2, <2>4, <2>5 DEF Broken
<1> HIDE DEF b, w
<1>5. conn'[c] = x /\ wire'[c] = w BY <1>0, <1>1
<1>6. Aligned(sent[c], Stream(c), p)'
  <2>0. conn'[c].buf = b BY <1>5
  <2>1. conn'[c].buf \o wire'[c] = conn[c].buf \o wire[c] BY <2>0, <1>3, <1>5 DEF Stream
  <2> QED BY <2>1, <1>1, <1>2 DEF Stream
<1>7. Answered(sent[c], out[c], x, p) BY <1>0, <1>2, <1>4 DEF Answered
<1>8. SentGrows BY <1>1 DEF SentGrows
<1> HIDE DEF x
<1>9. Answered(sent[c], out[c], conn[c], p)' BY <1>1, <1>5, <1>7, <1>8, AnsweredStays
<1>10. ValuesWereSet' BY <1>1, <1>8, ValuesStay DEF ReplyInv
<1>11. \A d \in Clients \ {c} : /\ conn'[d] = conn[d] /\ wire'[d] = wire[d]
                                /\ sent'[d] = sent[d] /\ out'[d] = out[d]
  BY <1>0, <1>1
<1>12. out' = [d \in Clients |-> out'[d]] /\ ProperSeq(out'[c]) BY <1>1 DEF ReplyInv
<1> QED BY <1>6, <1>8, <1>9, <1>10, <1>11, <1>12, StepReply

\* The steps that change neither the stream nor the replies.
LEMMA QuietReply ==
  ASSUME IInv, ReplyInv, NEW c \in Clients, NEW x,
         conn' = [conn EXCEPT ![c] = x], x.buf = conn[c].buf,
         wire' = wire, sent' = sent, out' = out,
         \A k : Val(k) \in DOMAIN mem'.ptr =>
           Val(k) \in DOMAIN mem.ptr /\ Data(mem', Val(k)) = Data(mem, Val(k)),
         \A p \in Nat : Answered(sent[c], out[c], conn[c], p) => Answered(sent[c], out[c], x, p)
  PROVE  ReplyInv'
<1>0. DOMAIN conn = Clients BY DEF IInv, BytesOfFrames
<1>1. PICK p \in Nat : Aligned(sent[c], Stream(c), p) /\ Answered(sent[c], out[c], conn[c], p)
  BY DEF ReplyInv
<1>2. conn'[c] = x BY <1>0
<1>3. Aligned(sent[c], Stream(c), p)' BY <1>1, <1>2 DEF Stream
<1>4. SentGrows BY DEF SentGrows
<1>5. Answered(sent[c], out[c], conn[c], p)' BY <1>1, <1>2, <1>4, AnsweredStays
<1>6. ValuesWereSet' BY <1>4, ValuesStay DEF ReplyInv
<1>7. \A d \in Clients \ {c} : /\ conn'[d] = conn[d] /\ wire'[d] = wire[d]
                               /\ sent'[d] = sent[d] /\ out'[d] = out[d]
  BY <1>0
<1>8. out' = [d \in Clients |-> out'[d]] /\ ProperSeq(out'[c]) BY DEF ReplyInv
<1> QED BY <1>3, <1>4, <1>5, <1>6, <1>7, <1>8, StepReply

\* What drops of the places of a connection leave of the values.
LEMMA ReleasedValues ==
  ASSUME IInv, NEW c \in Clients, mem' = Released(mem, c), NEW k, Val(k) \in DOMAIN mem'.ptr
  PROVE  Val(k) \in DOMAIN mem.ptr /\ Data(mem', Val(k)) = Data(mem, Val(k))
<1>1. Good(mem) BY DEF IInv
<1>2. mem' = Drop(mem, Own(c)) BY DEF Released
<1> QED BY <1>1, <1>2, DropGood

LEMMA WriteDoneReply ==
  ASSUME IInv, ReplyInv, NEW c \in Clients, WriteDone(c)
  PROVE  ReplyInv'
<1> DEFINE x == [stage |-> After[conn[c].then], buf |-> conn[c].buf, reply |-> <<>>, then |-> "none"]
<1>0. DOMAIN conn = Clients /\ conn[c].stage = "writing" /\ DOMAIN out = Clients
  BY DEF IInv, BytesOfFrames, WriteDone, Polled, ReplyInv
<1>1. /\ conn' = [conn EXCEPT ![c] = x]
      /\ out' = [out EXCEPT ![c] = Append(out[c], conn[c].reply)]
      /\ wire' = wire /\ sent' = sent /\ mem' = Released(mem, c)
  BY DEF WriteDone, Becomes
<1>2. PICK p \in Nat : Aligned(sent[c], Stream(c), p) /\ Answered(sent[c], out[c], conn[c], p)
  BY DEF ReplyInv
<1>3. PICK o : o = Append(out[c], conn[c].reply) OBVIOUS
<1>4. PICK n : n = Len(out[c]) OBVIOUS
<1>5. /\ ProperSeq(o) /\ n \in Nat /\ Len(o) = n + 1 /\ o[n + 1] = conn[c].reply
      /\ \A i \in 1 .. n : o[i] = out[c][i]
  BY <1>3, <1>4, AppendProper DEF ReplyInv
<1>6. conn'[c] = x /\ out'[c] = o BY <1>0, <1>1, <1>3
<1>7. Answered(sent[c], o, x, p)
  <2>1. CASE conn[c].then = "read" /\ Broken(conn[c].buf) /\ p <= n /\ conn[c].reply = ParseReply
    <3>1. x.stage = "reading" /\ x.buf = conn[c].buf BY <2>1 DEF After
    <3>2. ASSUME NEW i \in 1 .. n + 1
          PROVE  IF i <= p THEN Fits(sent[c][i], o[i]) ELSE o[i] = ParseReply
      <4>1. CASE i = n + 1 BY <4>1, <2>1, <1>5
      <4>2. CASE i # n + 1
        <5>1. i \in 1 .. n BY <4>2, <1>5
        <5> QED BY <5>1, <1>2, <1>4, <1>5 DEF Answered
      <4> QED BY <4>1, <4>2
    <3>3. p <= n + 1 BY <2>1, <1>5
    <3>4. \A j \in 1 .. p : sent[c][j] # <<"quit">> BY <2>1, <1>0, <1>2 DEF Answered
    <3> HIDE DEF x
    <3> QED BY <2>1, <3>1, <3>2, <3>3, <3>4, <1>5 DEF Answered
  <2>2. CASE /\ conn[c].then \in {"next", "quit"} /\ p = n + 1 /\ Fits(sent[c][p], conn[c].reply)
             /\ conn[c].then = "next" => sent[c][p] # <<"quit">>
    <3>1. x.buf = conn[c].buf /\ x.stage = (IF conn[c].then = "next" THEN "ready" ELSE "closed")
      BY <2>2 DEF After
    <3>2. ASSUME NEW i \in 1 .. n + 1
          PROVE  IF i <= p THEN Fits(sent[c][i], o[i]) ELSE o[i] = ParseReply
      <4>1. CASE i = n + 1 BY <4>1, <2>2, <1>5
      <4>2. CASE i # n + 1
        <5>1. i \in 1 .. n BY <4>2, <1>5
        <5> QED BY <5>1, <1>2, <1>4, <1>5 DEF Answered
      <4> QED BY <4>1, <4>2
    <3>3. p <= n + 1 /\ ~(n + 1 > p) BY <2>2, <1>5
    <3>4. \A j \in 1 .. p : sent[c][j] = <<"quit">> => j = p /\ conn[c].then = "quit"
      BY <2>2, <1>0, <1>2 DEF Answered
    <3> HIDE DEF x
    <3> QED BY <3>1, <3>2, <3>3, <3>4, <1>5 DEF Answered
  <2> QED BY <2>1, <2>2, <1>0, <1>2, <1>4 DEF Answered
<1>8. SentGrows BY <1>1 DEF SentGrows
<1> HIDE DEF x
<1>9. Answered(sent[c], out[c], conn[c], p)' BY <1>1, <1>6, <1>7, <1>8, AnsweredStays
<1>10. Aligned(sent[c], Stream(c), p)'
  <2>1. conn'[c].buf = conn[c].buf BY <1>6 DEF x
  <2> QED BY <2>1, <1>1, <1>2 DEF Stream
<1>11. ValuesWereSet' BY <1>1, <1>8, ValuesStay, ReleasedValues DEF ReplyInv
<1>12. \A d \in Clients \ {c} : /\ conn'[d] = conn[d] /\ wire'[d] = wire[d]
                                /\ sent'[d] = sent[d] /\ out'[d] = out[d]
  BY <1>0, <1>1
<1>13. out' = [d \in Clients |-> out'[d]] /\ ProperSeq(out'[c]) BY <1>0, <1>1, <1>5, <1>6
<1> QED BY <1>8, <1>9, <1>10, <1>11, <1>12, <1>13, StepReply

LEMMA RequestReply ==
  ASSUME IInv, ReplyInv, NEW c \in Clients, NEW s \in Scripts[c], Request(c, s)
  PROVE  ReplyInv'
<1>1. PICK f : f = s[Len(sent[c]) + 1] OBVIOUS
<1>2. f \in ScriptFrames
  <2>1. s \in Seq({s[i] : i \in DOMAIN s}) BY ConnectionAssumption
  <2>2. Len(s) \in Nat /\ DOMAIN s = 1 .. Len(s) BY <2>1
  <2>3. sent[c] \in Seq(ScriptFrames) BY DEF IInv, BytesOfFrames
  <2>4. Len(sent[c]) \in Nat BY <2>3
  <2>5. Len(sent[c]) + 1 \in DOMAIN s BY <2>2, <2>4 DEF Request
  <2> QED BY <2>5, <1>1 DEF ScriptFrames
<1>3. Halves(f) \in Seq(Tokens)
  <2>1. <<f, 1>> \in Tokens /\ <<f, 2>> \in Tokens BY <1>2 DEF Tokens
  <2> QED BY <2>1 DEF Halves
<1>4. /\ sent' = [sent EXCEPT ![c] = Append(sent[c], f)]
      /\ wire' = [wire EXCEPT ![c] = wire[c] \o Halves(f)]
      /\ mem' = mem /\ conn' = conn /\ out' = out
  BY <1>1 DEF Request
<1>5. /\ sent[c] \in Seq(ScriptFrames) /\ wire[c] \in Seq(Tokens) /\ conn[c].buf \in Seq(Tokens)
      /\ DOMAIN sent = Clients /\ DOMAIN wire = Clients
  BY DEF IInv, BytesOfFrames
<1>6. sent'[c] = Append(sent[c], f) /\ wire'[c] = wire[c] \o Halves(f) BY <1>4, <1>5
<1>7. PICK p \in Nat : Aligned(sent[c], Stream(c), p) /\ Answered(sent[c], out[c], conn[c], p)
  BY DEF ReplyInv
<1>8. /\ Len(sent[c]) \in Nat /\ Len(sent'[c]) = Len(sent[c]) + 1
      /\ sent'[c] \in Seq(ScriptFrames)
      /\ \A i \in 1 .. Len(sent[c]) : sent'[c][i] = sent[c][i]
  BY <1>2, <1>5, <1>6, AppendProperties
<1>9. SentGrows
  <2>1. \A j \in DOMAIN sent[c] : j \in DOMAIN sent'[c] /\ sent'[c][j] = sent[c][j]
    <3>1. DOMAIN sent[c] = 1 .. Len(sent[c]) /\ DOMAIN sent'[c] = 1 .. Len(sent'[c])
      BY <1>5, <1>8, LenProperties
    <3> QED BY <3>1, <1>8
  <2>2. \A d \in Clients \ {c} : sent'[d] = sent[d] BY <1>4, <1>5
  <2> QED BY <2>1, <2>2 DEF SentGrows
<1>10. Aligned(sent[c], Stream(c), p)'
  <2>1. Stream(c) \in Seq(Tokens) BY <1>5, ConcatProperties DEF Stream
  <2>2. Aligned(Append(sent[c], f), Stream(c) \o Halves(f), p)
    BY <2>1, <1>2, <1>3, <1>5, <1>7, AlignedAppend
  <2>3. Stream(c) \o Halves(f) = conn[c].buf \o (wire[c] \o Halves(f))
    <3> DEFINE b == conn[c].buf
               w == wire[c]
               h == Halves(f)
    <3>1. b \in Seq(Tokens) /\ w \in Seq(Tokens) /\ h \in Seq(Tokens) BY <1>3, <1>5
    <3> HIDE DEF b, w, h
    <3>2. (b \o w) \o h = b \o (w \o h) BY <3>1, ConcatAssociative
    <3> QED BY <3>2 DEF Stream, b, w, h
  <2>4. conn'[c].buf \o wire'[c] = Stream(c) \o Halves(f) BY <2>3, <1>4, <1>6
  <2> QED BY <2>2, <2>4, <1>6 DEF Stream
<1>11. Answered(sent[c], out[c], conn[c], p)'
  <2>1. p \in 0 .. Len(sent[c]) BY <1>7 DEF Aligned
  <2>2. \A i \in 1 .. p : sent'[c][i] = sent[c][i] BY <2>1, <1>8
  <2> QED BY <2>2, <1>4, <1>7, <1>9, AnsweredStays
<1>12. ValuesWereSet' BY <1>4, <1>9, ValuesStay DEF ReplyInv
<1>13. \A d \in Clients \ {c} : /\ conn'[d] = conn[d] /\ wire'[d] = wire[d]
                                /\ sent'[d] = sent[d] /\ out'[d] = out[d]
  BY <1>4, <1>5
<1>14. out' = [d \in Clients |-> out'[d]] /\ ProperSeq(out'[c]) BY <1>4 DEF ReplyInv
<1> QED BY <1>9, <1>10, <1>11, <1>12, <1>13, <1>14, StepReply

LEMMA DispatchReply ==
  ASSUME IInv, ReplyInv, NEW c \in Clients, Dispatch(c)
  PROVE  ReplyInv'
<1> DEFINE f == conn[c].buf[1][1]
           b == Tail(Tail(conn[c].buf))
           t == IF f[1] = "quit" THEN "quit" ELSE "next"
<1>0. /\ DOMAIN conn = Clients /\ conn[c].buf \in Seq(Tokens) /\ wire[c] \in Seq(Tokens)
      /\ sent[c] \in Seq(ScriptFrames) /\ DOMAIN out = Clients
      /\ conn[c].stage = "ready" /\ Len(conn[c].buf) >= 2 /\ f # Malformed
  BY DEF IInv, BytesOfFrames, Dispatch, Complete, ReplyInv
<1>1. /\ \A k : Val(k) \in DOMAIN mem'.ptr =>
           \/ Val(k) \in DOMAIN mem.ptr /\ Data(mem', Val(k)) = Data(mem, Val(k))
           \/ f[1] = "set" /\ Val(k) = Val(f[2]) /\ Data(mem', Val(k)) = Text(f[3])
      /\ \E r : RepliedFrom(f, r) /\ Send(c, b, r, t)
  BY DispatchMemory
<1>2. PICK r : RepliedFrom(f, r) /\ Send(c, b, r, t) BY <1>1
<1>3. wire' = wire /\ sent' = sent /\ out' = out BY DEF Dispatch
<1>4. PICK p \in Nat : Aligned(sent[c], Stream(c), p) /\ Answered(sent[c], out[c], conn[c], p)
  BY DEF ReplyInv
<1>5. PICK x : x = [stage |-> "writing", buf |-> b, reply |-> r, then |-> t] OBVIOUS
<1>6. conn' = [conn EXCEPT ![c] = x] /\ conn'[c] = x BY <1>0, <1>2, <1>5 DEF Send, Becomes
<1>7. /\ b \in Seq(Tokens) /\ Len(b) = Len(conn[c].buf) - 2
      /\ \A i \in 1 .. Len(conn[c].buf) - 2 : b[i] = conn[c].buf[i + 2]
  <2> DEFINE u == conn[c].buf
             v == Tail(u)
  <2>1. u \in Seq(Tokens) /\ Len(u) \in Nat /\ Len(u) >= 2 BY <1>0
  <2> HIDE DEF u
  <2>2. u # <<>> BY <2>1, EmptySeq
  <2>3. /\ v \in Seq(Tokens) /\ Len(v) = Len(u) - 1
        /\ \A i \in 1 .. Len(v) : v[i] = u[i + 1]
    BY <2>1, <2>2, HeadTailProperties
  <2> HIDE DEF v
  <2>4. v # <<>>
    <3>1. Len(v) # 0 BY <2>1, <2>3
    <3> QED BY <3>1, EmptySeq
  <2>5. /\ Tail(v) \in Seq(Tokens) /\ Len(Tail(v)) = Len(v) - 1
        /\ \A i \in 1 .. Len(Tail(v)) : Tail(v)[i] = v[i + 1]
    BY <2>3, <2>4, HeadTailProperties
  <2>6. ASSUME NEW i \in 1 .. Len(u) - 2 PROVE Tail(v)[i] = u[i + 2]
    <3>1. i \in 1 .. Len(Tail(v)) /\ i + 1 \in 1 .. Len(v) /\ (i + 1) + 1 = i + 2
      BY <2>1, <2>3, <2>5
    <3> QED BY <3>1, <2>3, <2>5
  <2>7. Len(Tail(v)) = Len(u) - 2 BY <2>1, <2>3, <2>5
  <2> QED BY <2>5, <2>6, <2>7 DEF u, v
<1>8. /\ Stream(c) \in Seq(Tokens) /\ Len(Stream(c)) >= 2 /\ Stream(c)[1] = conn[c].buf[1]
      /\ b \o wire[c] \in Seq(Tokens) /\ Len(b \o wire[c]) = Len(Stream(c)) - 2
      /\ \A i \in 1 .. Len(Stream(c)) - 2 : (b \o wire[c])[i] = Stream(c)[i + 2]
  <2> DEFINE u == conn[c].buf
             w == wire[c]
             S == u \o w
             T == b \o w
  <2>1. /\ u \in Seq(Tokens) /\ w \in Seq(Tokens) /\ Len(u) \in Nat /\ Len(w) \in Nat
        /\ Len(u) >= 2
    BY <1>0
  <2>2. /\ b \in Seq(Tokens) /\ Len(b) = Len(u) - 2
        /\ \A i \in 1 .. Len(u) - 2 : b[i] = u[i + 2]
    BY <1>7
  <2> HIDE DEF u, w, b
  <2>3. /\ S \in Seq(Tokens) /\ Len(S) = Len(u) + Len(w)
        /\ \A i \in 1 .. Len(u) + Len(w) : S[i] = IF i <= Len(u) THEN u[i] ELSE w[i - Len(u)]
    BY <2>1, ConcatProperties
  <2>4. /\ T \in Seq(Tokens) /\ Len(T) = Len(b) + Len(w)
        /\ \A i \in 1 .. Len(b) + Len(w) : T[i] = IF i <= Len(b) THEN b[i] ELSE w[i - Len(b)]
    BY <2>1, <2>2, ConcatProperties
  <2> HIDE DEF S, T
  <2>5. S[1] = u[1] /\ Len(S) >= 2 /\ Len(T) = Len(S) - 2 BY <2>1, <2>2, <2>3, <2>4
  <2>6. ASSUME NEW i \in 1 .. Len(S) - 2 PROVE T[i] = S[i + 2]
    <3>1. /\ i \in 1 .. Len(b) + Len(w) /\ i + 2 \in 1 .. Len(u) + Len(w)
          /\ i + 2 <= Len(u) <=> i <= Len(b) /\ i \in Int
          /\ (i + 2) - Len(u) = i - Len(b)
      BY <2>1, <2>2, <2>3
    <3>2. CASE i <= Len(b)
      <4>1. i \in 1 .. Len(u) - 2 BY <3>2, <2>1, <2>2
      <4> QED BY <4>1, <3>1, <3>2, <2>2, <2>3, <2>4
    <3>3. CASE ~(i <= Len(b))
      <4>1. T[i] = w[i - Len(b)] BY <3>1, <3>3, <2>4
      <4>2. S[i + 2] = w[(i + 2) - Len(u)] BY <3>1, <3>3, <2>3
      <4> QED BY <4>1, <4>2, <3>1
    <3> QED BY <3>2, <3>3
  <2> QED BY <2>3, <2>4, <2>5, <2>6 DEF S, T, u, w, Stream
<1> HIDE DEF b
<1>9. p < Len(sent[c]) /\ sent[c][p + 1] = f
  <2>1. Stream(c) # <<>> BY <1>8, EmptySeq
  <2> QED BY <2>1, <1>0, <1>4, <1>8, AlignedHead
<1>10. Aligned(sent[c], b \o wire[c], p + 1)
  <2>1. Stream(c)[1][1] # Malformed BY <1>0, <1>8
  <2> QED BY <2>1, <1>0, <1>4, <1>8, AlignedPop
<1>11. Aligned(sent[c], Stream(c), p + 1)'
  <2>1. conn'[c].buf = b BY <1>5, <1>6
  <2> QED BY <2>1, <1>3, <1>10 DEF Stream
<1>12. SentGrows BY <1>3 DEF SentGrows
<1>13. p = Len(out[c]) /\ Len(out[c]) \in Nat
  <2>1. ~Broken(conn[c].buf) BY <1>0 DEF Broken
  <2>2. ProperSeq(out[c]) BY DEF ReplyInv
  <2>3. Len(out[c]) \in Nat BY <2>2 DEF ProperSeq
  <2>4. p <= Len(out[c]) /\ ~(Len(out[c]) > p) BY <2>1, <1>0, <1>4 DEF Answered
  <2> QED BY <2>3, <2>4
<1>14. Answered(sent[c], out[c], x, p + 1)
  <2> DEFINE n == Len(out[c])
             q == p + 1
  <2>1. x.stage = "writing" /\ x.buf = b /\ x.then = t /\ x.reply = r BY <1>5
  <2>2. Fits(f, r) BY <1>2, RepliedFits DEF ReplyInv
  <2>3. \A i \in 1 .. n : i <= q /\ i <= p /\ Fits(sent[c][i], out[c][i])
    BY <1>4, <1>13 DEF Answered
  <2>4. \A j \in 1 .. p : sent[c][j] # <<"quit">> BY <1>0, <1>4 DEF Answered
  <2>5. t \in {"next", "quit"} /\ (t = "next" => f # <<"quit">>) OBVIOUS
  <2>6. q = n + 1 /\ ~(n > q) /\ \A j \in 1 .. q : j = q \/ j \in 1 .. p BY <1>13
  <2> HIDE DEF n, q, t, f
  <2>7. sent[c][q] = f BY <1>9 DEF q
  <2>8. \A j \in 1 .. q : sent[c][j] = <<"quit">> => j = q BY <2>4, <2>6
  <2>9. t # "read" BY <2>5
  <2> QED BY <2>1, <2>2, <2>3, <2>5, <2>6, <2>7, <2>8, <2>9 DEF Answered, n, q
<1>15. Answered(sent[c], out[c], conn[c], p + 1)' BY <1>3, <1>6, <1>12, <1>14, AnsweredStays
<1>16. ValuesWereSet'
  <2> SUFFICES ASSUME NEW k, Val(k) \in DOMAIN mem'.ptr
               PROVE  Told(k, <<"Bulk", Data(mem, Val(k))[1]>>)'
    BY DEF ValuesWereSet, Val
  <2>1. PICK q : q = <<"Bulk", Data(mem', Val(k))[1]>> OBVIOUS
  <2>2. Told(k, q)
    <3>1. CASE Val(k) \in DOMAIN mem.ptr /\ Data(mem', Val(k)) = Data(mem, Val(k))
      BY <3>1, <2>1 DEF ReplyInv, ValuesWereSet
    <3>2. CASE f[1] = "set" /\ Val(k) = Val(f[2]) /\ Data(mem', Val(k)) = Text(f[3])
      <4>1. f[2] = k BY <3>2 DEF Val
      <4>2. q = <<"Bulk", f[3]>> BY <3>2, <2>1 DEF Text
      <4>3. p + 1 \in DOMAIN sent[c] BY <1>0, <1>9, LenProperties
      <4> HIDE DEF f
      <4> QED BY <4>1, <4>2, <4>3, <3>2, <1>9 DEF Told
    <3> QED BY <3>1, <3>2, <1>1
  <2>3. Told(k, q)' BY <2>2, <1>12, ToldStays
  <2> QED BY <2>1, <2>3 DEF Val
<1>17. \A d \in Clients \ {c} : /\ conn'[d] = conn[d] /\ wire'[d] = wire[d]
                                /\ sent'[d] = sent[d] /\ out'[d] = out[d]
  BY <1>0, <1>3, <1>6
<1>18. out' = [d \in Clients |-> out'[d]] /\ ProperSeq(out'[c]) BY <1>3 DEF ReplyInv
<1> QED BY <1>11, <1>12, <1>15, <1>16, <1>17, <1>18, StepReply

\* Every step keeps the invariant.
LEMMA NextReply == IInv /\ ReplyInv /\ [Next]_vars => ReplyInv'
<1> SUFFICES ASSUME IInv, ReplyInv, [Next]_vars PROVE ReplyInv' OBVIOUS
<1>1. ASSUME NEW c \in Clients, ReadEnds(c) PROVE ReplyInv'
  <2>1. PICK x : x = [stage |-> "closed", buf |-> conn[c].buf, reply |-> <<>>, then |-> "none"] OBVIOUS
  <2>2. /\ conn' = [conn EXCEPT ![c] = x] /\ x.buf = conn[c].buf /\ conn[c].stage = "reading"
        /\ mem' = mem /\ wire' = wire /\ sent' = sent /\ out' = out
    BY <1>1, <2>1 DEF ReadEnds, Becomes, Polled
  <2>3. \A p \in Nat : Answered(sent[c], out[c], conn[c], p) => Answered(sent[c], out[c], x, p)
    BY <2>1, <2>2 DEF Answered
  <2> QED BY <2>2, <2>3, QuietReply
<1>2. ASSUME NEW c \in Clients, NeedMore(c) PROVE ReplyInv'
  <2>1. PICK x : x = [stage |-> "reading", buf |-> conn[c].buf, reply |-> <<>>, then |-> "none"] OBVIOUS
  <2>2. /\ conn' = [conn EXCEPT ![c] = x] /\ x.buf = conn[c].buf /\ conn[c].stage = "ready"
        /\ mem' = mem /\ wire' = wire /\ sent' = sent /\ out' = out
    BY <1>2, <2>1 DEF NeedMore, Becomes
  <2>3. \A p \in Nat : Answered(sent[c], out[c], conn[c], p) => Answered(sent[c], out[c], x, p)
    BY <2>1, <2>2 DEF Answered
  <2> QED BY <2>2, <2>3, QuietReply
<1>3. ASSUME NEW c \in Clients, ParseError(c) PROVE ReplyInv'
  <2>1. PICK x : x = [stage |-> "writing", buf |-> conn[c].buf, reply |-> ParseReply, then |-> "read"]
    OBVIOUS
  <2>2. /\ conn' = [conn EXCEPT ![c] = x] /\ x.buf = conn[c].buf /\ conn[c].stage = "ready"
        /\ mem' = mem /\ wire' = wire /\ sent' = sent /\ out' = out /\ Broken(conn[c].buf)
    BY <1>3, <2>1 DEF ParseError, Send, Becomes, ParseReply
  <2>3. \A p \in Nat : Answered(sent[c], out[c], conn[c], p) => Answered(sent[c], out[c], x, p)
    BY <2>1, <2>2 DEF Answered
  <2> QED BY <2>2, <2>3, QuietReply
<1>4. ASSUME NEW c \in Clients, WriteFails(c) PROVE ReplyInv'
  <2>1. PICK x : x = [stage |-> "closed", buf |-> conn[c].buf, reply |-> <<>>, then |-> "none"] OBVIOUS
  <2>2. /\ conn' = [conn EXCEPT ![c] = x] /\ x.buf = conn[c].buf /\ conn[c].stage = "writing"
        /\ mem' = Released(mem, c) /\ wire' = wire /\ sent' = sent /\ out' = out
    BY <1>4, <2>1 DEF WriteFails, Becomes, Polled
  <2>3. \A p \in Nat : Answered(sent[c], out[c], conn[c], p) => Answered(sent[c], out[c], x, p)
    BY <2>1, <2>2 DEF Answered
  <2> QED BY <2>2, <2>3, QuietReply, ReleasedValues
<1>5. ASSUME mem' = mem, conn' = conn, wire' = wire, sent' = sent, out' = out PROVE ReplyInv'
  <2>1. SentGrows BY <1>5 DEF SentGrows
  <2>2. ValuesWereSet' BY <1>5, <2>1, ValuesStay DEF ReplyInv
  <2>3. \A d \in Clients :
          /\ ProperSeq(out'[d])
          /\ \E p \in Nat : Aligned(sent[d], Stream(d), p)' /\ Answered(sent[d], out[d], conn[d], p)'
    BY <1>5, <2>1, OthersAnswered
  <2> QED BY <1>5, <2>2, <2>3 DEF ReplyInv
<1>6. CASE UNCHANGED vars BY <1>5, <1>6 DEF vars
<1>7. CASE Next
  <2>1. PICK c \in Clients : Task(c) \/ Leave(c) \/ (\E s \in Scripts[c] : Request(c, s))
    BY <1>7 DEF Next
  <2>2. CASE Task(c)
    BY <2>2, <1>1, <1>2, <1>3, <1>4, ReadSomeReply, DispatchReply, WriteDoneReply DEF Task
  <2>3. CASE Leave(c) BY <2>3, <1>5 DEF Leave
  <2>4. CASE \E s \in Scripts[c] : Request(c, s) BY <2>4, RequestReply
  <2> QED BY <2>1, <2>2, <2>3, <2>4
<1> QED BY <1>6, <1>7

LEMMA ReplyInvImplies == IInv /\ ReplyInv => RepliesInOrder
<1> SUFFICES ASSUME IInv, ReplyInv, NEW c \in Clients, NEW i \in DOMAIN out[c]
             PROVE  IF Sound(c, i)
                    THEN /\ Fits(sent[c][i], out[c][i])
                         /\ \A j \in 1 .. i - 1 : sent[c][j] # <<"quit">>
                    ELSE /\ out[c][i] = <<"Error", "parse error">>
                         /\ \E j \in 1 .. i : /\ Sound(c, j - 1) /\ j <= Len(sent[c])
                                               /\ sent[c][j] = Malformed
  BY DEF RepliesInOrder
<1>1. PICK p \in Nat : Aligned(sent[c], Stream(c), p) /\ Answered(sent[c], out[c], conn[c], p)
  BY DEF ReplyInv
<1>2. i \in 1 .. Len(out[c]) /\ Len(out[c]) \in Nat
  <2>1. ProperSeq(out[c]) BY DEF ReplyInv
  <2> QED BY <2>1 DEF ProperSeq
<1>3. /\ sent[c] \in Seq(ScriptFrames) /\ conn[c].buf \in Seq(Tokens) /\ wire[c] \in Seq(Tokens)
      /\ Len(sent[c]) \in Nat
  BY DEF IInv, BytesOfFrames
<1>4. p \in 0 .. Len(sent[c]) /\ Clean(sent[c], p) BY <1>1 DEF Aligned
<1>5. CASE i <= p
  <2>1. Sound(c, i) BY <1>2, <1>3, <1>4, <1>5 DEF Sound, Clean
  <2>2. Fits(sent[c][i], out[c][i]) BY <1>1, <1>2, <1>5 DEF Answered
  <2>3. \A j \in 1 .. i - 1 : j \in 1 .. p /\ j # p BY <1>2, <1>4, <1>5
  <2>4. \A j \in 1 .. i - 1 : sent[c][j] # <<"quit">> BY <2>3, <1>1 DEF Answered
  <2> QED BY <2>1, <2>2, <2>4
<1>6. CASE ~(i <= p)
  <2>1. out[c][i] = ParseReply BY <1>1, <1>2, <1>6 DEF Answered
  <2>2. Len(out[c]) > p BY <1>2, <1>4, <1>6
  <2>3. Broken(conn[c].buf) BY <2>2, <1>1 DEF Answered
  <2>4. /\ Stream(c) \in Seq(Tokens) /\ Stream(c)[1] = conn[c].buf[1] /\ Stream(c) # <<>>
    <3> DEFINE b == conn[c].buf
               w == wire[c]
               S == b \o w
    <3>1. b \in Seq(Tokens) /\ w \in Seq(Tokens) /\ b # <<>> BY <2>3, <1>3 DEF Broken
    <3> HIDE DEF b, w
    <3>2. Len(b) \in Nat \ {0} /\ Len(w) \in Nat BY <3>1, EmptySeq
    <3>3. /\ S \in Seq(Tokens) /\ Len(S) = Len(b) + Len(w)
          /\ \A k \in 1 .. Len(b) + Len(w) : S[k] = IF k <= Len(b) THEN b[k] ELSE w[k - Len(b)]
      BY <3>1, ConcatProperties
    <3> HIDE DEF S
    <3>4. S[1] = b[1] /\ Len(S) # 0 BY <3>2, <3>3
    <3>5. S # <<>> BY <3>4, EmptySeq
    <3> QED BY <3>3, <3>4, <3>5 DEF S, b, w, Stream
  <2>5. p < Len(sent[c]) /\ sent[c][p + 1] = Malformed
    BY <2>3, <2>4, <1>1, <1>3, AlignedHead DEF Broken
  <2>6. ~Sound(c, i)
    <3>1. p + 1 \in 1 .. i BY <1>2, <1>4, <1>6
    <3> QED BY <3>1, <2>5 DEF Sound
  <2>7. Sound(c, (p + 1) - 1) /\ p + 1 <= Len(sent[c]) /\ p + 1 \in 1 .. i
    <3>1. (p + 1) - 1 = p /\ p <= Len(sent[c]) /\ p + 1 <= Len(sent[c]) /\ p + 1 \in 1 .. i
      BY <2>5, <1>2, <1>3, <1>4, <1>6
    <3> QED BY <3>1, <1>4 DEF Sound, Clean
  <2> QED BY <2>1, <2>5, <2>6, <2>7 DEF ParseReply
<1> QED BY <1>5, <1>6

\* For any scripts, however their bytes are cut into reads, and whatever the
\* other connections write meanwhile: the i-th reply answers the i-th frame.
THEOREM RepliesAreInOrder == Spec => []RepliesInOrder
<1>1. Init => IInv /\ ReplyInv BY InitInv, InitReply
<1>2. (IInv /\ ReplyInv) /\ [Next]_vars => (IInv /\ ReplyInv)' BY NextInv, NextReply
<1>3. IInv /\ ReplyInv => RepliesInOrder BY ReplyInvImplies
<1> QED BY <1>1, <1>2, <1>3, PTL DEF Spec

-----------------------------------------------------------------------------
(* The panic of read_with_conn_state.                                       *)

\* The task reads on after a reply to what it could not decode, only.
PanicInv ==
  /\ PanicNeedsMalformed
  /\ \A c \in Clients :
       conn[c].stage = "writing" /\ conn[c].then = "read" => Broken(conn[c].buf)

LEMMA NextPanic == IInv /\ PanicInv /\ [Next]_vars => PanicInv'
<1> SUFFICES ASSUME IInv, PanicInv, [Next]_vars PROVE PanicInv' OBVIOUS
<1>0. DOMAIN conn = Clients BY DEF IInv, BytesOfFrames
<1>1. ASSUME NEW c \in Clients, NEW x, conn' = [conn EXCEPT ![c] = x], ~panicked,
             gone' = gone, panicked' => c \in gone /\ Broken(x.buf),
             x.stage = "writing" /\ x.then = "read" => Broken(x.buf)
      PROVE  PanicInv'
  <2>1. conn'[c] = x /\ \A d \in Clients \ {c} : conn'[d] = conn[d] BY <1>0, <1>1
  <2>2. PanicNeedsMalformed' BY <1>1, <2>1 DEF PanicNeedsMalformed
  <2>3. ASSUME NEW d \in Clients, conn'[d].stage = "writing", conn'[d].then = "read"
        PROVE  Broken(conn'[d].buf)
    BY <1>1, <2>1, <2>3 DEF PanicInv
  <2> QED BY <2>2, <2>3 DEF PanicInv
<1>2. ASSUME NEW c \in Clients, Task(c) PROVE PanicInv'
  <2>1. ASSUME NEW n \in 1 .. Len(wire[c]), ReadSome(c, n) PROVE PanicInv'
    BY <2>1, <1>1 DEF ReadSome, Becomes, Polled
  <2>2. CASE ReadEnds(c) BY <2>2, <1>1 DEF ReadEnds, Becomes, Polled
  <2>3. CASE NeedMore(c) BY <2>3, <1>1 DEF NeedMore, Becomes
  <2>4. CASE ParseError(c) BY <2>4, <1>1 DEF ParseError, Send, Becomes
  <2>5. CASE Dispatch(c)
    <3>1. PICK b, r, t : /\ conn' = [conn EXCEPT ![c] = [stage |-> "writing", buf |-> b,
                                                         reply |-> r, then |-> t]]
                         /\ t \in {"next", "quit"}
      BY <2>5 DEF Dispatch, Send, Becomes
    <3>2. ~panicked /\ gone' = gone /\ panicked' = panicked BY <2>5 DEF Dispatch
    <3> QED BY <3>1, <3>2, <1>1
  <2>6. CASE WriteDone(c)
    <3>1. PICK x : /\ conn' = [conn EXCEPT ![c] = x]
                   /\ x = [stage |-> After[conn[c].then], buf |-> conn[c].buf,
                           reply |-> <<>>, then |-> "none"]
      BY <2>6 DEF WriteDone, Becomes
    <3>2. ~panicked /\ gone' = gone /\ panicked' = panicked /\ x.then = "none"
      BY <2>6, <3>1 DEF WriteDone, Polled
    <3> QED BY <3>1, <3>2, <1>1
  <2>7. CASE WriteFails(c)
    <3>1. PICK x : /\ conn' = [conn EXCEPT ![c] = x]
                   /\ x = [stage |-> "closed", buf |-> conn[c].buf, reply |-> <<>>, then |-> "none"]
      BY <2>7 DEF WriteFails, Becomes
    <3>2. /\ ~panicked /\ gone' = gone /\ panicked' = (conn[c].then = "read")
          /\ c \in gone /\ conn[c].stage = "writing"
      BY <2>7 DEF WriteFails, Polled
    <3>3. panicked' => Broken(x.buf) BY <3>1, <3>2 DEF PanicInv
    <3> QED BY <3>1, <3>2, <3>3, <1>1
  <2> QED BY <1>2, <2>1, <2>2, <2>3, <2>4, <2>5, <2>6, <2>7 DEF Task
<1>3. ASSUME conn' = conn, panicked' = panicked, gone \subseteq gone' PROVE PanicInv'
  BY <1>3 DEF PanicInv, PanicNeedsMalformed
<1>4. CASE UNCHANGED vars BY <1>3, <1>4 DEF vars
<1>5. CASE Next
  <2>1. PICK c \in Clients : Task(c) \/ Leave(c) \/ (\E s \in Scripts[c] : Request(c, s))
    BY <1>5 DEF Next
  <2>2. CASE Leave(c) BY <2>2, <1>3 DEF Leave
  <2>3. CASE \E s \in Scripts[c] : Request(c, s) BY <2>3, <1>3 DEF Request
  <2> QED BY <1>2, <2>1, <2>2, <2>3
<1> QED BY <1>4, <1>5

\* The arm that was held impossible is reached only after a client has sent
\* a malformed frame and closed.
THEOREM PanicOnlyAfterMalformed == Spec => []PanicNeedsMalformed
<1>1. Init => IInv /\ PanicInv
  <2>1. Init => PanicInv BY DEF Init, PanicInv, PanicNeedsMalformed
  <2> QED BY <2>1, InitInv
<1>2. (IInv /\ PanicInv) /\ [Next]_vars => (IInv /\ PanicInv)' BY NextInv, NextPanic
<1>3. IInv /\ PanicInv => PanicNeedsMalformed BY DEF PanicInv
<1> QED BY <1>1, <1>2, <1>3, PTL DEF Spec
=============================================================================
