--------------------------- MODULE GenArenaProofs ---------------------------
(***************************************************************************)
(* GenArena keeps its free list and its count right for every capacity and *)
(* every sequence of calls, and implements KeyPool as long as no slot's    *)
(* generation count wraps.                                                 *)
(***************************************************************************)
EXTENDS GenArena, FiniteSetTheorems, TLAPS

\* The inductive invariant of the slots.  The type of free_head rests on the
\* free list, the free list on the count, the count on the type.
SlotsInv == ArenaTypeOK /\ LenCounts /\ FreeListComplete

\* The occupied slots are finitely many, and one more or one less changes
\* their number by one.
LEMMA CountStep ==
  ASSUME NEW n \in Nat, NEW S \in SUBSET (0 .. n - 1)
  PROVE  /\ IsFiniteSet(S)
         /\ Cardinality(S) \in Nat
         /\ \A x : x \notin S => Cardinality(S \cup {x}) = Cardinality(S) + 1
         /\ \A x \in S : /\ Cardinality(S \ {x}) = Cardinality(S) - 1
                         /\ Cardinality(S) >= 1
  <1>1. IsFiniteSet(0 .. n - 1)
    BY FS_Interval
  <1>2. IsFiniteSet(S)
    BY <1>1, FS_Subset
  <1>3. Cardinality(S) \in Nat
    BY <1>2, FS_CardinalityType
  <1>4. ASSUME NEW x, x \notin S
        PROVE  Cardinality(S \cup {x}) = Cardinality(S) + 1
    BY <1>2, <1>4, FS_AddElement
  <1>5. ASSUME NEW x \in S
        PROVE  Cardinality(S \ {x}) = Cardinality(S) - 1 /\ Cardinality(S) >= 1
    <2>1. Cardinality(S \ {x}) = Cardinality(S) - 1
      BY <1>2, <1>5, FS_RemoveElement
    <2>2. IsFiniteSet(S \ {x})
      BY <1>2, FS_Subset
    <2>3. Cardinality(S \ {x}) \in Nat
      BY <2>2, FS_CardinalityType
    <2> QED BY <1>3, <2>1, <2>3
  <1> QED BY <1>2, <1>3, <1>4, <1>5

LEMMA InitSlots == ArenaInit => SlotsInv
  <1> SUFFICES ASSUME ArenaInit PROVE SlotsInv
    OBVIOUS
  <1> USE ArenaAssumption
  <1>1. ArenaTypeOK
    BY DEF ArenaInit, ArenaTypeOK, Grown, Slots, SlotType, Generations, AllKeys
  <1>2. Occupied = {}
    BY DEF ArenaInit, Occupied, Slots, Grown
  <1>3. LenCounts
    BY <1>2, FS_EmptySet DEF ArenaInit, LenCounts
  <1>4. FreeListComplete
    <2> DEFINE s == [i \in 1 .. size - len |-> i - 1]
    <2>1. size = Capacity /\ len = 0
      BY DEF ArenaInit
    <2>2. s \in [1 .. size - len -> Slots]
      BY <2>1 DEF Slots
    <2>3. IsChain(s)
      BY <1>2, <2>1 DEF ArenaInit, IsChain, Slots, Grown
    <2> QED BY <2>2, <2>3 DEF FreeListComplete
  <1> QED BY <1>1, <1>3, <1>4 DEF SlotsInv

\* The head of the free list is vacant, and there is one exactly while the
\* arena is not full.
LEMMA HeadIsVacant ==
  ASSUME SlotsInv
  PROVE  /\ len \in 0 .. size
         /\ free_head # Sentinel => len < size /\ free_head \in Slots \ Occupied
         /\ free_head = Sentinel => len = size
  <1> USE ArenaAssumption
  <1>1. size \in Nat /\ size <= Sentinel /\ Occupied \subseteq 0 .. size - 1
    BY DEF SlotsInv, ArenaTypeOK, Occupied, Slots
  <1>2. len <= size
    <2>1. IsFiniteSet(0 .. size - 1) /\ Cardinality(0 .. size - 1) = size
      BY <1>1, FS_Interval
    <2>2. Cardinality(Occupied) <= Cardinality(0 .. size - 1)
      BY <1>1, <2>1, FS_Subset
    <2> QED BY <2>1, <2>2 DEF SlotsInv, LenCounts
  <1>3. len \in 0 .. size
    BY <1>1, <1>2 DEF SlotsInv, ArenaTypeOK
  <1>4. PICK s \in [1 .. size - len -> Slots] : IsChain(s)
    BY DEF SlotsInv, FreeListComplete
  <1>5. ASSUME len < size
        PROVE  free_head \in Slots \ Occupied /\ free_head # Sentinel
    BY <1>1, <1>3, <1>4, <1>5 DEF IsChain, Slots
  <1>6. len = size => free_head = Sentinel
    BY <1>4 DEF IsChain
  <1> QED BY <1>1, <1>3, <1>5, <1>6

\* An insertion that pops the free list leaves its tail as the free list.
LEMMA FreeStep ==
  ASSUME SlotsInv, NEW v \in Data, InsertFree(v)
  PROVE  SlotsInv'
  <1> USE ArenaAssumption
  <1>1. /\ len \in 0 .. size /\ len < size
        /\ free_head \in Slots \ Occupied /\ free_head # Sentinel
    BY HeadIsVacant DEF InsertFree
  <1>2. /\ slots' = [slots EXCEPT ![free_head].data = v]
        /\ free_head' = slots[free_head].next_free
        /\ len' = len + 1 /\ size' = size
        /\ issued' = issued \cup {[idx |-> free_head,
                                   generation |-> slots[free_head].generation]}
    BY DEF InsertFree, Fill
  <1>3. size \in Nat /\ slots \in [Slots -> SlotType] /\ len \in Nat
    BY DEF SlotsInv, ArenaTypeOK
  <1>4. ArenaTypeOK'
    <2>1. slots' \in [Slots -> SlotType]
      BY <1>1, <1>2, <1>3 DEF SlotType
    <2>2. free_head' \in 0 .. Sentinel
      BY <1>1, <1>2, <1>3 DEF SlotType
    <2>3. issued' \subseteq AllKeys
      BY <1>1, <1>2, <1>3 DEF SlotsInv, ArenaTypeOK, AllKeys, SlotType, Slots
    <2> QED BY <1>2, <1>3, <2>1, <2>2, <2>3 DEF SlotsInv, ArenaTypeOK, Slots
  <1>5. Occupied' = Occupied \cup {free_head}
    BY <1>1, <1>2, <1>3 DEF Occupied, Slots, SlotType
  <1>6. LenCounts'
    <2>1. Occupied \in SUBSET (0 .. size - 1)
      BY DEF Occupied, Slots
    <2> QED BY <1>1, <1>2, <1>3, <1>5, <2>1, CountStep DEF SlotsInv, LenCounts
  <1>7. FreeListComplete'
    <2>1. PICK s \in [1 .. size - len -> Slots] : IsChain(s)
      BY DEF SlotsInv, FreeListComplete
    <2>0. PICK t : t = [i \in 1 .. size - len - 1 |-> s[i + 1]]
      OBVIOUS
    <2>2. size' - len' = size - len - 1 /\ size - len \in Nat \ {0}
      BY <1>1, <1>2, <1>3
    <2>3. t \in [1 .. size' - len' -> Slots']
      BY <1>2, <1>3, <2>0, <2>2 DEF Slots
    <2>4. s[1] = free_head
      BY <1>1, <2>1 DEF IsChain
    <2>5. \A i \in 1 .. size' - len' : t[i] = s[i + 1] /\ i + 1 \in 1 .. size - len
      BY <1>1, <1>2, <1>3, <2>0, <2>2
    <2>. 1 \in 1 .. size - len
      BY <2>2
    <2>6. ASSUME NEW i \in 1 .. size' - len' PROVE t[i] # free_head
      <3>1. i + 1 \in 1 .. size - len /\ i + 1 # 1
        BY <2>5
      <3>2. s[i + 1] # s[1]
        BY <2>1, <3>1 DEF IsChain
      <3> QED BY <2>4, <2>5, <3>2
    <2>7. ASSUME NEW i \in 1 .. size' - len'
          PROVE  /\ t[i] \in Slots' \ Occupied'
                 /\ slots'[t[i]].next_free =
                      IF i = size' - len' THEN Sentinel ELSE t[i + 1]
      <3>1. t[i] \in Slots \ Occupied
        BY <2>1, <2>5 DEF IsChain
      <3>2. slots'[t[i]] = slots[t[i]]
        BY <1>2, <1>3, <2>6, <3>1
      <3>3. slots[s[i + 1]].next_free =
              IF i + 1 = size - len THEN Sentinel ELSE s[i + 1 + 1]
        BY <2>1, <2>5 DEF IsChain
      <3>4. i = size' - len' <=> i + 1 = size - len
        BY <2>2
      <3>5. i # size' - len' => i + 1 \in 1 .. size' - len' /\ t[i + 1] = s[i + 1 + 1]
        BY <2>0, <2>2
      <3> QED BY <1>2, <1>5, <2>5, <2>6, <3>1, <3>2, <3>3, <3>4, <3>5 DEF Slots
    <2>8. \A i, j \in 1 .. size' - len' : t[i] = t[j] => i = j
      BY <2>1, <2>5 DEF IsChain
    <2>9. ASSUME NEW x \in Slots' \ Occupied'
          PROVE  \E i \in 1 .. size' - len' : t[i] = x
      <3>1. x \in Slots \ Occupied /\ x # free_head
        BY <1>2, <1>5 DEF Slots
      <3>2. PICK i \in 1 .. size - len : s[i] = x
        BY <2>1, <3>1 DEF IsChain
      <3>3. i - 1 \in 1 .. size' - len' /\ t[i - 1] = x
        BY <2>0, <2>2, <2>4, <3>1, <3>2
      <3> QED BY <3>3
    <2>10. free_head' = IF size' = len' THEN Sentinel ELSE t[1]
      <3>1. free_head' = IF 1 = size - len THEN Sentinel ELSE s[2]
        <4>1. slots[s[1]].next_free = IF 1 = size - len THEN Sentinel ELSE s[1 + 1]
          BY <2>1 DEF IsChain
        <4> QED BY <1>2, <2>4, <4>1
      <3>2. size' = len' <=> 1 = size - len
        BY <1>1, <1>2, <1>3
      <3>3. size' # len' => t[1] = s[2]
        BY <1>1, <1>2, <1>3, <2>0, <2>2
      <3> QED BY <3>1, <3>2, <3>3
    <2>11. IsChain(t)'
      BY <2>7, <2>8, <2>9, <2>10 DEF IsChain
    <2> QED BY <2>3, <2>11 DEF FreeListComplete
  <1> QED BY <1>4, <1>6, <1>7 DEF SlotsInv

\* An insertion into a full arena adds a slot and fills it at once.
LEMMA GrowStep ==
  ASSUME SlotsInv, NEW v \in Data, InsertGrow(v)
  PROVE  SlotsInv'
  <1> USE ArenaAssumption
  <1>1. len = size /\ size \in Nat /\ size < Sentinel
    BY HeadIsVacant DEF InsertGrow, SlotsInv, ArenaTypeOK
  <1>2. slots \in [Slots -> SlotType]
    BY DEF SlotsInv, ArenaTypeOK
  <1>3. PICK s : s = Grown(slots, size, free_head, size + 1)
    OBVIOUS
  <1>4. s = [i \in 0 .. size |->
               IF i < size THEN slots[i]
               ELSE [data |-> Nothing, generation |-> 0, next_free |-> Sentinel]]
    <2>1. 0 .. (size + 1) - 1 = 0 .. size
      BY <1>1
    <2>2. \A i \in 0 .. size : ~(i < size) => ~(i + 1 < size + 1)
      BY <1>1
    <2> QED BY <1>3, <2>1, <2>2 DEF Grown, InsertGrow
  <1>5. /\ slots' = [s EXCEPT ![size].data = v]
        /\ free_head' = Sentinel
        /\ len' = len + 1 /\ size' = size + 1
        /\ issued' = issued \cup {[idx |-> size, generation |-> 0]}
    <2>1. s[size] = [data |-> Nothing, generation |-> 0, next_free |-> Sentinel]
      BY <1>1, <1>4
    <2>2. Fill(s, size, v) /\ size' = size + 1
      BY <1>3 DEF InsertGrow
    <2> QED BY <2>1, <2>2 DEF Fill
  <1>6. /\ DOMAIN slots' = 0 .. size
        /\ slots'[size] = [data |-> v, generation |-> 0, next_free |-> Sentinel]
        /\ \A i \in 0 .. size - 1 : slots'[i] = slots[i]
        /\ slots' = [i \in DOMAIN slots' |-> slots'[i]]
    <2>1. DOMAIN s = 0 .. size /\ size \in DOMAIN s
      BY <1>1, <1>4
    <2>2. s[size] = [data |-> Nothing, generation |-> 0, next_free |-> Sentinel]
      BY <1>1, <1>4
    <2>3. slots'[size] = [s[size] EXCEPT !.data = v]
      BY <1>5, <2>1
    <2>4. \A i \in 0 .. size - 1 : slots'[i] = slots[i]
      BY <1>1, <1>4, <1>5
    <2>5. slots'[size] = [data |-> v, generation |-> 0, next_free |-> Sentinel]
      BY <2>2, <2>3
    <2>6. DOMAIN slots' = 0 .. size
      BY <1>5, <2>1
    <2>7. slots' = [i \in DOMAIN slots' |-> slots'[i]]
      BY <1>5
    <2> QED BY <2>4, <2>5, <2>6, <2>7
  <1>7. Slots' = 0 .. size /\ Slots = 0 .. size - 1
    BY <1>1, <1>5 DEF Slots
  <1>8. ArenaTypeOK'
    <2>1. slots' \in [Slots' -> SlotType]
      <3>1. slots'[size] \in SlotType
        BY <1>6 DEF SlotType, Generations
      <3>2. \A i \in 0 .. size - 1 : slots'[i] \in SlotType
        BY <1>2, <1>6, <1>7
      <3> QED BY <1>1, <1>6, <1>7, <3>1, <3>2
    <2>2. issued' \subseteq AllKeys
      BY <1>1, <1>5 DEF SlotsInv, ArenaTypeOK, AllKeys, Generations
    <2> QED BY <1>1, <1>5, <2>1, <2>2 DEF ArenaTypeOK
  <1>9. Occupied' = Occupied \cup {size}
    BY <1>1, <1>6, <1>7 DEF Occupied
  <1>10. LenCounts'
    <2>1. Occupied \in SUBSET (0 .. size - 1) /\ size \notin Occupied
      BY <1>1, <1>7 DEF Occupied
    <2> QED BY <1>1, <1>5, <1>9, <2>1, CountStep DEF SlotsInv, LenCounts
  <1>11. FreeListComplete'
    <2>1. size - len = 0 /\ size' - len' = 0 /\ size' = len'
      BY <1>1, <1>5
    <2>2. PICK t \in [1 .. size - len -> Slots] : IsChain(t)
      BY DEF SlotsInv, FreeListComplete
    <2>3. Slots \ Occupied = {}
      BY <2>1, <2>2 DEF IsChain
    <2>4. Slots' \ Occupied' = {}
      BY <1>1, <1>7, <1>9, <2>3
    <2>5. t \in [1 .. size' - len' -> Slots']
      BY <2>1, <2>2
    <2>6. IsChain(t)'
      BY <1>5, <2>1, <2>4 DEF IsChain
    <2> QED BY <2>5, <2>6 DEF FreeListComplete
  <1> QED BY <1>8, <1>10, <1>11 DEF SlotsInv

\* A removal puts the slot at the head of the free list.
LEMMA RemoveStep ==
  ASSUME SlotsInv, NEW k \in issued, Remove(k)
  PROVE  SlotsInv'
  <1> USE ArenaAssumption
  <1>1. size \in Nat /\ size <= Sentinel /\ slots \in [Slots -> SlotType]
    BY DEF SlotsInv, ArenaTypeOK
  <1>2. k.idx \in Slots /\ k.idx \in Occupied
    BY DEF Remove, Resolves, Occupied
  <1>3. PICK g \in Generations :
          slots' = [slots EXCEPT ![k.idx] = [data |-> Nothing, generation |-> g,
                                             next_free |-> free_head]]
    <2>1. slots[k.idx].generation \in Nat
      BY <1>1, <1>2 DEF SlotType, Generations
    <2>2. (slots[k.idx].generation + 1) % GenMod \in Generations
      BY <2>1 DEF Generations
    <2> QED BY <2>2 DEF Remove
  <1>4. free_head' = k.idx /\ len' = len - 1 /\ size' = size /\ issued' = issued
    BY DEF Remove
  <1>5. Slots' = Slots
    BY <1>4 DEF Slots
  <1>6. Occupied' = Occupied \ {k.idx}
    BY <1>1, <1>2, <1>3, <1>5 DEF Occupied
  <1>7. Occupied \in SUBSET (0 .. size - 1)
    BY DEF Occupied, Slots
  <1>8. len \in Nat \ {0} /\ len <= size
    <2>1. len = Cardinality(Occupied) /\ len \in Nat
      BY DEF SlotsInv, LenCounts, ArenaTypeOK
    <2>2. Cardinality(Occupied) >= 1
      BY <1>1, <1>2, <1>7, CountStep
    <2>3. len \in 0 .. size
      BY HeadIsVacant
    <2> QED BY <1>1, <2>1, <2>2, <2>3
  <1>9. LenCounts'
    BY <1>1, <1>2, <1>4, <1>6, <1>7, CountStep DEF SlotsInv, LenCounts
  <1>10. ArenaTypeOK'
    <2>1. slots' \in [Slots' -> SlotType]
      BY <1>1, <1>2, <1>3, <1>5 DEF SlotType, SlotsInv, ArenaTypeOK
    <2> QED BY <1>1, <1>2, <1>4, <1>8, <2>1 DEF SlotsInv, ArenaTypeOK, Slots
  <1>11. FreeListComplete'
    <2>1. PICK s \in [1 .. size - len -> Slots] : IsChain(s)
      BY DEF SlotsInv, FreeListComplete
    <2>2. PICK t : t = [i \in 1 .. size - len + 1 |->
                          IF i = 1 THEN k.idx ELSE s[i - 1]]
      OBVIOUS
    <2>3. size' - len' = size - len + 1 /\ size - len \in Nat
      BY <1>1, <1>4, <1>8
    <2>4. /\ t[1] = k.idx
          /\ \A i \in 1 .. size' - len' :
               i # 1 => i - 1 \in 1 .. size - len /\ t[i] = s[i - 1]
      BY <2>2, <2>3
    <2>5. t \in [1 .. size' - len' -> Slots']
      BY <1>2, <1>5, <2>1, <2>2, <2>3
    <2>6. \A i \in 1 .. size - len : s[i] # k.idx
      BY <1>2, <2>1 DEF IsChain
    <2>7. ASSUME NEW i \in 1 .. size' - len'
          PROVE  /\ t[i] \in Slots' \ Occupied'
                 /\ slots'[t[i]].next_free =
                      IF i = size' - len' THEN Sentinel ELSE t[i + 1]
      <3>1. CASE i = 1
        <4>1. slots'[t[i]].next_free = free_head
          BY <1>1, <1>2, <1>3, <2>4, <3>1
        <4>2. size - len # 0 => 1 \in 1 .. size - len /\ 2 \in 1 .. size' - len'
          BY <2>3
        <4>3. free_head = IF size - len = 0 THEN Sentinel ELSE t[2]
          <5>1. free_head = IF size - len = 0 THEN Sentinel ELSE s[1]
            BY <1>1, <1>8, <2>1 DEF IsChain
          <5>2. size - len # 0 => t[2] = s[2 - 1]
            BY <2>4, <4>2
          <5> QED BY <5>1, <5>2
        <4>4. i = size' - len' <=> size - len = 0
          BY <2>3, <3>1
        <4> QED BY <1>2, <1>5, <1>6, <2>4, <3>1, <4>1, <4>3, <4>4
      <3>2. CASE i # 1
        <4>1. i - 1 \in 1 .. size - len /\ t[i] = s[i - 1]
          BY <2>4, <3>2
        <4>2. t[i] \in Slots \ Occupied /\ t[i] # k.idx
          BY <2>1, <2>6, <4>1 DEF IsChain
        <4>3. slots'[t[i]] = slots[t[i]]
          BY <1>1, <1>3, <4>2
        <4>4. slots[s[i - 1]].next_free =
                IF i - 1 = size - len THEN Sentinel ELSE s[(i - 1) + 1]
          BY <2>1, <4>1 DEF IsChain
        <4>5. i - 1 = size - len <=> i = size' - len'
          BY <2>3
        <4>6. i # size' - len' => t[i + 1] = s[(i - 1) + 1]
          <5>1. i # size' - len' => i + 1 \in 1 .. size' - len' /\ i + 1 # 1
            BY <2>3
          <5>2. (i + 1) - 1 = (i - 1) + 1
            OBVIOUS
          <5> QED BY <2>4, <5>1, <5>2
        <4> QED BY <1>5, <1>6, <4>1, <4>2, <4>3, <4>4, <4>5, <4>6
      <3> QED BY <3>1, <3>2
    <2>8. ASSUME NEW i \in 1 .. size' - len', NEW j \in 1 .. size' - len', t[i] = t[j]
          PROVE  i = j
      <3>1. CASE i = 1
        BY <2>4, <2>6, <2>8, <3>1
      <3>2. CASE j = 1
        BY <2>4, <2>6, <2>8, <3>2
      <3>3. CASE i # 1 /\ j # 1
        <4>1. i - 1 = j - 1
          BY <2>1, <2>4, <2>8, <3>3 DEF IsChain
        <4> QED BY <2>3, <4>1
      <3> QED BY <3>1, <3>2, <3>3
    <2>9. ASSUME NEW x \in Slots' \ Occupied'
          PROVE  \E i \in 1 .. size' - len' : t[i] = x
      <3>1. CASE x = k.idx
        <4>1. 1 \in 1 .. size' - len'
          BY <2>3
        <4> QED BY <2>4, <3>1, <4>1
      <3>2. CASE x # k.idx
        <4>1. PICK i \in 1 .. size - len : s[i] = x
          BY <1>5, <1>6, <2>1, <3>2 DEF IsChain
        <4>2. i + 1 \in 1 .. size' - len' /\ i + 1 # 1 /\ (i + 1) - 1 = i
          BY <2>3
        <4>3. t[i + 1] = x
          BY <2>4, <4>1, <4>2
        <4> QED BY <4>2, <4>3
      <3> QED BY <3>1, <3>2
    <2>10. free_head' = IF size' = len' THEN Sentinel ELSE t[1]
      BY <1>1, <1>4, <1>8, <2>4
    <2>11. IsChain(t)'
      BY <2>7, <2>8, <2>9, <2>10 DEF IsChain
    <2> QED BY <2>5, <2>11 DEF FreeListComplete
  <1> QED BY <1>9, <1>10, <1>11 DEF SlotsInv

LEMMA SlotsStep == SlotsInv /\ [ArenaNext]_genVars => SlotsInv'
  <1> SUFFICES ASSUME SlotsInv, [ArenaNext]_genVars PROVE SlotsInv'
    OBVIOUS
  <1>1. ASSUME UNCHANGED <<arenaVars, issued>> PROVE SlotsInv'
    <2>1. Slots' = Slots /\ Occupied' = Occupied
      BY <1>1 DEF arenaVars, Slots, Occupied
    <2>2. ArenaTypeOK'
      BY <1>1, <2>1 DEF arenaVars, SlotsInv, ArenaTypeOK
    <2>3. LenCounts'
      BY <1>1, <2>1 DEF arenaVars, SlotsInv, LenCounts
    <2>4. FreeListComplete'
      <3>1. PICK s \in [1 .. size - len -> Slots] : IsChain(s)
        BY DEF SlotsInv, FreeListComplete
      <3>2. IsChain(s)'
        BY <1>1, <2>1, <3>1 DEF arenaVars, IsChain
      <3> QED BY <1>1, <2>1, <3>1, <3>2 DEF arenaVars, FreeListComplete
    <2> QED BY <2>2, <2>3, <2>4 DEF SlotsInv
  <1>2. ASSUME NEW v \in Data, InsertFree(v) PROVE SlotsInv'
    BY <1>2, FreeStep
  <1>3. ASSUME NEW v \in Data, InsertGrow(v) PROVE SlotsInv'
    BY <1>3, GrowStep
  <1>4. ASSUME NEW k \in issued, Remove(k) PROVE SlotsInv'
    BY <1>4, RemoveStep
  <1>5. ASSUME NEW k \in issued, RemoveStale(k) \/ Get(k) PROVE SlotsInv'
    BY <1>1, <1>5 DEF RemoveStale, Get
  <1> QED BY <1>1, <1>2, <1>3, <1>4, <1>5 DEF ArenaNext, genVars

\* For every capacity and every sequence of calls, generation wrap included,
\* the free list passes every vacant slot exactly once, len counts the
\* occupied ones, and every field keeps its type (insert and remove of
\* gen_arena.rs).
THEOREM FreeListCorrect == ArenaSpec => [](ArenaTypeOK /\ LenCounts /\ FreeListComplete)
  <1>1. SlotsInv => ArenaTypeOK /\ LenCounts /\ FreeListComplete
    BY DEF SlotsInv
  <1> QED BY InitSlots, SlotsStep, <1>1, PTL DEF ArenaSpec

-----------------------------------------------------------------------------
\* What an insertion does to the slots that issued keys point at: it fills a
\* slot whose earlier keys are all of an earlier generation.
Fills(v, k) ==
  /\ k \in AllKeys
  /\ k.idx \in Slots'
  /\ slots'[k.idx].data = v /\ slots'[k.idx].generation = k.generation
  /\ issued' = issued \cup {k}
  /\ \A x \in issued :
       /\ x.idx \in Slots /\ x.idx \in Slots'
       /\ x.idx # k.idx => slots'[x.idx] = slots[x.idx]
       /\ x.idx = k.idx => x.generation < k.generation /\ ~Resolves(x)

LEMMA FreeFills ==
  ASSUME SlotsInv, KeysNotAhead, NEW v \in Data, InsertFree(v)
  PROVE  \E k : Fills(v, k)
  <1> USE ArenaAssumption
  <1>1. free_head \in Slots /\ slots[free_head].data = Nothing
    BY HeadIsVacant DEF InsertFree, Occupied
  <1>2. PICK k : k = [idx |-> free_head, generation |-> slots[free_head].generation]
    OBVIOUS
  <1>3. /\ slots' = [slots EXCEPT ![free_head].data = v] /\ size' = size
        /\ issued' = issued \cup {k}
    BY <1>2 DEF InsertFree, Fill
  <1>4. size \in 0 .. Sentinel /\ slots \in [Slots -> SlotType] /\ issued \subseteq AllKeys
    BY DEF SlotsInv, ArenaTypeOK
  <1>5. Slots' = Slots
    BY <1>3 DEF Slots
  <1>6. k \in AllKeys
    BY <1>1, <1>2, <1>4 DEF AllKeys, SlotType, Slots
  <1>7. slots'[k.idx].data = v /\ slots'[k.idx].generation = k.generation
    BY <1>1, <1>2, <1>3, <1>4 DEF SlotType
  <1>8. ASSUME NEW x \in issued
        PROVE  /\ x.idx \in Slots
               /\ x.idx # k.idx => slots'[x.idx] = slots[x.idx]
               /\ x.idx = k.idx => x.generation < k.generation /\ ~Resolves(x)
    <2>1. /\ x.idx \in Slots
          /\ slots[x.idx].data = Nothing => x.generation < slots[x.idx].generation
      BY DEF KeysNotAhead
    <2>2. k.idx = free_head /\ k.generation = slots[free_head].generation
      BY <1>2
    <2>3. x.idx # k.idx => slots'[x.idx] = slots[x.idx]
      BY <1>3, <1>4, <2>1, <2>2
    <2> QED BY <1>1, <2>1, <2>2, <2>3 DEF Resolves
  <1> QED BY <1>1, <1>2, <1>3, <1>5, <1>6, <1>7, <1>8 DEF Fills

LEMMA GrowFills ==
  ASSUME SlotsInv, KeysNotAhead, NEW v \in Data, InsertGrow(v)
  PROVE  \E k : Fills(v, k)
  <1> USE ArenaAssumption
  <1>1. size \in Nat /\ size < Sentinel
    BY DEF InsertGrow, SlotsInv, ArenaTypeOK
  <1>2. PICK s : s = Grown(slots, size, free_head, size + 1)
    OBVIOUS
  <1>3. /\ DOMAIN s = 0 .. size
        /\ \A i \in 0 .. size - 1 : s[i] = slots[i]
        /\ s[size].generation = 0
        /\ s[size] = [data |-> Nothing, generation |-> 0, next_free |-> Sentinel]
    BY <1>1, <1>2 DEF Grown, InsertGrow
  <1>4. PICK k : k = [idx |-> size, generation |-> 0]
    OBVIOUS
  <1>5. /\ slots' = [s EXCEPT ![size].data = v] /\ size' = size + 1
        /\ issued' = issued \cup {k}
    <2>1. Fill(s, size, v) /\ size' = size + 1
      BY <1>2 DEF InsertGrow
    <2> QED BY <1>3, <1>4, <2>1 DEF Fill
  <1>6. Slots' = 0 .. size /\ Slots = 0 .. size - 1
    BY <1>1, <1>5 DEF Slots
  <1>7. k \in AllKeys
    BY <1>1, <1>4 DEF AllKeys, Generations
  <1>8. slots'[k.idx].data = v /\ slots'[k.idx].generation = k.generation
    <2>1. slots'[size] = [s[size] EXCEPT !.data = v]
      BY <1>1, <1>3, <1>5
    <2> QED BY <1>3, <1>4, <2>1
  <1>9. ASSUME NEW x \in issued
        PROVE  /\ x.idx \in Slots /\ x.idx # k.idx
               /\ slots'[x.idx] = slots[x.idx]
    <2>1. x.idx \in 0 .. size - 1
      BY <1>6 DEF KeysNotAhead
    <2>2. slots'[x.idx] = s[x.idx]
      BY <1>1, <1>3, <1>5, <2>1
    <2> QED BY <1>1, <1>3, <1>4, <1>6, <2>1, <2>2
  <1>10. Slots \subseteq Slots' /\ k.idx \in Slots'
    BY <1>1, <1>4, <1>6
  <1> QED BY <1>5, <1>7, <1>8, <1>9, <1>10 DEF Fills

\* Such an insertion hands out a key never handed out before, and the other
\* keys resolve as they did.
LEMMA FillInserts ==
  ASSUME SlotsInv, KeysNotAhead, NEW v \in Data, NEW k, Fills(v, k)
  PROVE  KeysNotAhead' /\ Pool!Insert(k, v)
  <1> USE ArenaAssumption
  <1>1. v # Nothing /\ k.generation \in Nat
    BY DEF Fills, AllKeys, Generations
  <1>2. k \notin issued
    BY <1>1 DEF Fills
  <1>3. Resolves(k)'
    BY <1>1 DEF Fills, Resolves
  <1>4. ASSUME NEW x \in issued PROVE Resolves(x)' <=> Resolves(x)
    <2>1. x.generation \in Nat
      BY DEF SlotsInv, ArenaTypeOK, AllKeys, Generations
    <2>2. CASE x.idx = k.idx
      BY <1>1, <2>1, <2>2 DEF Fills, Resolves
    <2>3. CASE x.idx # k.idx
      BY <2>3 DEF Fills, Resolves
    <2> QED BY <2>2, <2>3
  <1>5. KeysNotAhead'
    <2> SUFFICES ASSUME NEW x \in issued'
                 PROVE  /\ x.idx \in Slots'
                        /\ x.generation <= slots'[x.idx].generation
                        /\ slots'[x.idx].data = Nothing =>
                             x.generation < slots'[x.idx].generation
      BY DEF KeysNotAhead
    <2>1. CASE x = k
      BY <1>1, <2>1 DEF Fills
    <2>2. CASE x \in issued /\ x.idx = k.idx
      <3>1. x.generation \in Nat
        BY <2>2 DEF SlotsInv, ArenaTypeOK, AllKeys, Generations
      <3> QED BY <1>1, <2>2, <3>1 DEF Fills
    <2>3. CASE x \in issued /\ x.idx # k.idx
      BY <2>3 DEF Fills, KeysNotAhead
    <2> QED BY <2>1, <2>2, <2>3 DEF Fills
  <1>6. {x \in issued' : Resolves(x)'} = {x \in issued : Resolves(x)} \cup {k}
    BY <1>3, <1>4 DEF Fills
  <1>7. Content' = [x \in DOMAIN Content \cup {k} |-> IF x = k THEN v ELSE Content[x]]
    <2>1. ASSUME NEW x \in DOMAIN Content
          PROVE  x # k /\ slots'[x.idx].data = Content[x]
      <3>1. x \in issued /\ Resolves(x)
        BY DEF Content
      <3>2. x.idx # k.idx
        BY <3>1 DEF Fills
      <3> QED BY <1>2, <3>1, <3>2 DEF Fills, Content
    <2>2. DOMAIN Content = {x \in issued : Resolves(x)}
      BY DEF Content
    <2>3. Content' = [x \in DOMAIN Content \cup {k} |-> slots'[x.idx].data]
      BY <1>6, <2>2 DEF Content
    <2>4. slots'[k.idx].data = v
      BY DEF Fills
    <2> QED BY <2>1, <2>3, <2>4
  <1> QED BY <1>2, <1>5, <1>7 DEF Pool!Insert, Fills

\* A removal makes every key of the slot stale, the others stay as they are.
LEMMA RemoveRemoves ==
  ASSUME ~WrapGen, SlotsInv, KeysNotAhead, NEW k \in issued, Remove(k)
  PROVE  KeysNotAhead' /\ Pool!Remove(k)
  <1> USE ArenaAssumption
  <1>1. /\ size \in Nat /\ slots \in [Slots -> SlotType]
        /\ issued \subseteq AllKeys
    BY DEF SlotsInv, ArenaTypeOK
  <1>2. /\ k.idx \in Slots /\ slots[k.idx].generation = k.generation
        /\ slots[k.idx].data # Nothing
    BY DEF Remove, Resolves
  <1>3. slots[k.idx].generation \in Nat /\ slots[k.idx].generation + 1 < GenMod
    BY <1>1, <1>2 DEF Remove, SlotType, Generations
  <1>4. (slots[k.idx].generation + 1) % GenMod = slots[k.idx].generation + 1
    BY <1>3
  <1>5. /\ slots' = [slots EXCEPT ![k.idx] =
                       [data |-> Nothing, generation |-> slots[k.idx].generation + 1,
                        next_free |-> free_head]]
        /\ issued' = issued /\ size' = size
    BY <1>4 DEF Remove
  <1>6. Slots' = Slots
    BY <1>5 DEF Slots
  <1>7. /\ slots'[k.idx].data = Nothing
        /\ slots'[k.idx].generation = slots[k.idx].generation + 1
        /\ \A i \in Slots : i # k.idx => slots'[i] = slots[i]
    BY <1>1, <1>2, <1>5
  <1>8. KeysNotAhead'
    <2> SUFFICES ASSUME NEW x \in issued
                 PROVE  /\ x.idx \in Slots
                        /\ x.generation <= slots'[x.idx].generation
                        /\ slots'[x.idx].data = Nothing =>
                             x.generation < slots'[x.idx].generation
      BY <1>5, <1>6 DEF KeysNotAhead
    <2>1. /\ x.idx \in Slots /\ x.generation <= slots[x.idx].generation
          /\ x.generation \in Nat
      BY <1>1 DEF KeysNotAhead, AllKeys, Generations
    <2>2. CASE x.idx = k.idx
      BY <1>3, <1>7, <2>1, <2>2
    <2>3. CASE x.idx # k.idx
      BY <1>7, <2>1, <2>3 DEF KeysNotAhead
    <2> QED BY <2>2, <2>3
  <1>9. ASSUME NEW x \in issued
        PROVE  Resolves(x)' <=> Resolves(x) /\ x # k
    <2>1. x.idx \in Slots
      BY DEF KeysNotAhead
    <2>2. CASE x.idx = k.idx
      <3>1. ~Resolves(x)'
        BY <1>7, <2>2 DEF Resolves
      <3>2. Resolves(x) => x = k
        <4>1. x \in AllKeys /\ k \in AllKeys
          BY <1>1
        <4>2. x.idx = k.idx /\ x.generation = k.generation => x = k
          BY <4>1 DEF AllKeys
        <4> QED BY <1>2, <2>2, <4>2 DEF Resolves
      <3> QED BY <3>1, <3>2
    <2>3. CASE x.idx # k.idx
      BY <1>6, <1>7, <2>1, <2>3 DEF Resolves
    <2> QED BY <2>2, <2>3
  <1>10. {x \in issued' : Resolves(x)'} = {x \in issued : Resolves(x)} \ {k}
    BY <1>5, <1>9
  <1>11. Content' = [x \in DOMAIN Content \ {k} |-> Content[x]]
    <2>1. DOMAIN Content = {x \in issued : Resolves(x)}
      BY DEF Content
    <2>2. Content' = [x \in DOMAIN Content \ {k} |-> slots'[x.idx].data]
      BY <1>10, <2>1 DEF Content
    <2>3. ASSUME NEW x \in DOMAIN Content \ {k}
          PROVE  slots'[x.idx].data = Content[x]
      <3>1. x \in issued /\ Resolves(x) /\ x # k
        BY <2>1
      <3>2. x.idx \in Slots /\ slots[x.idx].generation = x.generation
        BY <3>1 DEF Resolves
      <3>3. x.idx # k.idx
        BY <1>1, <1>2, <3>1, <3>2 DEF AllKeys
      <3>4. Content[x] = slots[x.idx].data
        BY <2>1 DEF Content
      <3> QED BY <1>7, <3>2, <3>3, <3>4
    <2> QED BY <2>2, <2>3
  <1>12. k \in DOMAIN Content
    BY DEF Remove, Content
  <1> QED BY <1>5, <1>8, <1>11, <1>12 DEF Pool!Remove

LEMMA InitPool == ArenaInit => KeysNotAhead /\ Pool!Init
  <1> SUFFICES ASSUME ArenaInit PROVE KeysNotAhead /\ Pool!Init
    OBVIOUS
  <1>1. issued = {}
    BY DEF ArenaInit
  <1>2. Content = [k \in {} |-> k]
    BY <1>1 DEF Content
  <1> QED BY <1>1, <1>2 DEF KeysNotAhead, Pool!Init

\* Every step of the arena is a step of the pool or leaves it unchanged.
LEMMA PoolStep ==
  ASSUME ~WrapGen, SlotsInv, KeysNotAhead, [ArenaNext]_genVars
  PROVE  KeysNotAhead' /\ [Pool!Next]_Pool!poolVars
  <1>1. ASSUME UNCHANGED <<arenaVars, issued>>
        PROVE  KeysNotAhead' /\ UNCHANGED Pool!poolVars
    <2>1. Slots' = Slots /\ slots' = slots /\ issued' = issued
      BY <1>1 DEF arenaVars, Slots
    <2>2. \A x : Resolves(x)' <=> Resolves(x)
      BY <2>1 DEF Resolves
    <2>3. {x \in issued' : Resolves(x)'} = {x \in issued : Resolves(x)}
      BY <2>1, <2>2
    <2>4. Content' = Content
      BY <2>1, <2>3 DEF Content
    <2> QED BY <2>1, <2>4 DEF KeysNotAhead, Pool!poolVars
  <1>2. ASSUME NEW v \in Data, InsertFree(v) \/ InsertGrow(v)
        PROVE  KeysNotAhead' /\ Pool!Next
    <2>1. PICK k : Fills(v, k)
      BY <1>2, FreeFills, GrowFills
    <2>2. k \in AllKeys
      BY <2>1 DEF Fills
    <2>3. KeysNotAhead' /\ Pool!Insert(k, v)
      BY <2>1, FillInserts
    <2> QED BY <2>2, <2>3 DEF Pool!Next
  <1>3. ASSUME NEW k \in issued, Remove(k)
        PROVE  KeysNotAhead' /\ Pool!Next
    <2>1. k \in AllKeys
      BY DEF SlotsInv, ArenaTypeOK
    <2> QED BY <1>3, <2>1, RemoveRemoves DEF Pool!Next
  <1>4. ASSUME NEW k \in issued, RemoveStale(k) \/ Get(k)
        PROVE  KeysNotAhead' /\ UNCHANGED Pool!poolVars
    BY <1>1, <1>4 DEF RemoveStale, Get
  <1> QED BY <1>1, <1>2, <1>3, <1>4 DEF ArenaNext, genVars

\* While no slot is reused often enough for its generation to wrap, the
\* arena is the pool of keys its documentation promises: a key is handed out
\* once, and a removed key resolves to nothing ever after.
THEOREM ArenaImplementsPool == ASSUME ~WrapGen PROVE ArenaSpec => ImplementsPool
  <1>1. SlotsInv /\ KeysNotAhead /\ [ArenaNext]_genVars
          => KeysNotAhead' /\ [Pool!Next]_Pool!poolVars
    BY PoolStep
  <1> QED BY InitSlots, SlotsStep, InitPool, <1>1, PTL DEF ArenaSpec, ImplementsPool, Pool!Spec

\* Under the same proviso no key ever runs ahead of its slot's generation,
\* and the keys of a vacant slot are all behind it.
THEOREM KeysStayBehind == ASSUME ~WrapGen PROVE ArenaSpec => []KeysNotAhead
  <1>1. SlotsInv /\ KeysNotAhead /\ [ArenaNext]_genVars => KeysNotAhead'
    BY PoolStep
  <1> QED BY InitSlots, SlotsStep, InitPool, <1>1, PTL DEF ArenaSpec
=============================================================================
