-------------------------- MODULE ChildListsProofs --------------------------
(***************************************************************************)
(* The three levels of child lists neither leak nor share a list, never    *)
(* overflow an array, keep the arena's free list, and are together the     *)
(* function ChildMap promises, for every number of nodes and every size of *)
(* the lists.                                                              *)
(***************************************************************************)
EXTENDS ChildLists, FiniteSetTheorems, FunctionTheorems, TLAPS

Pairs == Radixes \X Idxs

-----------------------------------------------------------------------------
(* Lists of entries.                                                       *)

LEMMA ListFacts ==
  ASSUME NEW s \in Seq(Pairs)
  PROVE  /\ DOMAIN s = 1 .. Len(s) /\ Len(s) \in Nat
         /\ Range(s) \subseteq Pairs
         /\ \A r : Lists(s, r) <=> \E e \in Range(s) : e[1] = r
         /\ s = <<>> <=> Range(s) = {}
         /\ s = <<>> <=> Len(s) = 0
  <1>1. DOMAIN s = 1 .. Len(s) /\ Len(s) \in Nat /\ \A n \in 1 .. Len(s) : s[n] \in Pairs
    OBVIOUS
  <1>2. Range(s) = {s[n] : n \in DOMAIN s}
    BY DEF Range
  <1>3. \A r : Lists(s, r) <=> \E e \in Range(s) : e[1] = r
    BY <1>2 DEF Lists
  <1>4. s = <<>> <=> Len(s) = 0
    OBVIOUS
  <1>5. s # <<>> => s[1] \in Range(s)
    BY <1>1, <1>2, <1>4
  <1>6. s = <<>> => Range(s) = {}
    BY <1>1, <1>2, <1>4
  <1> QED BY <1>1, <1>2, <1>3, <1>4, <1>5, <1>6

LEMMA EmptyList ==
  /\ <<>> \in Seq(Pairs) /\ Len(<<>>) = 0 /\ Range(<<>>) = {} /\ Once(<<>>)
  /\ \A r : ~Lists(<<>>, r)
  /\ \A t : Apart(<<>>, t) /\ Apart(t, <<>>)
  <1>1. <<>> \in Seq(Pairs) /\ Len(<<>>) = 0 /\ DOMAIN <<>> = {}
    OBVIOUS
  <1>2. Range(<<>>) = {}
    BY <1>1 DEF Range
  <1> QED BY <1>1, <1>2 DEF Once, Lists, Apart

\* push.
LEMMA AppendFacts ==
  ASSUME NEW s \in Seq(Pairs), NEW e \in Pairs
  PROVE  /\ Append(s, e) \in Seq(Pairs) /\ Len(Append(s, e)) = Len(s) + 1
         /\ Range(Append(s, e)) = Range(s) \cup {e}
         /\ Append(s, e) # <<>>
         /\ Once(s) /\ ~Lists(s, e[1]) => Once(Append(s, e))
  <1>1. /\ Append(s, e) \in Seq(Pairs) /\ Len(Append(s, e)) = Len(s) + 1
        /\ DOMAIN Append(s, e) = 1 .. Len(s) + 1
        /\ \A n \in 1 .. Len(s) : Append(s, e)[n] = s[n]
        /\ Append(s, e)[Len(s) + 1] = e
        /\ DOMAIN s = 1 .. Len(s) /\ Len(s) \in Nat
    OBVIOUS
  <1>2. \A n \in 1 .. Len(s) + 1 : n = Len(s) + 1 \/ n \in 1 .. Len(s)
    BY <1>1
  <1>3. Range(Append(s, e)) = Range(s) \cup {e}
    <2>1. \A x \in Range(Append(s, e)) : x \in Range(s) \cup {e}
      BY <1>1, <1>2 DEF Range
    <2>2. \A x \in Range(s) : x \in Range(Append(s, e))
      <3>1. \A n \in 1 .. Len(s) : n \in 1 .. Len(s) + 1
        BY <1>1
      <3> QED BY <1>1, <3>1 DEF Range
    <2>3. e \in Range(Append(s, e))
      <3>1. Len(s) + 1 \in 1 .. Len(s) + 1
        BY <1>1
      <3> QED BY <1>1, <3>1 DEF Range
    <2> QED BY <2>1, <2>2, <2>3
  <1>4. Once(s) /\ ~Lists(s, e[1]) => Once(Append(s, e))
    BY <1>1, <1>2 DEF Once, Lists
  <1> QED BY <1>1, <1>3, <1>4

LEMMA SingleList ==
  ASSUME NEW e \in Pairs
  PROVE  /\ <<e>> \in Seq(Pairs) /\ Len(<<e>>) = 1 /\ Range(<<e>>) = {e}
         /\ <<e>> # <<>> /\ Once(<<e>>)
  <1>1. <<e>> = Append(<<>>, e)
    OBVIOUS
  <1>2. Append(<<>>, e) \in Seq(Pairs) /\ Len(Append(<<>>, e)) = 0 + 1
        /\ Range(Append(<<>>, e)) = {} \cup {e} /\ Append(<<>>, e) # <<>> /\ Once(Append(<<>>, e))
    BY EmptyList, AppendFacts
  <1> QED BY <1>1, <1>2

\* remove: what leaves is the entry of r and nothing else.
LEMMA SwapRemoveFacts ==
  ASSUME NEW s \in Seq(Pairs), NEW r, Once(s), Lists(s, r)
  PROVE  /\ SwapRemove(s, r) \in Seq(Pairs) /\ Len(SwapRemove(s, r)) = Len(s) - 1
         /\ Range(SwapRemove(s, r)) = {e \in Range(s) : e[1] # r}
         /\ Once(SwapRemove(s, r))
  <1>1. PICK p : p = Position(s, r)
    OBVIOUS
  <1>2. p \in DOMAIN s /\ s[p][1] = r
    BY <1>1 DEF Position, Lists
  <1>3. PICK len : len = Len(s)
    OBVIOUS
  <1>4. /\ len \in Nat /\ DOMAIN s = 1 .. len /\ p \in 1 .. len
        /\ \A n \in 1 .. len : s[n] \in Pairs
    BY <1>2, <1>3
  <1>5. PICK t : t = [n \in 1 .. len - 1 |-> IF n = p THEN s[len] ELSE s[n]]
    OBVIOUS
  <1>6. SwapRemove(s, r) = t
    BY <1>1, <1>3, <1>5 DEF SwapRemove
  <1>7. len - 1 \in Nat /\ \A n \in 1 .. len - 1 : n \in 1 .. len /\ n # len
    BY <1>4
  <1>8. len \in 1 .. len
    BY <1>4
  <1>9. t \in Seq(Pairs) /\ Len(t) = len - 1 /\ DOMAIN t = 1 .. len - 1
    BY <1>4, <1>5, <1>7, <1>8
  <1>10. \A n, k \in 1 .. len : s[n][1] = s[k][1] => n = k
    BY <1>4 DEF Once
  <1>11. \A n \in 1 .. len - 1 : t[n] = (IF n = p THEN s[len] ELSE s[n])
    BY <1>5
  <1>12. Once(t)
    BY <1>7, <1>8, <1>9, <1>10, <1>11 DEF Once
  <1>13. ASSUME NEW e \in Range(t) PROVE e \in Range(s) /\ e[1] # r
    <2>1. PICK n \in 1 .. len - 1 : e = t[n]
      BY <1>9, <1>13 DEF Range
    <2>2. CASE n = p
      <3>1. e = s[len] /\ len # p
        BY <1>7, <1>11, <2>1, <2>2
      <3> QED BY <1>2, <1>4, <1>8, <1>10, <3>1 DEF Range
    <2>3. CASE n # p
      <3>1. e = s[n] /\ n \in 1 .. len
        BY <1>7, <1>11, <2>1, <2>3
      <3> QED BY <1>2, <1>4, <1>10, <2>3, <3>1 DEF Range
    <2> QED BY <2>2, <2>3
  <1>14. ASSUME NEW e \in Range(s), e[1] # r PROVE e \in Range(t)
    <2>1. PICK n \in 1 .. len : e = s[n]
      BY <1>4, <1>14 DEF Range
    <2>2. n # p
      BY <1>2, <1>14, <2>1
    <2>3. CASE n = len
      <3>1. p \in 1 .. len - 1
        BY <1>4, <2>2, <2>3
      <3> QED BY <1>9, <1>11, <2>1, <2>3, <3>1 DEF Range
    <2>4. CASE n # len
      <3>1. n \in 1 .. len - 1
        BY <1>4, <2>4
      <3> QED BY <1>9, <1>11, <2>1, <2>2, <3>1 DEF Range
    <2> QED BY <2>3, <2>4
  <1> QED BY <1>3, <1>6, <1>9, <1>12, <1>13, <1>14

\* A list has as many radixes as entries.
Keys(s) == {e[1] : e \in Range(s)}

LEMMA KeysCount ==
  ASSUME NEW s \in Seq(Pairs), Once(s)
  PROVE  Keys(s) \subseteq Radixes /\ IsFiniteSet(Keys(s)) /\ Cardinality(Keys(s)) = Len(s)
  <1>1. DOMAIN s = 1 .. Len(s) /\ Len(s) \in Nat /\ \A n \in 1 .. Len(s) : s[n] \in Pairs
    OBVIOUS
  <1>2. PICK f : f = [n \in 1 .. Len(s) |-> s[n][1]]
    OBVIOUS
  <1>3. f \in [1 .. Len(s) -> Keys(s)]
    BY <1>1, <1>2 DEF Keys, Range
  <1>4. \A n, k \in 1 .. Len(s) : f[n] = f[k] => n = k
    BY <1>1, <1>2 DEF Once
  <1>5. \A x \in Keys(s) : \E n \in 1 .. Len(s) : f[n] = x
    BY <1>1, <1>2 DEF Keys, Range
  <1>6. f \in Bijection(1 .. Len(s), Keys(s))
    BY <1>3, <1>4, <1>5, Fun_IsBij
  <1>7. ExistsBijection(1 .. Len(s), Keys(s))
    BY <1>6 DEF ExistsBijection
  <1>8. IsFiniteSet(1 .. Len(s)) /\ Cardinality(1 .. Len(s)) = Len(s)
    <2>1. \A n \in Nat : IsFiniteSet(1 .. n) /\ Cardinality(1 .. n) = n
      BY FS_Interval
    <2> QED BY <1>1, <2>1
  <1>9. Keys(s) \subseteq Radixes
    BY <1>1 DEF Keys, Range, Pairs
  <1> QED BY <1>7, <1>8, <1>9, FS_Bijection

-----------------------------------------------------------------------------
(* The three lists of a node.                                              *)

Distinct(C, L, H) ==
  /\ Once(C) /\ Once(L) /\ Once(H) /\ Apart(C, L) /\ Apart(C, H) /\ Apart(L, H)

Together(C, L, H) == Range(C) \cup Range(L) \cup Range(H)

\* The children that a set of entries stands for.
AsFunction(E) == [r \in {e[1] : e \in E} |-> (CHOOSE e \in E : e[1] = r)[2]]

IsFunctional(E) == E \subseteq Pairs /\ \A e, f \in E : e[1] = f[1] => e = f

LEMMA DistinctFunctional ==
  ASSUME NEW C \in Seq(Pairs), NEW L \in Seq(Pairs), NEW H \in Seq(Pairs), Distinct(C, L, H)
  PROVE  IsFunctional(Together(C, L, H))
  <1>1. \A s \in Seq(Pairs) : Once(s) => \A e, f \in Range(s) : e[1] = f[1] => e = f
    BY DEF Once, Range
  <1>2. \A s \in Seq(Pairs) : Range(s) \subseteq Pairs
    BY ListFacts
  <1>3. ASSUME NEW e \in Together(C, L, H), NEW f \in Together(C, L, H), e[1] = f[1]
        PROVE  e = f
    BY <1>1, <1>3 DEF Together, Distinct, Apart
  <1> QED BY <1>2, <1>3 DEF IsFunctional, Together

LEMMA FunctionValue ==
  ASSUME NEW E, IsFunctional(E)
  PROVE  \A e \in E : e[1] \in DOMAIN AsFunction(E) /\ AsFunction(E)[e[1]] = e[2]
  <1> SUFFICES ASSUME NEW e \in E
               PROVE  e[1] \in DOMAIN AsFunction(E) /\ AsFunction(E)[e[1]] = e[2]
    OBVIOUS
  <1>1. PICK r : r = e[1]
    OBVIOUS
  <1>2. (CHOOSE f \in E : f[1] = r) = e
    BY <1>1 DEF IsFunctional
  <1> QED BY <1>1, <1>2 DEF AsFunction

LEMMA EntryAdded ==
  ASSUME NEW E, NEW r \in Radixes, NEW i \in Idxs, IsFunctional(E), r \notin {e[1] : e \in E}
  PROVE  /\ IsFunctional(E \cup {<<r, i>>})
         /\ AsFunction(E \cup {<<r, i>>})
              = [x \in DOMAIN AsFunction(E) \cup {r} |-> IF x = r THEN i ELSE AsFunction(E)[x]]
  <1>1. PICK q : q = <<r, i>>
    OBVIOUS
  <1>2. PICK F : F = E \cup {<<r, i>>}
    OBVIOUS
  <1>3. q[1] = r /\ q[2] = i /\ F = E \cup {q} /\ q \in F
    BY <1>1, <1>2
  <1>4. IsFunctional(F)
    BY <1>2 DEF IsFunctional, Pairs
  <1>5. DOMAIN AsFunction(F) = DOMAIN AsFunction(E) \cup {r}
    <2>1. DOMAIN AsFunction(F) = {e[1] : e \in F} /\ DOMAIN AsFunction(E) = {e[1] : e \in E}
      BY DEF AsFunction
    <2> QED BY <1>3, <2>1
  <1>6. ASSUME NEW x \in DOMAIN AsFunction(F)
        PROVE  AsFunction(F)[x] = IF x = r THEN i ELSE AsFunction(E)[x]
    <2>1. CASE x = r
      BY <1>4, <1>3, <2>1, FunctionValue
    <2>2. CASE x # r
      <3>1. PICK e \in E : e[1] = x
        BY <1>5, <2>2 DEF AsFunction
      <3> QED BY <1>2, <1>4, <2>2, <3>1, FunctionValue
    <2> QED BY <2>1, <2>2
  <1>7. AsFunction(F) = [x \in DOMAIN AsFunction(F) |-> AsFunction(F)[x]]
    BY DEF AsFunction
  <1> QED BY <1>2, <1>4, <1>5, <1>6, <1>7

LEMMA EntryDropped ==
  ASSUME NEW E, NEW r, IsFunctional(E)
  PROVE  /\ IsFunctional({e \in E : e[1] # r})
         /\ AsFunction({e \in E : e[1] # r})
              = [x \in DOMAIN AsFunction(E) \ {r} |-> AsFunction(E)[x]]
  <1>1. PICK F : F = {e \in E : e[1] # r}
    OBVIOUS
  <1>2. IsFunctional(F)
    BY <1>1 DEF IsFunctional
  <1>3. DOMAIN AsFunction(F) = DOMAIN AsFunction(E) \ {r}
    BY <1>1 DEF AsFunction
  <1>4. ASSUME NEW x \in DOMAIN AsFunction(F)
        PROVE  AsFunction(F)[x] = AsFunction(E)[x]
    <2>1. PICK e \in F : e[1] = x
      BY DEF AsFunction
    <2> QED BY <1>1, <1>2, <2>1, FunctionValue
  <1>5. AsFunction(F) = [x \in DOMAIN AsFunction(F) |-> AsFunction(F)[x]]
    BY DEF AsFunction
  <1> QED BY <1>1, <1>2, <1>3, <1>4, <1>5

-----------------------------------------------------------------------------
(* The overflow arena.                                                     *)

SlotsShape ==
  /\ Len(slots) \in Nat /\ DOMAIN slots = 1 .. Len(slots)
  /\ slots = [s \in 1 .. Len(slots) |-> slots[s]]

Arena == SlotsShape /\ ArenaFreeList

\* The slots in use are finitely many, and one more or one less changes their
\* number by one.
LEMMA UsedCount ==
  ASSUME SlotsShape
  PROVE  /\ IsFiniteSet(Used) /\ Cardinality(Used) \in 0 .. Len(slots)
         /\ \A x : x \notin Used => Cardinality(Used \cup {x}) = Cardinality(Used) + 1
         /\ \A x \in Used : Cardinality(Used \ {x}) = Cardinality(Used) - 1
         /\ Cardinality(Used) = Len(slots) => Used = DOMAIN slots
  <1>1. PICK n : n = Len(slots)
    OBVIOUS
  <1>2. n \in Nat /\ Used \in SUBSET (1 .. n) /\ DOMAIN slots = 1 .. n
    BY <1>1 DEF SlotsShape, Used
  <1>3. IsFiniteSet(1 .. n) /\ Cardinality(1 .. n) = n
    BY <1>2, FS_Interval
  <1>4. /\ IsFiniteSet(Used) /\ Cardinality(Used) <= n
        /\ Cardinality(Used) = n => Used = 1 .. n
    BY <1>2, <1>3, FS_Subset
  <1>5. Cardinality(Used) \in Nat
    BY <1>4, FS_CardinalityType
  <1>6. \A x : x \notin Used => Cardinality(Used \cup {x}) = Cardinality(Used) + 1
    BY <1>4, FS_AddElement
  <1>7. \A x \in Used : Cardinality(Used \ {x}) = Cardinality(Used) - 1
    BY <1>4, FS_RemoveElement
  <1> QED BY <1>1, <1>2, <1>4, <1>5, <1>6, <1>7

LEMMA ArenaFacts ==
  ASSUME Arena
  PROVE  /\ count \in 0 .. Len(slots) /\ Len(slots) \in Nat
         /\ free_head # Nil => /\ free_head \in DOMAIN slots \ Used
                               /\ Len(slots) - count \in Nat \ {0}
         /\ free_head = Nil => count = Len(slots) /\ Used = DOMAIN slots
  <1>1. /\ SlotsShape /\ count = Cardinality(Used) /\ Len(slots) \in Nat
        /\ DOMAIN slots = 1 .. Len(slots) /\ Nil \notin Nat
    BY ChildListsAssumption DEF Arena, ArenaFreeList, SlotsShape
  <1>2. /\ Cardinality(Used) \in 0 .. Len(slots)
        /\ Cardinality(Used) = Len(slots) => Used = DOMAIN slots
    BY <1>1, UsedCount
  <1>3. PICK n : n = Len(slots) - count
    OBVIOUS
  <1>4. n \in Nat
    BY <1>1, <1>2, <1>3
  <1>5. PICK chain \in [1 .. n -> DOMAIN slots] : IsFreeList(chain)
    BY <1>3 DEF Arena, ArenaFreeList
  <1>6. CASE n = 0
    <2>1. free_head = Nil /\ count = Len(slots)
      BY <1>1, <1>2, <1>3, <1>5, <1>6 DEF IsFreeList
    <2> QED BY <1>1, <1>2, <2>1
  <1>7. CASE n # 0
    <2>1. 1 \in 1 .. n
      BY <1>4, <1>7
    <2>2. free_head = chain[1] /\ chain[1] \in DOMAIN slots \ Used
      BY <1>3, <1>5, <1>7, <2>1 DEF IsFreeList
    <2>3. free_head # Nil
      BY <1>1, <2>2
    <2> QED BY <1>1, <1>2, <1>3, <1>4, <1>7, <2>2, <2>3
  <1> QED BY <1>6, <1>7

LEMMA SlotSet ==
  ASSUME SlotsShape, NEW x \in DOMAIN slots, NEW v, slots' = [slots EXCEPT ![x] = v]
  PROVE  /\ DOMAIN slots' = DOMAIN slots /\ Len(slots') = Len(slots) /\ SlotsShape'
         /\ slots'[x] = v
         /\ \A s \in DOMAIN slots : s # x => slots'[s] = slots[s]
  <1>1. PICK len : len = Len(slots)
    OBVIOUS
  <1>2. len \in Nat /\ DOMAIN slots = 1 .. len
    BY <1>1 DEF SlotsShape
  <1>3. PICK T : T = {slots[s] : s \in 1 .. len} \cup {v}
    OBVIOUS
  <1>4. slots' = [s \in 1 .. len |-> IF s = x THEN v ELSE slots[s]]
    BY <1>2
  <1>5. slots' \in [1 .. len -> T]
    BY <1>3, <1>4
  <1>6. Len(slots') = len /\ DOMAIN slots' = 1 .. len
    BY <1>2, <1>5
  <1>7. SlotsShape'
    BY <1>2, <1>5, <1>6 DEF SlotsShape
  <1> QED BY <1>1, <1>2, <1>4, <1>6, <1>7

\* What alloc does.
Filled(light) ==
  /\ DOMAIN slots' = DOMAIN slots \cup {Allocated}
  /\ slots'[Allocated] = Item(light, Nil)
  /\ \A s \in DOMAIN slots : s # Allocated => slots'[s] = slots[s]
  /\ Used' = Used \cup {Allocated}
  /\ Allocated \notin Used /\ Allocated \in Nat /\ Arena'

LEMMA AllocPops ==
  ASSUME Arena, NEW light, Alloc(light), free_head # Nil
  PROVE  Filled(light)
  <1>1. /\ count \in 0 .. Len(slots) /\ Len(slots) \in Nat
        /\ free_head \in DOMAIN slots \ Used /\ Len(slots) - count \in Nat \ {0}
    BY ArenaFacts
  <1>2. PICK n : n = Len(slots) - count
    OBVIOUS
  <1>3. n \in Nat \ {0} /\ SlotsShape /\ count = Cardinality(Used)
    BY <1>1, <1>2 DEF Arena, ArenaFreeList
  <1>4. PICK item : item = Item(light, Nil)
    OBVIOUS
  <1>5. item.slot = "Item"
    BY <1>4 DEF Item
  <1>6. /\ slots' = [slots EXCEPT ![free_head] = item]
        /\ free_head' = slots[free_head].next /\ count' = count + 1
        /\ Allocated = free_head
    BY <1>4 DEF Alloc, Allocated
  <1>7. /\ DOMAIN slots' = DOMAIN slots /\ Len(slots') = Len(slots) /\ SlotsShape'
        /\ slots'[free_head] = item
        /\ \A s \in DOMAIN slots : s # free_head => slots'[s] = slots[s]
    BY <1>1, <1>3, <1>6, SlotSet
  <1>8. Used' = Used \cup {free_head}
    BY <1>1, <1>5, <1>7 DEF Used
  <1>9. count' = Cardinality(Used')
    BY <1>1, <1>3, <1>6, <1>8, UsedCount
  <1>10. Len(slots') - count' = n - 1 /\ n - 1 \in Nat
    BY <1>1, <1>2, <1>3, <1>6, <1>7
  <1>11. PICK chain \in [1 .. n -> DOMAIN slots] : IsFreeList(chain)
    BY <1>2 DEF Arena, ArenaFreeList
  <1>12. /\ \A k \in 1 .. n : /\ chain[k] \notin Used
                              /\ slots[chain[k]].next = IF k = n THEN Nil ELSE chain[k + 1]
         /\ \A s \in DOMAIN slots \ Used : \E k \in 1 .. n : chain[k] = s
         /\ \A k, l \in 1 .. n : chain[k] = chain[l] => k = l
         /\ free_head = chain[1]
    BY <1>2, <1>3, <1>11 DEF IsFreeList
  <1>13. PICK rest : rest = [k \in 1 .. n - 1 |-> chain[k + 1]]
    OBVIOUS
  <1>14. \A k \in 1 .. n - 1 : /\ rest[k] = chain[k + 1] /\ k + 1 \in 1 .. n
                               /\ k + 1 # 1 /\ k \in 1 .. n
                               /\ k = n - 1 <=> k + 1 = n
                               /\ k # n - 1 => k + 1 \in 1 .. n - 1
    BY <1>3, <1>13
  <1>15. 1 \in 1 .. n /\ n \in 1 .. n
    BY <1>3
  <1>16. \A k \in 1 .. n - 1 : rest[k] # free_head /\ rest[k] \in DOMAIN slots \ Used
    BY <1>11, <1>12, <1>14, <1>15
  <1>17. rest \in [1 .. n - 1 -> DOMAIN slots']
    BY <1>7, <1>13, <1>14, <1>16
  <1>18. IsFreeList(rest)'
    <2>1. \A k \in 1 .. n - 1 :
            /\ rest[k] \notin Used'
            /\ slots'[rest[k]].next = IF k = n - 1 THEN Nil ELSE rest[k + 1]
      <3> SUFFICES ASSUME NEW k \in 1 .. n - 1
                   PROVE  /\ rest[k] \notin Used'
                          /\ slots'[rest[k]].next = IF k = n - 1 THEN Nil ELSE rest[k + 1]
        OBVIOUS
      <3>1. slots'[rest[k]] = slots[chain[k + 1]] /\ rest[k] \notin Used'
        BY <1>7, <1>8, <1>14, <1>16
      <3>2. slots[chain[k + 1]].next = IF k + 1 = n THEN Nil ELSE chain[k + 1 + 1]
        BY <1>12, <1>14
      <3>3. k # n - 1 => rest[k + 1] = chain[k + 1 + 1]
        BY <1>14
      <3> QED BY <1>14, <3>1, <3>2, <3>3
    <2>2. \A s \in DOMAIN slots' \ Used' : \E k \in 1 .. n - 1 : rest[k] = s
      <3> SUFFICES ASSUME NEW s \in DOMAIN slots' \ Used'
                   PROVE  \E k \in 1 .. n - 1 : rest[k] = s
        OBVIOUS
      <3>1. s \in DOMAIN slots \ Used /\ s # chain[1]
        BY <1>7, <1>8, <1>12
      <3>2. PICK k \in 1 .. n : chain[k] = s /\ k # 1
        BY <1>12, <3>1
      <3>3. k - 1 \in 1 .. n - 1 /\ k - 1 + 1 = k
        BY <1>3, <3>2
      <3> QED BY <1>14, <3>2, <3>3
    <2>3. \A k, l \in 1 .. n - 1 : rest[k] = rest[l] => k = l
      BY <1>12, <1>14
    <2>4. free_head' = IF n - 1 = 0 THEN Nil ELSE rest[1]
      <3>1. slots[chain[1]].next = IF 1 = n THEN Nil ELSE chain[1 + 1]
        BY <1>12, <1>15
      <3>2. n # 1 => 1 \in 1 .. n - 1
        BY <1>3
      <3> QED BY <1>3, <1>6, <1>12, <1>14, <3>1, <3>2
    <2> QED BY <1>10, <2>1, <2>2, <2>3, <2>4 DEF IsFreeList
  <1>19. Arena'
    BY <1>7, <1>9, <1>10, <1>17, <1>18 DEF Arena, ArenaFreeList
  <1>20. free_head \in Nat
    BY <1>1, <1>3 DEF SlotsShape
  <1>21. DOMAIN slots' = DOMAIN slots \cup {free_head}
    BY <1>1, <1>7
  <1> QED BY <1>1, <1>4, <1>6, <1>7, <1>8, <1>19, <1>20, <1>21 DEF Filled

LEMMA AllocGrows ==
  ASSUME Arena, NEW light, Alloc(light), free_head = Nil
  PROVE  Filled(light)
  <1>1. count = Len(slots) /\ Used = DOMAIN slots /\ Len(slots) \in Nat
    BY ArenaFacts
  <1>2. SlotsShape /\ count = Cardinality(Used)
    BY DEF Arena, ArenaFreeList
  <1>3. PICK item, len : item = Item(light, Nil) /\ len = Len(slots)
    OBVIOUS
  <1>4. item.slot = "Item"
    BY <1>3 DEF Item
  <1>5. /\ slots' = Append(slots, item) /\ free_head' = Nil /\ count' = count + 1
        /\ Allocated = len + 1
    BY <1>3 DEF Alloc, Allocated
  <1>6. len \in Nat /\ DOMAIN slots = 1 .. len /\ slots = [s \in 1 .. len |-> slots[s]]
    BY <1>2, <1>3 DEF SlotsShape
  <1>7. slots \in Seq({slots[s] : s \in 1 .. len})
    BY <1>6
  <1>8. /\ DOMAIN slots' = 1 .. len + 1 /\ Len(slots') = len + 1 /\ SlotsShape'
        /\ slots'[len + 1] = item
        /\ \A s \in 1 .. len : slots'[s] = slots[s]
    BY <1>3, <1>5, <1>6, <1>7 DEF SlotsShape
  <1>9. /\ 1 .. len + 1 = 1 .. len \cup {len + 1} /\ len + 1 \notin 1 .. len /\ len + 1 \in Nat
    BY <1>6
  <1>10. Used' = DOMAIN slots' /\ DOMAIN slots' = Used \cup {len + 1}
    BY <1>1, <1>4, <1>6, <1>8, <1>9, ZenonT(30) DEF Used
  <1>11. count' = Cardinality(Used') /\ Len(slots') - count' = 0
    <2>1. Cardinality(Used \cup {len + 1}) = Cardinality(Used) + 1
      BY <1>1, <1>2, <1>6, <1>9, UsedCount
    <2>2. Used' = Used \cup {len + 1} /\ Cardinality(Used) = len
      BY <1>1, <1>2, <1>3, <1>10
    <2>3. count' = len + 1 /\ Len(slots') = len + 1
      BY <1>1, <1>3, <1>5, <1>8
    <2>4. Cardinality(Used') = len + 1
      BY <2>1, <2>2
    <2> QED BY <1>6, <2>3, <2>4
  <1>12. ArenaFreeList'
    <2>1. PICK chain : chain = [k \in 1 .. 0 |-> 0]
      OBVIOUS
    <2>2. chain \in [1 .. 0 -> DOMAIN slots']
      BY <2>1
    <2>3. IsFreeList(chain)'
      BY <1>5, <1>10, <1>11 DEF IsFreeList
    <2> QED BY <1>11, <2>2, <2>3 DEF ArenaFreeList
  <1> QED BY <1>1, <1>3, <1>5, <1>6, <1>8, <1>9, <1>10, <1>12 DEF Filled, Arena

LEMMA AllocFills ==
  ASSUME Arena, NEW light, Alloc(light)
  PROVE  Filled(light)
  BY AllocPops, AllocGrows

\* What free does to the slots.
Freed(x) ==
  /\ DOMAIN slots' = DOMAIN slots
  /\ slots'[x] = NextFree(free_head)
  /\ \A s \in DOMAIN slots : s # x => slots'[s] = slots[s]
  /\ Used' = Used \ {x}
  /\ Arena'

LEMMA FreeFrees ==
  ASSUME Arena, NEW x \in Used, NEW big, Free(x, big)
  PROVE  Freed(x)
  <1>1. /\ count \in 0 .. Len(slots) /\ Len(slots) \in Nat /\ SlotsShape
        /\ count = Cardinality(Used) /\ x \in DOMAIN slots
    BY ArenaFacts DEF Arena, ArenaFreeList, Used
  <1>2. PICK n : n = Len(slots) - count
    OBVIOUS
  <1>3. n \in Nat
    BY <1>1, <1>2
  <1>4. PICK item : item = NextFree(free_head)
    OBVIOUS
  <1>5. item.slot # "Item" /\ item.next = free_head
    BY <1>4 DEF NextFree
  <1>6. /\ slots' = [slots EXCEPT ![x] = item] /\ free_head' = x /\ count' = count - 1
    BY <1>4 DEF Free
  <1>7. /\ DOMAIN slots' = DOMAIN slots /\ Len(slots') = Len(slots) /\ SlotsShape'
        /\ slots'[x] = item
        /\ \A s \in DOMAIN slots : s # x => slots'[s] = slots[s]
    BY <1>1, <1>6, SlotSet
  <1>8. Used' = Used \ {x}
    BY <1>1, <1>5, <1>7 DEF Used
  <1>9. count' = Cardinality(Used')
    <2>1. Cardinality(Used \ {x}) = Cardinality(Used) - 1
      BY <1>1, UsedCount
    <2> QED BY <1>1, <1>6, <1>8, <2>1
  <1>10. Len(slots') - count' = n + 1
    BY <1>1, <1>2, <1>6, <1>7
  <1>11. PICK chain \in [1 .. n -> DOMAIN slots] : IsFreeList(chain)
    BY <1>2 DEF Arena, ArenaFreeList
  <1>12. /\ \A k \in 1 .. n : /\ chain[k] \notin Used
                              /\ slots[chain[k]].next = IF k = n THEN Nil ELSE chain[k + 1]
         /\ \A s \in DOMAIN slots \ Used : \E k \in 1 .. n : chain[k] = s
         /\ \A k, l \in 1 .. n : chain[k] = chain[l] => k = l
         /\ free_head = IF n = 0 THEN Nil ELSE chain[1]
    BY <1>2, <1>3, <1>11 DEF IsFreeList
  <1>13. PICK more : more = [k \in 1 .. n + 1 |-> IF k = 1 THEN x ELSE chain[k - 1]]
    OBVIOUS
  <1>14. \A k \in 1 .. n + 1 : k # 1 => more[k] = chain[k - 1] /\ k - 1 \in 1 .. n
    BY <1>3, <1>13
  <1>15. more[1] = x /\ 1 \in 1 .. n + 1
    BY <1>3, <1>13
  <1>16. \A k \in 1 .. n : chain[k] # x /\ chain[k] \in DOMAIN slots
    BY <1>11, <1>12
  <1>17. more \in [1 .. n + 1 -> DOMAIN slots']
    <2>1. \A k \in 1 .. n + 1 : more[k] \in DOMAIN slots'
      BY <1>1, <1>7, <1>14, <1>15, <1>16
    <2> QED BY <1>13, <2>1
  <1>18. IsFreeList(more)'
    <2>1. \A k \in 1 .. n + 1 :
            /\ more[k] \notin Used'
            /\ slots'[more[k]].next = IF k = n + 1 THEN Nil ELSE more[k + 1]
      <3> SUFFICES ASSUME NEW k \in 1 .. n + 1
                   PROVE  /\ more[k] \notin Used'
                          /\ slots'[more[k]].next = IF k = n + 1 THEN Nil ELSE more[k + 1]
        OBVIOUS
      <3>1. CASE k = 1
        <4>1. slots'[more[k]].next = free_head /\ more[k] \notin Used'
          BY <1>5, <1>7, <1>8, <1>15, <3>1
        <4>2. CASE n = 0
          BY <1>12, <3>1, <4>1, <4>2
        <4>3. CASE n # 0
          <5>1. 2 \in 1 .. n + 1 /\ k # n + 1 /\ k + 1 = 2 /\ 2 # 1 /\ 2 - 1 = 1
            BY <1>3, <3>1, <4>3
          <5>2. more[k + 1] = chain[1]
            BY <1>14, <5>1
          <5> QED BY <1>12, <4>1, <4>3, <5>1, <5>2
        <4> QED BY <4>2, <4>3
      <3>2. CASE k # 1
        <4>1. PICK j : j = k - 1
          OBVIOUS
        <4>2. j \in 1 .. n /\ more[k] = chain[j] /\ (k = n + 1 <=> j = n) /\ j + 1 = k
          BY <1>3, <1>14, <3>2, <4>1
        <4>3. slots'[more[k]] = slots[chain[j]] /\ more[k] \notin Used'
          BY <1>7, <1>8, <1>12, <1>16, <4>2
        <4>4. slots[chain[j]].next = IF j = n THEN Nil ELSE chain[j + 1]
          BY <1>12, <4>2
        <4>5. j # n => more[k + 1] = chain[j + 1]
          <5>1. j # n => k + 1 \in 1 .. n + 1 /\ k + 1 # 1 /\ k + 1 - 1 = j + 1
            BY <1>3, <4>2
          <5> QED BY <1>14, <5>1
        <4> QED BY <4>2, <4>3, <4>4, <4>5
      <3> QED BY <3>1, <3>2
    <2>2. \A s \in DOMAIN slots' \ Used' : \E k \in 1 .. n + 1 : more[k] = s
      <3> SUFFICES ASSUME NEW s \in DOMAIN slots' \ Used', s # x
                   PROVE  \E k \in 1 .. n + 1 : more[k] = s
        BY <1>15
      <3>1. PICK k \in 1 .. n : chain[k] = s
        BY <1>7, <1>8, <1>12
      <3>2. k + 1 \in 1 .. n + 1 /\ k + 1 # 1 /\ k + 1 - 1 = k
        BY <1>3
      <3> QED BY <1>14, <3>1, <3>2
    <2>3. \A k, l \in 1 .. n + 1 : more[k] = more[l] => k = l
      <3>1. \A k \in 1 .. n + 1 : more[k] = x => k = 1
        BY <1>14, <1>16
      <3>2. \A k, l \in 1 .. n + 1 : k # 1 /\ l # 1 /\ more[k] = more[l] => k - 1 = l - 1
        BY <1>12, <1>14
      <3>3. \A k, l \in 1 .. n + 1 : k - 1 = l - 1 => k = l
        BY <1>3
      <3> QED BY <1>15, <3>1, <3>2, <3>3
    <2>4. free_head' = IF n + 1 = 0 THEN Nil ELSE more[1]
      BY <1>3, <1>6, <1>15
    <2> QED BY <1>10, <2>1, <2>2, <2>3, <2>4 DEF IsFreeList
  <1>19. Arena'
    BY <1>7, <1>9, <1>10, <1>17, <1>18 DEF Arena, ArenaFreeList
  <1> QED BY <1>4, <1>7, <1>8, <1>19 DEF Freed

\* An Overflow is changed in place.
Rewritten(x, light, big) ==
  /\ DOMAIN slots' = DOMAIN slots
  /\ slots'[x] = Item(light, big)
  /\ \A s \in DOMAIN slots : s # x => slots'[s] = slots[s]
  /\ Used' = Used
  /\ Arena'

LEMMA SetRewrites ==
  ASSUME Arena, NEW x \in Used, NEW light, NEW big,
         slots' = [slots EXCEPT ![x] = Item(light, big)],
         UNCHANGED <<free_head, count>>
  PROVE  Rewritten(x, light, big)
  <1>1. /\ count \in 0 .. Len(slots) /\ Len(slots) \in Nat /\ SlotsShape
        /\ count = Cardinality(Used) /\ x \in DOMAIN slots
    BY ArenaFacts DEF Arena, ArenaFreeList, Used
  <1>2. PICK n : n = Len(slots) - count
    OBVIOUS
  <1>3. PICK item : item = Item(light, big)
    OBVIOUS
  <1>4. item.slot = "Item" /\ slots' = [slots EXCEPT ![x] = item]
    BY <1>3 DEF Item
  <1>5. /\ DOMAIN slots' = DOMAIN slots /\ Len(slots') = Len(slots) /\ SlotsShape'
        /\ slots'[x] = item
        /\ \A s \in DOMAIN slots : s # x => slots'[s] = slots[s]
    BY <1>1, <1>4, SlotSet
  <1>6. Used' = Used
    BY <1>1, <1>4, <1>5 DEF Used
  <1>7. PICK chain \in [1 .. n -> DOMAIN slots] : IsFreeList(chain)
    BY <1>2 DEF Arena, ArenaFreeList
  <1>8. Len(slots') - count' = n /\ count' = Cardinality(Used')
    BY <1>1, <1>2, <1>5, <1>6
  <1>9. \A k \in 1 .. n : chain[k] \notin Used /\ slots'[chain[k]] = slots[chain[k]]
    <2>1. \A k \in 1 .. n : chain[k] \notin Used /\ chain[k] \in DOMAIN slots
      BY <1>2, <1>7 DEF IsFreeList
    <2> QED BY <1>5, <2>1
  <1>10. IsFreeList(chain)'
    BY <1>2, <1>5, <1>6, <1>7, <1>8, <1>9 DEF IsFreeList
  <1>11. Arena'
    BY <1>5, <1>7, <1>8, <1>10 DEF Arena, ArenaFreeList
  <1> QED BY <1>3, <1>5, <1>6, <1>11 DEF Rewritten

-----------------------------------------------------------------------------
(* The inductive invariant.                                                *)

FreeTyped ==
  \A s \in DOMAIN slots \ Used :
    slots[s] = NextFree(slots[s].next) /\ slots[s].next \in Nat \cup {Nil}

ListsTyped ==
  /\ DOMAIN node \subseteq Owners
  /\ \A o \in DOMAIN node :
       /\ node[o] = Node(node[o].childs, node[o].overflow_idx)
       /\ node[o].childs \in Seq(Pairs) /\ Len(node[o].childs) <= ChildsSize
       /\ node[o].overflow_idx \in Used \cup {Nil}
  /\ \A s \in Used :
       /\ slots[s] = Item(slots[s].light, slots[s].big_overflow_idx)
       /\ slots[s].light \in Seq(Pairs) /\ Len(slots[s].light) <= LightSize
       /\ slots[s].big_overflow_idx \in DOMAIN huge \cup {Nil}
  /\ FreeTyped
  /\ IsFiniteSet(DOMAIN huge) /\ DOMAIN huge \subseteq Nat
  /\ \A h \in DOMAIN huge : huge[h] \in Seq(Pairs) /\ Len(huge[h]) <= HugeCapacity

\* The indices are injective, and reach every list in use.
IndicesInjective ==
  /\ \A o, p \in DOMAIN node :
       node[o].overflow_idx = node[p].overflow_idx => o = p \/ node[o].overflow_idx = Nil
  /\ \A s \in Used : \E o \in DOMAIN node : node[o].overflow_idx = s
  /\ \A s, t \in Used : slots[s].big_overflow_idx = slots[t].big_overflow_idx =>
       s = t \/ slots[s].big_overflow_idx = Nil
  /\ \A h \in DOMAIN huge : \E s \in Used : slots[s].big_overflow_idx = h

NoneEmpty ==
  /\ \A s \in Used : slots[s].light # <<>> \/ slots[s].big_overflow_idx # Nil
  /\ \A h \in DOMAIN huge : huge[h] # <<>>

RadixesDistinct == \A o \in DOMAIN node : Distinct(node[o].childs, Light(o), Huge(o))

ListInv == Arena /\ ListsTyped /\ IndicesInjective /\ NoneEmpty /\ RadixesDistinct

LEMMA ListsAre ==
  ASSUME ListsTyped, NEW o \in DOMAIN node
  PROVE  /\ node[o].childs \in Seq(Pairs) /\ Light(o) \in Seq(Pairs) /\ Huge(o) \in Seq(Pairs)
         /\ node[o].overflow_idx # Nil =>
              /\ node[o].overflow_idx \in Used
              /\ Light(o) = Overflow(o).light
              /\ Overflow(o).big_overflow_idx # Nil =>
                   /\ Overflow(o).big_overflow_idx \in DOMAIN huge
                   /\ Huge(o) = huge[Overflow(o).big_overflow_idx]
              /\ Overflow(o).big_overflow_idx = Nil => Huge(o) = <<>>
         /\ node[o].overflow_idx = Nil => Light(o) = <<>> /\ Huge(o) = <<>>
  <1>1. <<>> \in Seq(Pairs)
    BY EmptyList
  <1> QED BY <1>1 DEF ListsTyped, Light, Huge, Overflow

LEMMA AtFacts ==
  ASSUME NEW s \in Seq(Pairs), NEW r, Lists(s, r)
  PROVE  \E e \in Range(s) : e[1] = r /\ At(s, r) = e[2] /\ e[2] \in Idxs
  <1>1. PICK p : p = Position(s, r)
    OBVIOUS
  <1>2. p \in DOMAIN s /\ s[p][1] = r
    BY <1>1 DEF Position, Lists
  <1>3. s[p] \in Range(s) /\ s[p] \in Pairs
    BY <1>2 DEF Range
  <1>4. At(s, r) = s[p][2]
    BY <1>1 DEF At
  <1> QED BY <1>2, <1>3, <1>4 DEF Pairs

LEMMA ChildrenAre ==
  ASSUME NEW o
  PROVE  Children(o) = AsFunction(Together(node[o].childs, Light(o), Huge(o)))
  BY DEF Children, AsFunction, Together, Entries

LEMMA FindFinds ==
  ASSUME ListInv, NEW o \in DOMAIN node, NEW r
  PROVE  /\ Find(o, r) = IF r \in DOMAIN Children(o) THEN Children(o)[r] ELSE Nil
         /\ Find(o, r) = Nil <=> /\ ~Lists(node[o].childs, r)
                                 /\ ~Lists(Light(o), r) /\ ~Lists(Huge(o), r)
  <1>1. PICK C, L, H : C = node[o].childs /\ L = Light(o) /\ H = Huge(o)
    OBVIOUS
  <1>2. C \in Seq(Pairs) /\ L \in Seq(Pairs) /\ H \in Seq(Pairs) /\ Distinct(C, L, H)
    BY <1>1, ListsAre DEF ListInv, RadixesDistinct
  <1>3. PICK E : E = Together(C, L, H)
    OBVIOUS
  <1>4. IsFunctional(E) /\ Children(o) = AsFunction(E)
    BY <1>1, <1>2, <1>3, DistinctFunctional, ChildrenAre
  <1>5. DOMAIN AsFunction(E) = {e[1] : e \in E}
    BY DEF AsFunction
  <1>6. Find(o, r) = IF Lists(C, r) THEN At(C, r) ELSE IF Lists(L, r) THEN At(L, r) ELSE At(H, r)
    BY <1>1 DEF Find
  <1>7. ASSUME NEW s \in {C, L, H}, Lists(s, r)
        PROVE  r \in DOMAIN AsFunction(E) /\ At(s, r) = AsFunction(E)[r] /\ At(s, r) # Nil
    <2>1. PICK e \in Range(s) : e[1] = r /\ At(s, r) = e[2] /\ e[2] \in Idxs
      BY <1>2, <1>7, AtFacts
    <2>2. e \in E
      BY <1>3, <1>7, <2>1 DEF Together
    <2> QED BY <1>4, <2>1, <2>2, FunctionValue, ChildListsAssumption
  <1>8. CASE Lists(C, r)
    BY <1>1, <1>4, <1>6, <1>7, <1>8
  <1>9. CASE ~Lists(C, r) /\ Lists(L, r)
    BY <1>1, <1>4, <1>6, <1>7, <1>9
  <1>10. CASE ~Lists(C, r) /\ ~Lists(L, r) /\ Lists(H, r)
    BY <1>1, <1>4, <1>6, <1>7, <1>10
  <1>11. CASE ~Lists(C, r) /\ ~Lists(L, r) /\ ~Lists(H, r)
    <2>1. \A s \in Seq(Pairs) : \A e \in Range(s) : Lists(s, e[1])
      BY ListFacts
    <2>2. r \notin {e[1] : e \in E}
      BY <1>2, <1>3, <1>11, <2>1 DEF Together
    <2>3. Find(o, r) = Nil
      BY <1>6, <1>11 DEF At
    <2> QED BY <1>1, <1>4, <1>5, <1>11, <2>2, <2>3
  <1> QED BY <1>8, <1>9, <1>10, <1>11

LEMMA InvImplies ==
  ASSUME ListInv
  PROVE  TypeOK /\ ListsOwned /\ ArenaFreeList /\ FindAgrees
  <1>1. ArenaFreeList
    BY DEF ListInv, Arena
  <1>2. ListsOwned
    <2>1. ASSUME NEW s \in Used
          PROVE  \E o \in DOMAIN node : \A p \in DOMAIN node : node[p].overflow_idx = s <=> p = o
      <3>1. PICK o \in DOMAIN node : node[o].overflow_idx = s
        BY DEF ListInv, IndicesInjective
      <3>2. s # Nil
        BY ChildListsAssumption DEF ListInv, Arena, SlotsShape, Used
      <3> QED BY <3>1, <3>2 DEF ListInv, IndicesInjective
    <2>2. ASSUME NEW h \in DOMAIN huge
          PROVE  \E s \in Used : \A t \in Used : slots[t].big_overflow_idx = h <=> t = s
      <3>1. PICK s \in Used : slots[s].big_overflow_idx = h
        BY DEF ListInv, IndicesInjective
      <3>2. h # Nil
        BY ChildListsAssumption DEF ListInv, ListsTyped
      <3> QED BY <3>1, <3>2 DEF ListInv, IndicesInjective
    <2> QED BY <2>1, <2>2 DEF ListsOwned, ListInv, NoneEmpty
  <1>3. FindAgrees
    BY FindFinds DEF FindAgrees, ListInv, RadixesDistinct, Distinct
  <1>4. TypeOK
    <2>1. PICK T : T = [slot : {"Item"}, light : Seq(Pairs), big_overflow_idx : DOMAIN huge \cup {Nil}]
                         \cup [slot : {"NextFree"}, next : Nat \cup {Nil}]
      OBVIOUS
    <2>2. ASSUME NEW s \in DOMAIN slots PROVE slots[s] \in T
      <3>1. CASE s \in Used
        <4>1. PICK light \in Seq(Pairs), big \in DOMAIN huge \cup {Nil} : slots[s] = Item(light, big)
          BY <3>1 DEF ListInv, ListsTyped
        <4>2. Item(light, big) \in [slot : {"Item"}, light : Seq(Pairs),
                                    big_overflow_idx : DOMAIN huge \cup {Nil}]
          BY DEF Item
        <4> QED BY <2>1, <4>1, <4>2
      <3>2. CASE s \notin Used
        BY <2>1, <2>2, <3>2 DEF ListInv, ListsTyped, FreeTyped, NextFree
      <3> QED BY <3>1, <3>2
    <2>3. slots \in Seq(T)
      BY <2>2 DEF ListInv, Arena, SlotsShape
    <2> QED BY <2>1, <2>3 DEF TypeOK, ListInv, ListsTyped, ListOf, Pairs
  <1> QED BY <1>1, <1>2, <1>3, <1>4

LEMMA InitLists == Init => ListInv
  <1> SUFFICES ASSUME Init PROVE ListInv
    OBVIOUS
  <1>1. /\ DOMAIN node = {} /\ slots = <<>> /\ free_head = Nil /\ count = 0 /\ DOMAIN huge = {}
    BY DEF Init
  <1>2. SlotsShape /\ Len(slots) = 0 /\ Used = {} /\ DOMAIN slots = {}
    BY <1>1 DEF SlotsShape, Used
  <1>3. ArenaFreeList
    <2>1. PICK chain : chain = [k \in 1 .. 0 |-> 0]
      OBVIOUS
    <2>2. chain \in [1 .. Len(slots) - count -> DOMAIN slots] /\ Len(slots) - count = 0
      BY <1>1, <1>2, <2>1
    <2>3. IsFreeList(chain)
      BY <1>1, <1>2, <2>2 DEF IsFreeList
    <2> QED BY <1>1, <1>2, <2>2, <2>3, FS_EmptySet DEF ArenaFreeList
  <1> QED BY <1>1, <1>2, <1>3, FS_EmptySet
       DEF ListInv, Arena, ListsTyped, FreeTyped, IndicesInjective, NoneEmpty, RadixesDistinct

-----------------------------------------------------------------------------
(* One node's lists are replaced.                                          *)

Big(o) == IF node[o].overflow_idx = Nil THEN Nil ELSE Overflow(o).big_overflow_idx

\* Lists that a node may have.
WellFormed(C, i, L, b, H) ==
  /\ C \in Seq(Pairs) /\ Len(C) <= ChildsSize
  /\ L \in Seq(Pairs) /\ Len(L) <= LightSize
  /\ H \in Seq(Pairs) /\ Len(H) <= HugeCapacity
  /\ Distinct(C, L, H)
  /\ IF i = Nil THEN L = <<>> /\ b = Nil ELSE L # <<>> \/ b # Nil
  /\ IF b = Nil THEN H = <<>> ELSE H # <<>> /\ b \in Nat

\* The step gives o these lists, in slot i and in the HugeOverflow b, and
\* leaves all others alone.
Relists(o, C, i, L, b, H) ==
  /\ DOMAIN node' = DOMAIN node /\ node'[o] = Node(C, i)
  /\ \A p \in DOMAIN node \ {o} : node'[p] = node[p]
  /\ Used' = (Used \ {node[o].overflow_idx}) \cup ({i} \ {Nil})
  /\ i \notin Used \ {node[o].overflow_idx}
  /\ i # Nil => slots'[i] = Item(L, b)
  /\ \A s \in Used \ {node[o].overflow_idx} : slots'[s] = slots[s]
  /\ DOMAIN huge' = (DOMAIN huge \ {Big(o)}) \cup ({b} \ {Nil})
  /\ b \notin DOMAIN huge \ {Big(o)}
  /\ b # Nil => huge'[b] = H
  /\ \A h \in DOMAIN huge \ {Big(o)} : huge'[h] = huge[h]
  /\ Arena' /\ FreeTyped'

\* What the step leaves of the lists.
Shows(o, C, L, H) ==
  /\ DOMAIN node' = DOMAIN node
  /\ node'[o].childs = C /\ Light(o)' = L /\ Huge(o)' = H
  /\ \A p \in DOMAIN node \ {o} :
       node'[p].childs = node[p].childs /\ Light(p)' = Light(p) /\ Huge(p)' = Huge(p)

LEMMA NilApart ==
  ASSUME ListInv
  PROVE  Nil \notin Used /\ Nil \notin DOMAIN huge
  BY ChildListsAssumption DEF ListInv, Arena, SlotsShape, Used, ListsTyped

\* No other node has the slot or the HugeOverflow of o.
LEMMA OthersApart ==
  ASSUME ListInv, NEW o \in DOMAIN node
  PROVE  /\ node[o].overflow_idx \in Used \cup {Nil}
         /\ Big(o) \in DOMAIN huge \cup {Nil}
         /\ \A p \in DOMAIN node \ {o} :
              node[p].overflow_idx # Nil => node[p].overflow_idx \in Used \ {node[o].overflow_idx}
         /\ \A s \in Used \ {node[o].overflow_idx} :
              slots[s].big_overflow_idx # Nil => slots[s].big_overflow_idx \in DOMAIN huge \ {Big(o)}
  <1>1. node[o].overflow_idx \in Used \cup {Nil} /\ Big(o) \in DOMAIN huge \cup {Nil}
    BY DEF ListInv, ListsTyped, Big, Overflow
  <1>2. ASSUME NEW p \in DOMAIN node \ {o}, node[p].overflow_idx # Nil
        PROVE  node[p].overflow_idx \in Used \ {node[o].overflow_idx}
    BY <1>2 DEF ListInv, ListsTyped, IndicesInjective
  <1>3. ASSUME NEW s \in Used \ {node[o].overflow_idx}, slots[s].big_overflow_idx # Nil
        PROVE  slots[s].big_overflow_idx \in DOMAIN huge \ {Big(o)}
    <2>1. slots[s].big_overflow_idx \in DOMAIN huge
      BY <1>3 DEF ListInv, ListsTyped
    <2>2. slots[s].big_overflow_idx # Big(o)
      <3>1. CASE node[o].overflow_idx = Nil
        BY <1>3, <3>1 DEF Big
      <3>2. CASE node[o].overflow_idx # Nil
        BY <1>1, <1>3, <3>2 DEF Big, Overflow, ListInv, IndicesInjective
      <3> QED BY <3>1, <3>2
    <2> QED BY <2>1, <2>2
  <1> QED BY <1>1, <1>2, <1>3

LEMMA RelistsShows ==
  ASSUME ListInv, NEW o \in DOMAIN node, NEW C, NEW i, NEW L, NEW b, NEW H,
         WellFormed(C, i, L, b, H), Relists(o, C, i, L, b, H)
  PROVE  Shows(o, C, L, H)
  <1>1. DOMAIN node' = DOMAIN node /\ node'[o] = Node(C, i)
    BY DEF Relists
  <1>2. node'[o].childs = C /\ node'[o].overflow_idx = i
    BY <1>1 DEF Node
  <1>3. Light(o)' = L /\ Huge(o)' = H
    <2>1. CASE i = Nil
      BY <1>2, <2>1 DEF Light, Huge, WellFormed
    <2>2. CASE i # Nil
      <3>1. slots'[i].light = L /\ slots'[i].big_overflow_idx = b
        BY <2>2 DEF Relists, Item
      <3>2. Light(o)' = L
        BY <1>2, <2>2, <3>1 DEF Light, Overflow
      <3>3. Huge(o)' = IF b = Nil THEN <<>> ELSE huge'[b]
        BY <1>2, <2>2, <3>1 DEF Huge, Overflow
      <3> QED BY <3>2, <3>3 DEF WellFormed, Relists
    <2> QED BY <2>1, <2>2
  <1>4. ASSUME NEW p \in DOMAIN node \ {o}
        PROVE  node'[p] = node[p] /\ Light(p)' = Light(p) /\ Huge(p)' = Huge(p)
    <2>1. node'[p] = node[p]
      BY DEF Relists
    <2>2. CASE node[p].overflow_idx = Nil
      BY <2>1, <2>2 DEF Light, Huge
    <2>3. CASE node[p].overflow_idx # Nil
      <3>1. PICK s : s = node[p].overflow_idx
        OBVIOUS
      <3>2. s \in Used \ {node[o].overflow_idx} /\ node'[p].overflow_idx = s /\ s # Nil
        BY <2>1, <2>3, <3>1, OthersApart
      <3>3. slots'[s] = slots[s]
        BY <3>2 DEF Relists
      <3>4. Light(p)' = Light(p)
        BY <3>1, <3>2, <3>3 DEF Light, Overflow
      <3>5. slots[s].big_overflow_idx # Nil =>
              huge'[slots[s].big_overflow_idx] = huge[slots[s].big_overflow_idx]
        BY <3>2, OthersApart DEF Relists
      <3>6. Huge(p)' = Huge(p)
        BY <3>1, <3>2, <3>3, <3>5 DEF Huge, Overflow
      <3> QED BY <2>1, <3>4, <3>6
    <2> QED BY <2>2, <2>3
  <1> QED BY <1>1, <1>2, <1>3, <1>4 DEF Shows

LEMMA RelistsKeeps ==
  ASSUME ListInv, NEW o \in DOMAIN node, NEW C, NEW i, NEW L, NEW b, NEW H,
         WellFormed(C, i, L, b, H), Relists(o, C, i, L, b, H)
  PROVE  ListInv'
  <1>1. PICK x, y : x = node[o].overflow_idx /\ y = Big(o)
    OBVIOUS
  <1>2. /\ DOMAIN node' = DOMAIN node /\ node'[o].childs = C /\ node'[o].overflow_idx = i
        /\ node'[o] = Node(C, i)
        /\ \A p \in DOMAIN node \ {o} : node'[p] = node[p]
    BY DEF Relists, Node
  <1>3. /\ Used' = (Used \ {x}) \cup ({i} \ {Nil}) /\ i \notin Used \ {x}
        /\ \A s \in Used \ {x} : slots'[s] = slots[s]
        /\ DOMAIN huge' = (DOMAIN huge \ {y}) \cup ({b} \ {Nil}) /\ b \notin DOMAIN huge \ {y}
        /\ b # Nil => huge'[b] = H
        /\ \A h \in DOMAIN huge \ {y} : huge'[h] = huge[h]
        /\ Arena' /\ FreeTyped'
    BY <1>1 DEF Relists
  <1>4. i # Nil => /\ slots'[i] = Item(L, b)
                   /\ slots'[i].light = L /\ slots'[i].big_overflow_idx = b
    BY DEF Relists, Item
  <1>5. /\ x \in Used \cup {Nil} /\ y \in DOMAIN huge \cup {Nil}
        /\ \A p \in DOMAIN node \ {o} : node[p].overflow_idx \in (Used \ {x}) \cup {Nil}
        /\ \A s \in Used \ {x} : slots[s].big_overflow_idx \in (DOMAIN huge \ {y}) \cup {Nil}
    BY <1>1, OthersApart
  <1>6. ListsTyped'
    <2>1. DOMAIN node' \subseteq Owners
      BY <1>2 DEF ListInv, ListsTyped
    <2>2. ASSUME NEW p \in DOMAIN node'
          PROVE  /\ node'[p] = Node(node'[p].childs, node'[p].overflow_idx)
                 /\ node'[p].childs \in Seq(Pairs) /\ Len(node'[p].childs) <= ChildsSize
                 /\ node'[p].overflow_idx \in Used' \cup {Nil}
      <3>1. CASE p = o
        BY <1>2, <1>3, <3>1 DEF WellFormed
      <3>2. CASE p # o
        <4>1. p \in DOMAIN node \ {o} /\ node'[p] = node[p]
          BY <1>2, <3>2
        <4> QED BY <1>3, <1>5, <4>1 DEF ListInv, ListsTyped
      <3> QED BY <3>1, <3>2
    <2>3. ASSUME NEW s \in Used'
          PROVE  /\ slots'[s] = Item(slots'[s].light, slots'[s].big_overflow_idx)
                 /\ slots'[s].light \in Seq(Pairs) /\ Len(slots'[s].light) <= LightSize
                 /\ slots'[s].big_overflow_idx \in DOMAIN huge' \cup {Nil}
      <3>1. CASE s = i
        <4>1. i # Nil
          BY <1>3, <1>5, <3>1, NilApart
        <4> QED BY <1>3, <1>4, <3>1, <4>1 DEF WellFormed
      <3>2. CASE s # i
        <4>1. s \in Used \ {x} /\ slots'[s] = slots[s]
          BY <1>3, <3>2
        <4> QED BY <1>3, <1>5, <4>1 DEF ListInv, ListsTyped
      <3> QED BY <3>1, <3>2
    <2>4. IsFiniteSet(DOMAIN huge') /\ DOMAIN huge' \subseteq Nat
      <3>1. IsFiniteSet(DOMAIN huge) /\ DOMAIN huge \subseteq Nat /\ b \in Nat \cup {Nil}
        BY DEF ListInv, ListsTyped, WellFormed
      <3>2. IsFiniteSet(DOMAIN huge \cup {b})
        BY <3>1, FS_AddElement
      <3>3. DOMAIN huge' \in SUBSET (DOMAIN huge \cup {b})
        BY <1>3
      <3> QED BY <1>3, <3>1, <3>2, <3>3, FS_Subset
    <2>5. ASSUME NEW h \in DOMAIN huge'
          PROVE  huge'[h] \in Seq(Pairs) /\ Len(huge'[h]) <= HugeCapacity
      <3>1. CASE h = b
        <4>1. b # Nil
          BY <1>3, <1>5, <3>1, NilApart
        <4> QED BY <1>3, <3>1, <4>1 DEF WellFormed
      <3>2. CASE h # b
        BY <1>3, <3>2 DEF ListInv, ListsTyped
      <3> QED BY <3>1, <3>2
    <2> QED BY <1>3, <2>1, <2>2, <2>3, <2>4, <2>5 DEF ListsTyped
  <1>7. IndicesInjective'
    <2>1. ASSUME NEW p \in DOMAIN node', NEW q \in DOMAIN node',
                 node'[p].overflow_idx = node'[q].overflow_idx, p # q
          PROVE  node'[p].overflow_idx = Nil
      <3>1. CASE p # o /\ q # o
        BY <1>2, <2>1, <3>1 DEF ListInv, IndicesInjective
      <3>2. CASE p = o
        BY <1>2, <1>3, <1>5, <2>1, <3>2
      <3>3. CASE q = o
        BY <1>2, <1>3, <1>5, <2>1, <3>3
      <3> QED BY <3>1, <3>2, <3>3
    <2>2. ASSUME NEW s \in Used'
          PROVE  \E p \in DOMAIN node' : node'[p].overflow_idx = s
      <3>1. CASE s = i
        BY <1>2, <3>1
      <3>2. CASE s # i
        <4>1. s \in Used \ {x}
          BY <1>3, <3>2
        <4>2. PICK p \in DOMAIN node : node[p].overflow_idx = s
          BY <4>1 DEF ListInv, IndicesInjective
        <4>3. p # o
          BY <1>1, <4>1, <4>2
        <4> QED BY <1>2, <4>2, <4>3
      <3> QED BY <3>1, <3>2
    <2>3. ASSUME NEW s \in Used', NEW t \in Used', s # t,
                 slots'[s].big_overflow_idx = slots'[t].big_overflow_idx
          PROVE  slots'[s].big_overflow_idx = Nil
      <3>1. CASE s # i /\ t # i
        <4>1. s \in Used \ {x} /\ t \in Used \ {x} /\ slots'[s] = slots[s] /\ slots'[t] = slots[t]
          BY <1>3, <3>1
        <4> QED BY <2>3, <4>1 DEF ListInv, IndicesInjective
      <3>2. CASE s = i
        <4>1. i # Nil /\ t \in Used \ {x} /\ slots'[t] = slots[t]
          BY <1>3, <2>3, <3>2, NilApart
        <4> QED BY <1>3, <1>4, <1>5, <2>3, <3>2, <4>1
      <3>3. CASE t = i
        <4>1. i # Nil /\ s \in Used \ {x} /\ slots'[s] = slots[s]
          BY <1>3, <2>3, <3>3, NilApart
        <4> QED BY <1>3, <1>4, <1>5, <2>3, <3>3, <4>1
      <3> QED BY <3>1, <3>2, <3>3
    <2>4. ASSUME NEW h \in DOMAIN huge'
          PROVE  \E s \in Used' : slots'[s].big_overflow_idx = h
      <3>1. CASE h = b
        <4>1. b # Nil
          BY <1>3, <3>1, NilApart
        <4>2. i # Nil
          BY <4>1 DEF WellFormed
        <4> QED BY <1>3, <1>4, <3>1, <4>2
      <3>2. CASE h # b
        <4>1. h \in DOMAIN huge /\ h # y
          BY <1>3, <3>2
        <4>2. PICK s \in Used : slots[s].big_overflow_idx = h
          BY <4>1 DEF ListInv, IndicesInjective
        <4>3. s # x
          BY <1>1, <4>1, <4>2, NilApart DEF Big, Overflow
        <4> QED BY <1>3, <4>2, <4>3
      <3> QED BY <3>1, <3>2
    <2> QED BY <2>1, <2>2, <2>3, <2>4 DEF IndicesInjective
  <1>8. NoneEmpty'
    <2>1. ASSUME NEW s \in Used'
          PROVE  slots'[s].light # <<>> \/ slots'[s].big_overflow_idx # Nil
      <3>1. CASE s = i
        <4>1. i # Nil
          BY <1>3, <3>1, NilApart
        <4> QED BY <1>4, <3>1, <4>1 DEF WellFormed
      <3>2. CASE s # i
        BY <1>3, <3>2 DEF ListInv, NoneEmpty
      <3> QED BY <3>1, <3>2
    <2>2. ASSUME NEW h \in DOMAIN huge' PROVE huge'[h] # <<>>
      <3>1. CASE h = b
        <4>1. b # Nil
          BY <1>3, <3>1, NilApart
        <4> QED BY <1>3, <3>1, <4>1 DEF WellFormed
      <3>2. CASE h # b
        BY <1>3, <3>2 DEF ListInv, NoneEmpty
      <3> QED BY <3>1, <3>2
    <2> QED BY <2>1, <2>2 DEF NoneEmpty
  <1>9. RadixesDistinct'
    <2>1. Shows(o, C, L, H)
      BY RelistsShows
    <2>2. ASSUME NEW p \in DOMAIN node' PROVE Distinct(node'[p].childs, Light(p)', Huge(p)')
      <3>1. CASE p = o
        BY <2>1, <3>1 DEF Shows, WellFormed
      <3>2. CASE p # o
        <4>1. Distinct(node[p].childs, Light(p), Huge(p))
          BY <1>2, <2>2 DEF ListInv, RadixesDistinct
        <4> QED BY <1>2, <2>1, <3>2, <4>1 DEF Shows
      <3> QED BY <3>1, <3>2
    <2> QED BY <2>2 DEF RadixesDistinct
  <1> QED BY <1>3, <1>6, <1>7, <1>8, <1>9 DEF ListInv

\* A radix that no list names may be added to any of them.
LEMMA DistinctGrows ==
  ASSUME NEW C \in Seq(Pairs), NEW L \in Seq(Pairs), NEW H \in Seq(Pairs), Distinct(C, L, H),
         NEW e \in Pairs, ~Lists(C, e[1]), ~Lists(L, e[1]), ~Lists(H, e[1])
  PROVE  /\ Distinct(Append(C, e), L, H) /\ Distinct(C, Append(L, e), H)
         /\ Distinct(C, L, Append(H, e))
         /\ Together(Append(C, e), L, H) = Together(C, L, H) \cup {e}
         /\ Together(C, Append(L, e), H) = Together(C, L, H) \cup {e}
         /\ Together(C, L, Append(H, e)) = Together(C, L, H) \cup {e}
  <1>1. \A s \in Seq(Pairs) : Range(Append(s, e)) = Range(s) \cup {e}
    BY AppendFacts
  <1>2. \A s \in {C, L, H} : Once(Append(s, e))
    BY AppendFacts DEF Distinct
  <1>3. \A s \in {C, L, H} : \A f \in Range(s) : f[1] # e[1]
    BY ListFacts
  <1>4. Distinct(Append(C, e), L, H)
    BY <1>1, <1>2, <1>3 DEF Distinct, Apart
  <1>5. Distinct(C, Append(L, e), H)
    BY <1>1, <1>2, <1>3 DEF Distinct, Apart
  <1>6. Distinct(C, L, Append(H, e))
    BY <1>1, <1>2, <1>3 DEF Distinct, Apart
  <1> QED BY <1>1, <1>4, <1>5, <1>6 DEF Together

\* The list that names a radix loses it, and no other names it.
LEMMA DistinctShrinks ==
  ASSUME NEW C \in Seq(Pairs), NEW L \in Seq(Pairs), NEW H \in Seq(Pairs), Distinct(C, L, H),
         NEW r
  PROVE  /\ Lists(C, r) =>
              /\ Distinct(SwapRemove(C, r), L, H)
              /\ Together(SwapRemove(C, r), L, H) = {e \in Together(C, L, H) : e[1] # r}
         /\ Lists(L, r) =>
              /\ Distinct(C, SwapRemove(L, r), H)
              /\ Together(C, SwapRemove(L, r), H) = {e \in Together(C, L, H) : e[1] # r}
         /\ Lists(H, r) =>
              /\ Distinct(C, L, SwapRemove(H, r))
              /\ Together(C, L, SwapRemove(H, r)) = {e \in Together(C, L, H) : e[1] # r}
  <1>1. ASSUME NEW s \in {C, L, H}, Lists(s, r)
        PROVE  /\ Range(SwapRemove(s, r)) = {e \in Range(s) : e[1] # r}
               /\ Once(SwapRemove(s, r))
               /\ \E e \in Range(s) : e[1] = r
    BY <1>1, SwapRemoveFacts, ListFacts DEF Distinct
  <1>2. ASSUME Lists(C, r)
        PROVE  /\ Distinct(SwapRemove(C, r), L, H)
               /\ Together(SwapRemove(C, r), L, H) = {e \in Together(C, L, H) : e[1] # r}
    <2>1. PICK s : s = SwapRemove(C, r)
      OBVIOUS
    <2>2. Range(s) = {e \in Range(C) : e[1] # r} /\ Once(s) /\ \E e \in Range(C) : e[1] = r
      BY <1>1, <1>2, <2>1
    <2>3. \A e \in Range(L) \cup Range(H) : e[1] # r
      BY <2>2 DEF Distinct, Apart
    <2>4. Distinct(s, L, H) /\ Together(s, L, H) = {e \in Together(C, L, H) : e[1] # r}
      BY <2>2, <2>3 DEF Distinct, Apart, Together
    <2> QED BY <2>1, <2>4
  <1>3. ASSUME Lists(L, r)
        PROVE  /\ Distinct(C, SwapRemove(L, r), H)
               /\ Together(C, SwapRemove(L, r), H) = {e \in Together(C, L, H) : e[1] # r}
    <2>1. PICK s : s = SwapRemove(L, r)
      OBVIOUS
    <2>2. Range(s) = {e \in Range(L) : e[1] # r} /\ Once(s) /\ \E e \in Range(L) : e[1] = r
      BY <1>1, <1>3, <2>1
    <2>3. \A e \in Range(C) \cup Range(H) : e[1] # r
      BY <2>2 DEF Distinct, Apart
    <2>4. Distinct(C, s, H) /\ Together(C, s, H) = {e \in Together(C, L, H) : e[1] # r}
      BY <2>2, <2>3 DEF Distinct, Apart, Together
    <2> QED BY <2>1, <2>4
  <1>4. ASSUME Lists(H, r)
        PROVE  /\ Distinct(C, L, SwapRemove(H, r))
               /\ Together(C, L, SwapRemove(H, r)) = {e \in Together(C, L, H) : e[1] # r}
    <2>1. PICK s : s = SwapRemove(H, r)
      OBVIOUS
    <2>2. Range(s) = {e \in Range(H) : e[1] # r} /\ Once(s) /\ \E e \in Range(H) : e[1] = r
      BY <1>1, <1>4, <2>1
    <2>3. \A e \in Range(C) \cup Range(L) : e[1] # r
      BY <2>2 DEF Distinct, Apart
    <2>4. Distinct(C, L, s) /\ Together(C, L, s) = {e \in Together(C, L, H) : e[1] # r}
      BY <2>2, <2>3 DEF Distinct, Apart, Together
    <2> QED BY <2>1, <2>4
  <1> QED BY <1>2, <1>3, <1>4

\* A HugeOverflow has room for every radix that is not in the node.
LEMMA HugeFits ==
  ASSUME NEW C \in Seq(Pairs), NEW H \in Seq(Pairs), Once(C), Once(H), Apart(C, H)
  PROVE  Len(C) + Len(H) <= HugeCapacity + ChildsSize
  <1>1. /\ Keys(C) \subseteq Radixes /\ IsFiniteSet(Keys(C)) /\ Cardinality(Keys(C)) = Len(C)
        /\ Keys(H) \subseteq Radixes /\ IsFiniteSet(Keys(H)) /\ Cardinality(Keys(H)) = Len(H)
    BY KeysCount
  <1>2. Keys(C) \cap Keys(H) = {}
    BY DEF Keys, Apart
  <1>3. Cardinality(Keys(C) \cup Keys(H))
          = Cardinality(Keys(C)) + Cardinality(Keys(H)) - Cardinality(Keys(C) \cap Keys(H))
    BY <1>1, FS_Union
  <1>4. Keys(C) \cup Keys(H) \in SUBSET Radixes /\ IsFiniteSet(Radixes)
    BY <1>1, ChildListsAssumption
  <1>5. Cardinality(Keys(C) \cup Keys(H)) <= Cardinality(Radixes)
    BY <1>4, FS_Subset
  <1>6. Cardinality(Radixes) \in Nat
    BY <1>4, FS_CardinalityType
  <1>7. Cardinality(Keys(C) \cap Keys(H)) = 0
    BY <1>2, FS_EmptySet
  <1>8. Len(C) \in Nat /\ Len(H) \in Nat /\ HugeCapacity \in Nat /\ ChildsSize \in Nat
    BY ChildListsAssumption
  <1>9. Cardinality(Keys(C) \cup Keys(H)) = Len(C) + Len(H)
    BY <1>1, <1>3, <1>7, <1>8
  <1> QED BY <1>5, <1>6, <1>8, <1>9, ChildListsAssumption

-----------------------------------------------------------------------------
(* push_child_idx and remove_child.                                        *)

LEMMA ArenaStays ==
  ASSUME UNCHANGED <<slots, free_head, count>>
  PROVE  Used' = Used /\ (Arena => Arena') /\ (FreeTyped => FreeTyped')
  <1>1. Used' = Used
    BY DEF Used
  <1>2. SlotsShape => SlotsShape'
    BY DEF SlotsShape
  <1>3. \A chain : IsFreeList(chain) => IsFreeList(chain)'
    BY <1>1 DEF IsFreeList
  <1>4. ArenaFreeList => ArenaFreeList'
    BY <1>1, <1>3 DEF ArenaFreeList
  <1>5. FreeTyped => FreeTyped'
    BY <1>1 DEF FreeTyped
  <1> QED BY <1>1, <1>2, <1>4, <1>5 DEF Arena

LEMMA Current ==
  ASSUME ListInv, NEW o \in DOMAIN node
  PROVE  /\ WellFormed(node[o].childs, node[o].overflow_idx, Light(o), Big(o), Huge(o))
         /\ node[o] = Node(node[o].childs, node[o].overflow_idx)
         /\ node[o].overflow_idx # Nil => /\ node[o].overflow_idx \in Used
                                          /\ Overflow(o) = Item(Light(o), Big(o))
         /\ Big(o) # Nil => Big(o) \in DOMAIN huge /\ huge[Big(o)] = Huge(o)
         /\ Entries(o) = Together(node[o].childs, Light(o), Huge(o))
         /\ Light(o) # <<>> => node[o].overflow_idx # Nil
         /\ Huge(o) # <<>> => node[o].overflow_idx # Nil /\ Big(o) # Nil
         /\ Overflow(o).light = Light(o) \/ node[o].overflow_idx = Nil
         /\ Overflow(o).big_overflow_idx = Big(o) \/ node[o].overflow_idx = Nil
  <1>1. /\ 0 <= ChildsSize /\ 0 <= LightSize /\ 0 <= HugeCapacity
        /\ <<>> \in Seq(Pairs) /\ Len(<<>>) = 0
    BY ChildListsAssumption, EmptyList
  <1>2. /\ node[o].childs \in Seq(Pairs) /\ Len(node[o].childs) <= ChildsSize
        /\ node[o] = Node(node[o].childs, node[o].overflow_idx)
        /\ Distinct(node[o].childs, Light(o), Huge(o))
    BY DEF ListInv, ListsTyped, RadixesDistinct
  <1>3. Entries(o) = Together(node[o].childs, Light(o), Huge(o))
    BY DEF Entries, Together
  <1>4. CASE node[o].overflow_idx = Nil
    <2>1. Light(o) = <<>> /\ Big(o) = Nil /\ Huge(o) = <<>>
      BY <1>4 DEF Light, Big, Huge
    <2> QED BY <1>1, <1>2, <1>3, <1>4, <2>1 DEF WellFormed
  <1>5. CASE node[o].overflow_idx # Nil
    <2>1. PICK x : x = node[o].overflow_idx
      OBVIOUS
    <2>2. /\ x \in Used /\ x # Nil /\ Overflow(o) = slots[x]
          /\ Light(o) = slots[x].light /\ Big(o) = slots[x].big_overflow_idx
          /\ Huge(o) = IF Big(o) = Nil THEN <<>> ELSE huge[Big(o)]
      BY <1>5, <2>1 DEF Light, Big, Huge, Overflow, ListInv, ListsTyped
    <2>3. /\ slots[x] = Item(slots[x].light, slots[x].big_overflow_idx)
          /\ Light(o) \in Seq(Pairs) /\ Len(Light(o)) <= LightSize
          /\ Light(o) # <<>> \/ Big(o) # Nil
          /\ Big(o) # Nil => Big(o) \in DOMAIN huge
      BY <2>2 DEF ListInv, ListsTyped, NoneEmpty
    <2>4. Big(o) # Nil => /\ Huge(o) \in Seq(Pairs) /\ Len(Huge(o)) <= HugeCapacity
                          /\ Huge(o) # <<>> /\ Big(o) \in Nat
      BY <2>2, <2>3 DEF ListInv, ListsTyped, NoneEmpty
    <2>5. Big(o) = Nil => Huge(o) = <<>>
      BY <2>2
    <2>6. WellFormed(node[o].childs, node[o].overflow_idx, Light(o), Big(o), Huge(o))
      BY <1>1, <1>2, <1>5, <2>3, <2>4, <2>5 DEF WellFormed
    <2> QED BY <1>2, <1>3, <1>5, <2>1, <2>2, <2>3, <2>5, <2>6
  <1> QED BY <1>4, <1>5

\* The step gives o lists with these entries.
Becomes(o, E) ==
  \E C, x, L, b, H : /\ WellFormed(C, x, L, b, H) /\ Relists(o, C, x, L, b, H)
                     /\ Together(C, L, H) = E

\* push_child_idx puts the entry where there is room.
Grown(o, e) == Becomes(o, Entries(o) \cup {e})

\* remove_child leaves every other entry.
Shrunk(o, r) == Becomes(o, {e \in Entries(o) : e[1] # r})

\* Only the lists in the node change.
LEMMA InlineRelists ==
  ASSUME ListInv, NEW o \in DOMAIN node, NEW C,
         node' = [node EXCEPT ![o] = Node(C, node[o].overflow_idx)],
         UNCHANGED <<slots, free_head, count, huge>>
  PROVE  Relists(o, C, node[o].overflow_idx, Light(o), Big(o), Huge(o))
  <1>1. PICK x, L, b, H : x = node[o].overflow_idx /\ L = Light(o) /\ b = Big(o) /\ H = Huge(o)
    OBVIOUS
  <1>2. Used' = Used /\ Arena' /\ FreeTyped' /\ DOMAIN huge' = DOMAIN huge
    BY ArenaStays DEF ListInv, ListsTyped
  <1>3. /\ x \in Used \cup {Nil} /\ b \in DOMAIN huge \cup {Nil}
        /\ x # Nil => slots[x] = Item(L, b)
        /\ b # Nil => huge[b] = H
        /\ Nil \notin Used /\ Nil \notin DOMAIN huge
    BY <1>1, Current, NilApart, OthersApart DEF Overflow
  <1>4. Relists(o, C, x, L, b, H)
    BY <1>1, <1>2, <1>3 DEF Relists
  <1> QED BY <1>1, <1>4

LEMMA PushInlineGrows ==
  ASSUME ListInv, NEW o \in DOMAIN node, NEW r \in Radixes, NEW i \in Idxs,
         Find(o, r) = Nil, PushInline(o, r, i)
  PROVE  Grown(o, <<r, i>>)
  <1>1. PICK C, x, L, b, H :
          C = node[o].childs /\ x = node[o].overflow_idx /\ L = Light(o) /\ b = Big(o) /\ H = Huge(o)
    OBVIOUS
  <1>2. WellFormed(C, x, L, b, H) /\ Entries(o) = Together(C, L, H)
    BY <1>1, Current
  <1>3. PICK e : e = <<r, i>>
    OBVIOUS
  <1>4. e \in Pairs /\ ~Lists(C, e[1]) /\ ~Lists(L, e[1]) /\ ~Lists(H, e[1])
    BY <1>1, <1>3, FindFinds DEF Pairs
  <1>5. /\ Distinct(Append(C, e), L, H)
        /\ Together(Append(C, e), L, H) = Together(C, L, H) \cup {e}
    BY <1>2, <1>4, DistinctGrows DEF WellFormed
  <1>6. WellFormed(Append(C, e), x, L, b, H)
    <2>1. Append(C, e) \in Seq(Pairs) /\ Len(Append(C, e)) = Len(C) + 1 /\ Len(C) < ChildsSize
      BY <1>1, <1>2, <1>4, AppendFacts DEF WellFormed, PushInline
    <2>2. Len(C) \in Nat /\ ChildsSize \in Nat
      BY <1>2, ChildListsAssumption DEF WellFormed
    <2> QED BY <1>2, <1>5, <2>1, <2>2 DEF WellFormed
  <1>7. Relists(o, Append(C, e), x, L, b, H)
    <2>1. node' = [node EXCEPT ![o] = Node(Append(C, e), node[o].overflow_idx)]
      BY <1>1, <1>3 DEF PushInline
    <2> QED BY <1>1, <2>1, InlineRelists DEF PushInline
  <1> QED BY <1>2, <1>3, <1>5, <1>6, <1>7 DEF Grown, Becomes

LEMMA PushFirstGrows ==
  ASSUME ListInv, NEW o \in DOMAIN node, NEW r \in Radixes, NEW i \in Idxs,
         Find(o, r) = Nil, PushFirst(o, r, i)
  PROVE  Grown(o, <<r, i>>)
  <1>1. PICK C, e : C = node[o].childs /\ e = <<r, i>>
    OBVIOUS
  <1>2. /\ WellFormed(C, Nil, <<>>, Nil, <<>>) /\ Entries(o) = Together(C, <<>>, <<>>)
        /\ Big(o) = Nil /\ node[o].overflow_idx = Nil
    <2>1. node[o].overflow_idx = Nil /\ Light(o) = <<>> /\ Huge(o) = <<>> /\ Big(o) = Nil
      BY DEF PushFirst, Light, Huge, Big
    <2> QED BY <1>1, <2>1, Current
  <1>3. e \in Pairs /\ ~Lists(C, e[1]) /\ ~Lists(<<>>, e[1])
    BY <1>1, FindFinds, EmptyList DEF Pairs
  <1>4. PICK L : L = Append(<<>>, e)
    OBVIOUS
  <1>5. /\ L = << <<r, i>> >> /\ L \in Seq(Pairs) /\ Len(L) = 1 /\ L # <<>>
    <2>1. L = <<e>>
      BY <1>4
    <2> QED BY <1>1, <1>3, <2>1, SingleList
  <1>6. Distinct(C, L, <<>>) /\ Together(C, L, <<>>) = Together(C, <<>>, <<>>) \cup {e}
    <2>1. PICK none : none = <<>>
      OBVIOUS
    <2>2. /\ C \in Seq(Pairs) /\ none \in Seq(Pairs) /\ Distinct(C, none, none)
          /\ ~Lists(none, e[1])
      BY <1>2, <1>3, <2>1 DEF WellFormed
    <2>3. /\ Distinct(C, Append(none, e), none)
          /\ Together(C, Append(none, e), none) = Together(C, none, none) \cup {e}
      BY <1>3, <2>2, DistinctGrows
    <2> QED BY <1>4, <2>1, <2>3
  <1>7. PICK x : x = Allocated
    OBVIOUS
  <1>8. Filled(L)
    BY <1>5, AllocFills DEF PushFirst, ListInv
  <1>9. x # Nil
    BY <1>7, <1>8, ChildListsAssumption DEF Filled
  <1>10. WellFormed(C, x, L, Nil, <<>>)
    <2>1. 1 <= LightSize
      BY ChildListsAssumption
    <2> QED BY <1>2, <1>5, <1>6, <1>9, <2>1 DEF WellFormed
  <1>11. FreeTyped'
    BY <1>8 DEF Filled, FreeTyped, ListInv, ListsTyped
  <1>12. Relists(o, C, x, L, Nil, <<>>)
    <2>1. node' = [node EXCEPT ![o] = Node(C, x)] /\ huge' = huge
      BY <1>1, <1>7 DEF PushFirst
    <2>2. /\ DOMAIN node' = DOMAIN node /\ node'[o] = Node(C, x)
          /\ \A p \in DOMAIN node \ {o} : node'[p] = node[p]
      BY <2>1
    <2>3. Nil \notin Used /\ Nil \notin DOMAIN huge /\ DOMAIN huge' = DOMAIN huge
      BY <2>1, NilApart
    <2>4. /\ Used' = Used \cup {x} /\ x \notin Used /\ slots'[x] = Item(L, Nil) /\ Arena'
          /\ \A s \in Used : slots'[s] = slots[s]
      BY <1>7, <1>8 DEF Filled, Used
    <2> QED BY <1>2, <1>9, <1>11, <2>1, <2>2, <2>3, <2>4, SMTT(30) DEF Relists
  <1> QED BY <1>1, <1>2, <1>6, <1>10, <1>12 DEF Grown, Becomes

\* The Overflow of o is rewritten in place.
LEMMA SlotRelists ==
  ASSUME ListInv, NEW o \in DOMAIN node, NEW L, NEW b, NEW H,
         node[o].overflow_idx # Nil, node' = node, UNCHANGED <<free_head, count>>,
         slots' = [slots EXCEPT ![node[o].overflow_idx] = Item(L, b)],
         DOMAIN huge' = (DOMAIN huge \ {Big(o)}) \cup ({b} \ {Nil}),
         b \notin DOMAIN huge \ {Big(o)},
         b # Nil => huge'[b] = H,
         \A h \in DOMAIN huge \ {Big(o)} : huge'[h] = huge[h]
  PROVE  Relists(o, node[o].childs, node[o].overflow_idx, L, b, H)
  <1>1. PICK C, x : C = node[o].childs /\ x = node[o].overflow_idx
    OBVIOUS
  <1>2. x \in Used /\ x # Nil /\ node[o] = Node(C, x) /\ Nil \notin Used
    BY <1>1, Current, NilApart
  <1>3. Rewritten(x, L, b)
    <2>1. Arena /\ slots' = [slots EXCEPT ![x] = Item(L, b)]
      BY <1>1 DEF ListInv
    <2> QED BY <1>2, <2>1, SetRewrites
  <1>4. FreeTyped'
    <2>1. FreeTyped /\ \A s \in DOMAIN slots \ Used : s # x
      BY <1>2 DEF ListInv, ListsTyped
    <2> QED BY <1>3, <2>1 DEF Rewritten, FreeTyped
  <1>5. /\ Used' = Used /\ slots'[x] = Item(L, b) /\ Arena'
        /\ \A s \in Used \ {x} : slots'[s] = slots[s]
    BY <1>3 DEF Rewritten, Used
  <1>6. Relists(o, C, x, L, b, H)
    BY <1>1, <1>2, <1>4, <1>5 DEF Relists
  <1> QED BY <1>1, <1>6

LEMMA PushLightGrows ==
  ASSUME ListInv, NEW o \in DOMAIN node, NEW r \in Radixes, NEW i \in Idxs,
         Find(o, r) = Nil, PushLight(o, r, i)
  PROVE  Grown(o, <<r, i>>)
  <1>1. PICK C, x, L, b, H :
          C = node[o].childs /\ x = node[o].overflow_idx /\ L = Light(o) /\ b = Big(o) /\ H = Huge(o)
    OBVIOUS
  <1>2. /\ WellFormed(C, x, L, b, H) /\ Entries(o) = Together(C, L, H) /\ x # Nil
        /\ Overflow(o).light = L /\ Overflow(o).big_overflow_idx = b
        /\ b # Nil => b \in DOMAIN huge /\ huge[b] = H
    BY <1>1, Current DEF PushLight
  <1>3. PICK e : e = <<r, i>>
    OBVIOUS
  <1>4. e \in Pairs /\ ~Lists(C, e[1]) /\ ~Lists(L, e[1]) /\ ~Lists(H, e[1])
    BY <1>1, <1>3, FindFinds DEF Pairs
  <1>5. /\ Distinct(C, Append(L, e), H)
        /\ Together(C, Append(L, e), H) = Together(C, L, H) \cup {e}
    BY <1>2, <1>4, DistinctGrows DEF WellFormed
  <1>6. WellFormed(C, x, Append(L, e), b, H)
    <2>1. /\ Append(L, e) \in Seq(Pairs) /\ Len(Append(L, e)) = Len(L) + 1 /\ Len(L) < LightSize
          /\ Append(L, e) # <<>>
      BY <1>2, <1>4, AppendFacts DEF WellFormed, PushLight
    <2>2. Len(L) \in Nat /\ LightSize \in Nat
      BY <1>2, ChildListsAssumption DEF WellFormed
    <2> QED BY <1>2, <1>5, <2>1, <2>2 DEF WellFormed
  <1>7. Relists(o, C, x, Append(L, e), b, H)
    <2>1. /\ slots' = [slots EXCEPT ![node[o].overflow_idx] = Item(Append(L, e), b)]
          /\ node' = node /\ UNCHANGED <<free_head, count>> /\ huge' = huge
      BY <1>1, <1>2, <1>3 DEF PushLight, Overflow
    <2>2. Nil \notin DOMAIN huge
      BY NilApart
    <2>3. /\ DOMAIN huge' = (DOMAIN huge \ {Big(o)}) \cup ({b} \ {Nil})
          /\ b \notin DOMAIN huge \ {Big(o)}
          /\ b # Nil => huge'[b] = H
          /\ \A h \in DOMAIN huge \ {Big(o)} : huge'[h] = huge[h]
      BY <1>1, <1>2, <2>1, <2>2
    <2> QED BY <1>1, <1>2, <2>1, <2>3, SlotRelists
  <1> QED BY <1>2, <1>3, <1>5, <1>6, <1>7 DEF Grown, Becomes

\* HUGE_OVF has a slot to insert into.
LEMMA FreshHuge ==
  ASSUME ListInv
  PROVE  \E x \in 1 .. Cardinality(DOMAIN huge) + 1 : x \notin DOMAIN huge
  <1>1. PICK n : n = Cardinality(DOMAIN huge)
    OBVIOUS
  <1>2. IsFiniteSet(DOMAIN huge) /\ n \in Nat
    BY <1>1, FS_CardinalityType DEF ListInv, ListsTyped
  <1>3. IsFiniteSet(1 .. n + 1) /\ Cardinality(1 .. n + 1) = n + 1
    <2>1. \A m \in Nat : IsFiniteSet(1 .. m) /\ Cardinality(1 .. m) = m
      BY FS_Interval
    <2>2. n + 1 \in Nat
      BY <1>2
    <2> QED BY <2>1, <2>2
  <1>4. 1 .. n + 1 \in SUBSET DOMAIN huge => Cardinality(1 .. n + 1) <= Cardinality(DOMAIN huge)
    BY <1>2, FS_Subset
  <1>5. ~(n + 1 <= n)
    BY <1>2
  <1>6. 1 .. n + 1 \notin SUBSET DOMAIN huge
    BY <1>1, <1>3, <1>4, <1>5
  <1> QED BY <1>1, <1>6

LEMMA PushHugeGrows ==
  ASSUME ListInv, NEW o \in DOMAIN node, NEW r \in Radixes, NEW i \in Idxs,
         Find(o, r) = Nil, PushHuge(o, r, i)
  PROVE  Grown(o, <<r, i>>)
  <1>1. PICK C, x, L, b, H :
          C = node[o].childs /\ x = node[o].overflow_idx /\ L = Light(o) /\ b = Big(o) /\ H = Huge(o)
    OBVIOUS
  <1>2. /\ WellFormed(C, x, L, b, H) /\ Entries(o) = Together(C, L, H) /\ x # Nil
        /\ Overflow(o).light = L /\ Overflow(o).big_overflow_idx = b
        /\ Overflow(o) = Item(L, b) /\ x \in Used
        /\ b # Nil => b \in DOMAIN huge /\ huge[b] = H
    BY <1>1, Current DEF PushHuge
  <1>3. PICK e : e = <<r, i>>
    OBVIOUS
  <1>4. e \in Pairs /\ ~Lists(C, e[1]) /\ ~Lists(L, e[1]) /\ ~Lists(H, e[1])
    BY <1>1, <1>3, FindFinds DEF Pairs
  <1>5. /\ Distinct(C, L, Append(H, e))
        /\ Together(C, L, Append(H, e)) = Together(C, L, H) \cup {e}
    BY <1>2, <1>4, DistinctGrows DEF WellFormed
  <1>6. /\ Append(H, e) \in Seq(Pairs) /\ Append(H, e) # <<>>
        /\ Len(Append(H, e)) <= HugeCapacity
    <2>1. Append(H, e) \in Seq(Pairs) /\ Append(H, e) # <<>>
      BY <1>2, <1>4, AppendFacts DEF WellFormed
    <2>2. Len(C) + Len(Append(H, e)) <= HugeCapacity + ChildsSize
      BY <1>2, <1>5, <2>1, HugeFits DEF WellFormed, Distinct
    <2>3. Len(C) = ChildsSize /\ Len(Append(H, e)) \in Nat /\ ChildsSize \in Nat /\ HugeCapacity \in Nat
      BY <1>1, <2>1, ChildListsAssumption DEF PushHuge
    <2> QED BY <2>1, <2>2, <2>3
  <1>7. node' = node /\ UNCHANGED <<free_head, count>> /\ Nil \notin DOMAIN huge
    BY NilApart DEF PushHuge
  <1>8. CASE b # Nil
    <2>1. huge' = [huge EXCEPT ![b] = Append(H, e)] /\ slots' = slots
      BY <1>2, <1>3, <1>8 DEF PushHuge
    <2>2. WellFormed(C, x, L, b, Append(H, e))
      BY <1>2, <1>5, <1>6, <1>8 DEF WellFormed
    <2>3. /\ DOMAIN huge' = (DOMAIN huge \ {Big(o)}) \cup ({b} \ {Nil})
          /\ b \notin DOMAIN huge \ {Big(o)}
          /\ b # Nil => huge'[b] = Append(H, e)
          /\ \A h \in DOMAIN huge \ {Big(o)} : huge'[h] = huge[h]
      BY <1>1, <1>2, <1>8, <2>1
    <2>4. Used' = Used /\ Arena' /\ FreeTyped'
      BY <1>7, <2>1, ArenaStays DEF ListInv, ListsTyped
    <2>5. slots[x] = Item(L, b) /\ node[o] = Node(C, x) /\ Nil \notin Used
      BY <1>1, <1>2, Current, NilApart DEF Overflow
    <2>6. Relists(o, C, x, L, b, Append(H, e))
      BY <1>1, <1>2, <1>7, <2>1, <2>3, <2>4, <2>5 DEF Relists
    <2> QED BY <1>2, <1>3, <1>5, <2>2, <2>6 DEF Grown, Becomes
  <1>9. CASE b = Nil
    <2>1. PICK h : h = CHOOSE z \in 1 .. Cardinality(DOMAIN huge) + 1 : z \notin DOMAIN huge
      OBVIOUS
    <2>2. h \in 1 .. Cardinality(DOMAIN huge) + 1 /\ h \notin DOMAIN huge
      BY <2>1, FreshHuge
    <2>3. h \in Nat /\ h # Nil
      BY <2>2, ChildListsAssumption
    <2>4. H = <<>>
      BY <1>2, <1>9 DEF WellFormed
    <2>5. Append(H, e) = << <<r, i>> >>
      BY <1>3, <2>4
    <2>6. /\ huge' = Put(huge, h, Append(H, e))
          /\ slots' = [slots EXCEPT ![node[o].overflow_idx] = Item(L, h)]
      BY <1>1, <1>2, <1>9, <2>1, <2>5 DEF PushHuge, Overflow
    <2>7. WellFormed(C, x, L, h, Append(H, e))
      BY <1>2, <1>5, <1>6, <2>3 DEF WellFormed
    <2>8. /\ DOMAIN huge' = (DOMAIN huge \ {Big(o)}) \cup ({h} \ {Nil})
          /\ h \notin DOMAIN huge \ {Big(o)}
          /\ h # Nil => huge'[h] = Append(H, e)
          /\ \A g \in DOMAIN huge \ {Big(o)} : huge'[g] = huge[g]
      BY <1>1, <1>7, <1>9, <2>2, <2>3, <2>6 DEF Put
    <2>9. Relists(o, C, x, L, h, Append(H, e))
      BY <1>1, <1>2, <1>7, <2>6, <2>8, SlotRelists
    <2> QED BY <1>2, <1>3, <1>5, <2>7, <2>9 DEF Grown, Becomes
  <1> QED BY <1>8, <1>9

LEMMA PushGrows ==
  ASSUME ListInv, NEW o \in DOMAIN node, NEW r \in Radixes, NEW i \in Idxs, Push(o, r, i)
  PROVE  Grown(o, <<r, i>>)
  BY PushInlineGrows, PushFirstGrows, PushLightGrows, PushHugeGrows DEF Push

LEMMA RemoveInlineShrinks ==
  ASSUME ListInv, NEW o \in DOMAIN node, NEW r \in Radixes, RemoveInline(o, r)
  PROVE  Shrunk(o, r)
  <1>1. PICK C, x, L, b, H :
          C = node[o].childs /\ x = node[o].overflow_idx /\ L = Light(o) /\ b = Big(o) /\ H = Huge(o)
    OBVIOUS
  <1>2. WellFormed(C, x, L, b, H) /\ Entries(o) = Together(C, L, H) /\ Lists(C, r)
    BY <1>1, Current DEF RemoveInline
  <1>3. PICK D : D = SwapRemove(C, r)
    OBVIOUS
  <1>4. /\ Distinct(D, L, H)
        /\ Together(D, L, H) = {e \in Together(C, L, H) : e[1] # r}
    BY <1>2, <1>3, DistinctShrinks DEF WellFormed
  <1>5. WellFormed(D, x, L, b, H)
    <2>1. D \in Seq(Pairs) /\ Len(D) = Len(C) - 1
      BY <1>2, <1>3, SwapRemoveFacts DEF WellFormed, Distinct
    <2>2. Len(C) \in Nat /\ ChildsSize \in Nat /\ Len(C) <= ChildsSize
      BY <1>2, ChildListsAssumption DEF WellFormed
    <2>3. Len(D) <= ChildsSize
      BY <2>1, <2>2
    <2> QED BY <1>2, <1>4, <2>1, <2>3 DEF WellFormed
  <1>6. Relists(o, D, x, L, b, H)
    <2>1. node' = [node EXCEPT ![o] = Node(D, node[o].overflow_idx)]
      BY <1>1, <1>3 DEF RemoveInline
    <2> QED BY <1>1, <2>1, InlineRelists DEF RemoveInline
  <1> QED BY <1>2, <1>4, <1>5, <1>6 DEF Shrunk, Becomes

\* The Overflow of o keeps its slot or gives it back.
LEMMA LeaveRelists ==
  ASSUME ListInv, NEW o \in DOMAIN node, node[o].overflow_idx # Nil,
         NEW L, NEW b, NEW H, NEW gone, LeaveOverflow(o, L, b, gone),
         \/ b = Big(o) /\ gone = Nil /\ (b # Nil => huge[b] = H)
         \/ b = Nil /\ gone = Big(o)
  PROVE  Relists(o, node[o].childs, IF EmptyOverflow(L, b) THEN Nil ELSE node[o].overflow_idx, L, b, H)
  <1>1. PICK C, x : C = node[o].childs /\ x = node[o].overflow_idx
    OBVIOUS
  <1>2. /\ x \in Used /\ x # Nil /\ node[o] = Node(C, x)
        /\ Nil \notin Used /\ Nil \notin DOMAIN huge /\ Big(o) \in DOMAIN huge \cup {Nil}
    BY <1>1, Current, NilApart
  <1>3. huge' = Without(huge, {gone})
    BY DEF LeaveOverflow, Free
  <1>4. DOMAIN huge' = DOMAIN huge \ {gone} /\ \A h \in DOMAIN huge \ {gone} : huge'[h] = huge[h]
    BY <1>3 DEF Without, Restrict
  <1>5. /\ DOMAIN huge' = (DOMAIN huge \ {Big(o)}) \cup ({b} \ {Nil})
        /\ b \notin DOMAIN huge \ {Big(o)}
        /\ b # Nil => huge'[b] = H
        /\ \A h \in DOMAIN huge \ {Big(o)} : huge'[h] = huge[h]
    BY <1>2, <1>4
  <1>6. CASE ~EmptyOverflow(L, b)
    <2>1. /\ slots' = [slots EXCEPT ![node[o].overflow_idx] = Item(L, b)]
          /\ node' = node /\ UNCHANGED <<free_head, count>>
      BY <1>6 DEF LeaveOverflow
    <2>2. Relists(o, node[o].childs, node[o].overflow_idx, L, b, H)
      BY <1>5, <2>1, SlotRelists
    <2> QED BY <1>6, <2>2
  <1>7. CASE EmptyOverflow(L, b)
    <2>1. b = Nil
      BY <1>7 DEF EmptyOverflow
    <2>2. Free(x, gone) /\ node' = [node EXCEPT ![o] = Node(C, Nil)]
      BY <1>1, <1>7 DEF LeaveOverflow, Free
    <2>3. Freed(x)
      BY <1>2, <2>2, FreeFrees DEF ListInv
    <2>4. FreeTyped'
      <3>1. free_head \in Nat \cup {Nil}
        BY ArenaFacts DEF ListInv, Arena, SlotsShape
      <3>2. NextFree(free_head).next = free_head
        BY DEF NextFree
      <3>3. ASSUME NEW s \in DOMAIN slots' \ Used'
            PROVE  slots'[s] = NextFree(slots'[s].next) /\ slots'[s].next \in Nat \cup {Nil}
        <4>1. CASE s = x
          BY <2>3, <3>1, <3>2, <4>1 DEF Freed
        <4>2. CASE s # x
          <5>1. s \in DOMAIN slots \ Used /\ slots'[s] = slots[s]
            BY <2>3, <3>3, <4>2 DEF Freed
          <5> QED BY <5>1 DEF ListInv, ListsTyped, FreeTyped
        <4> QED BY <4>1, <4>2
      <3> QED BY <3>3 DEF FreeTyped
    <2>5. Used' = Used \ {x} /\ Arena' /\ \A s \in Used \ {x} : slots'[s] = slots[s]
      BY <2>3 DEF Freed, Used
    <2>6. /\ DOMAIN node' = DOMAIN node /\ node'[o] = Node(C, Nil)
          /\ \A p \in DOMAIN node \ {o} : node'[p] = node[p]
      BY <2>2
    <2>7. Relists(o, C, Nil, L, b, H)
      BY <1>1, <1>2, <1>5, <2>1, <2>4, <2>5, <2>6 DEF Relists
    <2> QED BY <1>1, <1>7, <2>7
  <1> QED BY <1>6, <1>7

LEMMA RemoveLightShrinks ==
  ASSUME ListInv, NEW o \in DOMAIN node, NEW r \in Radixes, RemoveLight(o, r)
  PROVE  Shrunk(o, r)
  <1>1. PICK C, x, L, b, H :
          C = node[o].childs /\ x = node[o].overflow_idx /\ L = Light(o) /\ b = Big(o) /\ H = Huge(o)
    OBVIOUS
  <1>2. /\ WellFormed(C, x, L, b, H) /\ Entries(o) = Together(C, L, H) /\ Lists(L, r) /\ x # Nil
        /\ b # Nil => huge[b] = H
        /\ Overflow(o).big_overflow_idx = b
    BY <1>1, Current DEF RemoveLight
  <1>3. PICK M : M = SwapRemove(L, r)
    OBVIOUS
  <1>4. /\ Distinct(C, M, H)
        /\ Together(C, M, H) = {e \in Together(C, L, H) : e[1] # r}
    BY <1>2, <1>3, DistinctShrinks DEF WellFormed
  <1>5. PICK y : y = IF EmptyOverflow(M, b) THEN Nil ELSE x
    OBVIOUS
  <1>6. WellFormed(C, y, M, b, H)
    <2>1. M \in Seq(Pairs) /\ Len(M) = Len(L) - 1
      BY <1>2, <1>3, SwapRemoveFacts DEF WellFormed, Distinct
    <2>2. Len(L) \in Nat /\ LightSize \in Nat /\ Len(L) <= LightSize
      BY <1>2, ChildListsAssumption DEF WellFormed
    <2>3. Len(M) <= LightSize
      BY <2>1, <2>2
    <2>4. IF y = Nil THEN M = <<>> /\ b = Nil ELSE M # <<>> \/ b # Nil
      BY <1>2, <1>5 DEF EmptyOverflow
    <2> QED BY <1>2, <1>4, <2>1, <2>3, <2>4 DEF WellFormed
  <1>7. Relists(o, C, y, M, b, H)
    <2>1. LeaveOverflow(o, M, b, Nil)
      BY <1>1, <1>2, <1>3 DEF RemoveLight, LeaveOverflow, Free
    <2> QED BY <1>1, <1>2, <1>5, <2>1, LeaveRelists
  <1> QED BY <1>2, <1>4, <1>6, <1>7 DEF Shrunk, Becomes

LEMMA RemoveHugeShrinks ==
  ASSUME ListInv, NEW o \in DOMAIN node, NEW r \in Radixes, RemoveHuge(o, r)
  PROVE  Shrunk(o, r)
  <1>1. PICK C, x, L, b, H :
          C = node[o].childs /\ x = node[o].overflow_idx /\ L = Light(o) /\ b = Big(o) /\ H = Huge(o)
    OBVIOUS
  <1>2. H # <<>> /\ Lists(H, r)
    BY <1>1, EmptyList DEF RemoveHuge
  <1>3. /\ WellFormed(C, x, L, b, H) /\ Entries(o) = Together(C, L, H) /\ x # Nil
        /\ b # Nil /\ huge[b] = H /\ b \in DOMAIN huge /\ x \in Used
        /\ Overflow(o).big_overflow_idx = b /\ Overflow(o) = Item(L, b)
    BY <1>1, <1>2, Current
  <1>4. PICK I : I = SwapRemove(H, r)
    OBVIOUS
  <1>5. /\ Distinct(C, L, I)
        /\ Together(C, L, I) = {e \in Together(C, L, H) : e[1] # r}
    BY <1>2, <1>3, <1>4, DistinctShrinks DEF WellFormed
  <1>6. I \in Seq(Pairs) /\ Len(I) <= HugeCapacity
    <2>1. I \in Seq(Pairs) /\ Len(I) = Len(H) - 1
      BY <1>2, <1>3, <1>4, SwapRemoveFacts DEF WellFormed, Distinct
    <2>2. Len(H) \in Nat /\ HugeCapacity \in Nat /\ Len(H) <= HugeCapacity
      BY <1>3, ChildListsAssumption DEF WellFormed
    <2> QED BY <2>1, <2>2
  <1>7. CASE I # <<>>
    <2>1. huge' = [huge EXCEPT ![b] = I] /\ UNCHANGED <<node, slots, free_head, count>>
      BY <1>1, <1>3, <1>4, <1>7 DEF RemoveHuge
    <2>2. WellFormed(C, x, L, b, I)
      BY <1>3, <1>5, <1>6, <1>7 DEF WellFormed
    <2>3. Used' = Used /\ Arena' /\ FreeTyped'
      BY <2>1, ArenaStays DEF ListInv, ListsTyped
    <2>4. slots[x] = Item(L, b) /\ node[o] = Node(C, x) /\ Nil \notin Used /\ Nil \notin DOMAIN huge
      BY <1>1, <1>3, Current, NilApart DEF Overflow
    <2>5. Relists(o, C, x, L, b, I)
      BY <1>1, <1>3, <2>1, <2>3, <2>4 DEF Relists
    <2> QED BY <1>3, <1>5, <2>2, <2>5 DEF Shrunk, Becomes
  <1>8. CASE I = <<>>
    <2>1. PICK y : y = IF EmptyOverflow(L, Nil) THEN Nil ELSE x
      OBVIOUS
    <2>2. WellFormed(C, y, L, Nil, I)
      <3>1. IF y = Nil THEN L = <<>> ELSE L # <<>>
        BY <1>3, <2>1 DEF EmptyOverflow
      <3> QED BY <1>3, <1>5, <1>6, <1>8, <3>1 DEF WellFormed
    <2>3. LeaveOverflow(o, L, Nil, b)
      BY <1>1, <1>3, <1>4, <1>8 DEF RemoveHuge, LeaveOverflow, Free
    <2>4. Relists(o, C, y, L, Nil, I)
      BY <1>1, <1>3, <2>1, <2>3, LeaveRelists
    <2> QED BY <1>3, <1>5, <2>2, <2>4 DEF Shrunk, Becomes
  <1> QED BY <1>7, <1>8

LEMMA RemoveShrinks ==
  ASSUME ListInv, NEW o \in DOMAIN node, NEW r \in Radixes, RemoveChild(o, r)
  PROVE  Shrunk(o, r)
  BY RemoveInlineShrinks, RemoveLightShrinks, RemoveHugeShrinks DEF RemoveChild

-----------------------------------------------------------------------------
(* Nodes come, go and hand their lists on.                                 *)

\* A node that takes over the record of another takes over its lists.
LEMMA ListsFollow ==
  ASSUME UNCHANGED <<slots, huge>>, NEW p, NEW q, node'[p] = node[q]
  PROVE  /\ node'[p].childs = node[q].childs /\ Light(p)' = Light(q) /\ Huge(p)' = Huge(q)
         /\ Children(p)' = Children(q)
  <1>1. node'[p].childs = node[q].childs /\ Light(p)' = Light(q) /\ Huge(p)' = Huge(q)
    BY DEF Light, Huge, Overflow
  <1>2. Entries(p)' = Entries(q)
    BY <1>1 DEF Entries
  <1> QED BY <1>1, <1>2 DEF Children

\* A node without an Overflow has only the lists in itself.
LEMMA InlineOnly ==
  ASSUME NEW p, NEW C, node'[p] = Node(C, Nil)
  PROVE  /\ node'[p].childs = C /\ node'[p].overflow_idx = Nil
         /\ Light(p)' = <<>> /\ Huge(p)' = <<>>
         /\ Children(p)' = AsFunction(Range(C))
  <1>1. node'[p].childs = C /\ node'[p].overflow_idx = Nil
    BY DEF Node
  <1>2. Light(p)' = <<>> /\ Huge(p)' = <<>>
    BY <1>1 DEF Light, Huge
  <1>3. Range(<<>>) = {}
    BY EmptyList
  <1>4. Entries(p)' = Range(C)
    BY <1>1, <1>2, <1>3 DEF Entries
  <1> QED BY <1>1, <1>2, <1>4 DEF Children, AsFunction

\* Every node has the record of an old one or lists of its own alone, and every
\* Overflow still has one node.
Moved ==
  /\ DOMAIN node' \subseteq Owners
  /\ \A p \in DOMAIN node' :
       \/ \E q \in DOMAIN node : node'[p] = node[q]
       \/ \E C \in Seq(Pairs) : node'[p] = Node(C, Nil) /\ Len(C) <= ChildsSize /\ Once(C)
  /\ \A p, q \in DOMAIN node' :
       node'[p].overflow_idx = node'[q].overflow_idx => p = q \/ node'[p].overflow_idx = Nil
  /\ \A o \in DOMAIN node : node[o].overflow_idx # Nil =>
       \E p \in DOMAIN node' : node'[p].overflow_idx = node[o].overflow_idx

LEMMA MovedKeeps ==
  ASSUME ListInv, UNCHANGED <<slots, free_head, count, huge>>, Moved
  PROVE  ListInv'
  <1>1. Used' = Used /\ Arena' /\ FreeTyped' /\ DOMAIN huge' = DOMAIN huge
    BY ArenaStays DEF ListInv, ListsTyped
  <1>2. ASSUME NEW p \in DOMAIN node'
        PROVE  /\ node'[p] = Node(node'[p].childs, node'[p].overflow_idx)
               /\ node'[p].childs \in Seq(Pairs) /\ Len(node'[p].childs) <= ChildsSize
               /\ node'[p].overflow_idx \in Used' \cup {Nil}
               /\ Distinct(node'[p].childs, Light(p)', Huge(p)')
    <2>1. CASE \E q \in DOMAIN node : node'[p] = node[q]
      <3>1. PICK q \in DOMAIN node : node'[p] = node[q]
        BY <2>1
      <3>2. Light(p)' = Light(q) /\ Huge(p)' = Huge(q)
        BY <3>1, ListsFollow
      <3>3. Distinct(node[q].childs, Light(q), Huge(q))
        BY DEF ListInv, RadixesDistinct
      <3> QED BY <1>1, <3>1, <3>2, <3>3 DEF ListInv, ListsTyped
    <2>2. CASE \E C \in Seq(Pairs) : node'[p] = Node(C, Nil) /\ Len(C) <= ChildsSize /\ Once(C)
      <3>1. PICK C \in Seq(Pairs) : node'[p] = Node(C, Nil) /\ Len(C) <= ChildsSize /\ Once(C)
        BY <2>2
      <3>2. /\ node'[p].childs = C /\ node'[p].overflow_idx = Nil
            /\ Light(p)' = <<>> /\ Huge(p)' = <<>>
        BY <3>1, InlineOnly
      <3>3. Distinct(C, <<>>, <<>>)
        BY <3>1, EmptyList DEF Distinct
      <3> QED BY <3>1, <3>2, <3>3
    <2> QED BY <2>1, <2>2 DEF Moved
  <1>3. ListsTyped'
    <2>1. /\ DOMAIN node' \subseteq Owners
          /\ \A s \in Used' :
               /\ slots'[s] = Item(slots'[s].light, slots'[s].big_overflow_idx)
               /\ slots'[s].light \in Seq(Pairs) /\ Len(slots'[s].light) <= LightSize
               /\ slots'[s].big_overflow_idx \in DOMAIN huge' \cup {Nil}
          /\ IsFiniteSet(DOMAIN huge') /\ DOMAIN huge' \subseteq Nat
          /\ \A h \in DOMAIN huge' : huge'[h] \in Seq(Pairs) /\ Len(huge'[h]) <= HugeCapacity
      BY <1>1 DEF Moved, ListInv, ListsTyped
    <2> QED BY <1>1, <1>2, <2>1 DEF ListsTyped
  <1>4. IndicesInjective'
    <2>1. ASSUME NEW s \in Used' PROVE \E p \in DOMAIN node' : node'[p].overflow_idx = s
      <3>1. PICK o \in DOMAIN node : node[o].overflow_idx = s
        BY <1>1 DEF ListInv, IndicesInjective
      <3>2. s # Nil
        BY <1>1, NilApart
      <3> QED BY <3>1, <3>2 DEF Moved
    <2>2. /\ \A s, t \in Used' : slots'[s].big_overflow_idx = slots'[t].big_overflow_idx =>
               s = t \/ slots'[s].big_overflow_idx = Nil
          /\ \A h \in DOMAIN huge' : \E s \in Used' : slots'[s].big_overflow_idx = h
      BY <1>1 DEF ListInv, IndicesInjective
    <2>3. \A p, q \in DOMAIN node' :
            node'[p].overflow_idx = node'[q].overflow_idx => p = q \/ node'[p].overflow_idx = Nil
      BY DEF Moved
    <2> QED BY <2>1, <2>2, <2>3 DEF IndicesInjective
  <1>5. NoneEmpty'
    BY <1>1 DEF ListInv, NoneEmpty
  <1>6. RadixesDistinct'
    BY <1>2 DEF RadixesDistinct
  <1> QED BY <1>1, <1>3, <1>4, <1>5, <1>6 DEF ListInv

LEMMA NewMoves ==
  ASSUME ListInv, NEW o \in Owners, New(o)
  PROVE  ListInv' /\ DOMAIN node' = DOMAIN node \cup {o} /\ node'[o] = Leaf
         /\ \A p \in DOMAIN node : node'[p] = node[p]
  <1>1. /\ DOMAIN node' = DOMAIN node \cup {o} /\ node'[o] = Leaf /\ o \notin DOMAIN node
        /\ \A p \in DOMAIN node : node'[p] = node[p]
    BY DEF New, Put
  <1>2. node'[o] = Node(<<>>, Nil) /\ node'[o].overflow_idx = Nil
    BY <1>1 DEF Leaf, Node
  <1>3. <<>> \in Seq(Pairs) /\ Len(<<>>) <= ChildsSize /\ Once(<<>>)
    <2>1. <<>> \in Seq(Pairs) /\ Len(<<>>) = 0 /\ Once(<<>>) /\ ChildsSize \in Nat
      BY EmptyList, ChildListsAssumption
    <2> QED BY <2>1
  <1>4. Moved
    <2>1. DOMAIN node' \subseteq Owners
      BY <1>1 DEF ListInv, ListsTyped
    <2>2. \A p \in DOMAIN node' :
            \/ \E q \in DOMAIN node : node'[p] = node[q]
            \/ \E C \in Seq(Pairs) : node'[p] = Node(C, Nil) /\ Len(C) <= ChildsSize /\ Once(C)
      BY <1>1, <1>2, <1>3
    <2>3. \A p, q \in DOMAIN node' :
            node'[p].overflow_idx = node'[q].overflow_idx => p = q \/ node'[p].overflow_idx = Nil
      BY <1>1, <1>2 DEF ListInv, IndicesInjective
    <2> QED BY <1>1, <2>1, <2>2, <2>3 DEF Moved
  <1> QED BY <1>1, <1>4, MovedKeeps DEF New

LEMMA AbsorbMoves ==
  ASSUME ListInv, NEW o \in DOMAIN node, NEW c \in DOMAIN node \ {o}, Absorb(o, c)
  PROVE  ListInv' /\ DOMAIN node' = DOMAIN node \ {c} /\ node'[o] = node[c]
         /\ \A p \in DOMAIN node \ {o, c} : node'[p] = node[p]
  <1>1. PICK f : f = Put(node, o, node[c])
    OBVIOUS
  <1>2. DOMAIN f = DOMAIN node /\ f[o] = node[c] /\ \A p \in DOMAIN node \ {o} : f[p] = node[p]
    BY <1>1 DEF Put
  <1>3. node' = Without(f, {c})
    BY <1>1 DEF Absorb
  <1>4. DOMAIN node' = DOMAIN node \ {c} /\ \A p \in DOMAIN node \ {c} : node'[p] = f[p]
    BY <1>2, <1>3 DEF Without, Restrict
  <1>5. node'[o] = node[c] /\ \A p \in DOMAIN node \ {o, c} : node'[p] = node[p]
    BY <1>2, <1>4
  <1>6. node[o].overflow_idx = Nil
    BY DEF Absorb
  <1>7. Moved
    <2>1. DOMAIN node' \subseteq Owners
      BY <1>4 DEF ListInv, ListsTyped
    <2>2. \A p \in DOMAIN node' : \E q \in DOMAIN node : node'[p] = node[q]
      BY <1>4, <1>5
    <2>3. \A p, q \in DOMAIN node' :
            node'[p].overflow_idx = node'[q].overflow_idx => p = q \/ node'[p].overflow_idx = Nil
      BY <1>4, <1>5 DEF ListInv, IndicesInjective
    <2>4. \A p \in DOMAIN node : node[p].overflow_idx # Nil =>
            \E q \in DOMAIN node' : node'[q].overflow_idx = node[p].overflow_idx
      BY <1>4, <1>5, <1>6
    <2> QED BY <2>1, <2>2, <2>3, <2>4 DEF Moved
  <1> QED BY <1>4, <1>5, <1>7, MovedKeeps DEF Absorb

LEMMA SplitMoves ==
  ASSUME ListInv, NEW o \in DOMAIN node, NEW c \in Owners, NEW r \in Radixes, NEW i \in Idxs,
         Split(o, c, r, i)
  PROVE  /\ ListInv' /\ DOMAIN node' = DOMAIN node \cup {c} /\ c \notin DOMAIN node
         /\ node'[c] = node[o] /\ node'[o] = Node(<< <<r, i>> >>, Nil)
         /\ \A p \in DOMAIN node \ {o} : node'[p] = node[p]
  <1>1. PICK e, f : e = << <<r, i>> >> /\ f = Put(node, c, node[o])
    OBVIOUS
  <1>2. /\ c \notin DOMAIN node /\ DOMAIN f = DOMAIN node \cup {c} /\ f[c] = node[o]
        /\ \A p \in DOMAIN node : f[p] = node[p]
    BY <1>1 DEF Split, Put
  <1>3. node' = Put(f, o, Node(e, Nil))
    BY <1>1 DEF Split
  <1>4. /\ DOMAIN node' = DOMAIN node \cup {c} /\ node'[o] = Node(e, Nil)
        /\ node'[c] = node[o] /\ \A p \in DOMAIN node \ {o} : node'[p] = node[p]
    BY <1>2, <1>3 DEF Put
  <1>5. e \in Seq(Pairs) /\ Len(e) <= ChildsSize /\ Once(e)
    <2>1. <<r, i>> \in Pairs
      BY DEF Pairs
    <2>2. e \in Seq(Pairs) /\ Len(e) = 1 /\ Once(e)
      BY <1>1, <2>1, SingleList
    <2>3. 1 <= ChildsSize
      BY ChildListsAssumption
    <2> QED BY <2>2, <2>3
  <1>6. node'[o].overflow_idx = Nil
    BY <1>4 DEF Node
  <1>7. Moved
    <2>1. DOMAIN node' \subseteq Owners
      BY <1>4 DEF ListInv, ListsTyped
    <2>2. \A p \in DOMAIN node' :
            \/ \E q \in DOMAIN node : node'[p] = node[q]
            \/ \E C \in Seq(Pairs) : node'[p] = Node(C, Nil) /\ Len(C) <= ChildsSize /\ Once(C)
      BY <1>4, <1>5
    <2>3. \A p, q \in DOMAIN node' :
            node'[p].overflow_idx = node'[q].overflow_idx => p = q \/ node'[p].overflow_idx = Nil
      BY <1>2, <1>4, <1>6 DEF ListInv, IndicesInjective
    <2>4. \A p \in DOMAIN node : node[p].overflow_idx # Nil =>
            \E q \in DOMAIN node' : node'[q].overflow_idx = node[p].overflow_idx
      BY <1>4
    <2> QED BY <2>1, <2>2, <2>3, <2>4 DEF Moved
  <1> QED BY <1>1, <1>2, <1>4, <1>7, MovedKeeps DEF Split

\* The lists of the node that goes go with it, and no others.
LEMMA DropFrees ==
  ASSUME ListInv, NEW o \in DOMAIN node, Drop(o), node[o].overflow_idx # Nil
  PROVE  /\ ListInv' /\ DOMAIN node' = DOMAIN node \ {o}
         /\ \A p \in DOMAIN node \ {o} : Children(p)' = Children(p)
  <1>1. PICK x, b : x = node[o].overflow_idx /\ b = Big(o)
    OBVIOUS
  <1>2. /\ DOMAIN node' = DOMAIN node \ {o}
        /\ \A p \in DOMAIN node \ {o} : node'[p] = node[p]
    BY DEF Drop, Without, Restrict
  <1>3. x \in Used /\ Overflow(o).big_overflow_idx = b
    BY <1>1, Current
  <1>4. Free(x, b)
    BY <1>1, <1>3 DEF Drop, Free
  <1>5. Freed(x)
    BY <1>3, <1>4, FreeFrees DEF ListInv
  <1>6. /\ Used' = Used \ {x} /\ Arena' /\ \A s \in Used \ {x} : slots'[s] = slots[s]
    BY <1>5 DEF Freed, Used
  <1>7. DOMAIN huge' = DOMAIN huge \ {b} /\ \A h \in DOMAIN huge \ {b} : huge'[h] = huge[h]
    BY <1>4 DEF Free, Without, Restrict
  <1>8. /\ \A p \in DOMAIN node \ {o} : node[p].overflow_idx \in (Used \ {x}) \cup {Nil}
        /\ \A s \in Used \ {x} : slots[s].big_overflow_idx \in (DOMAIN huge \ {b}) \cup {Nil}
    BY <1>1, OthersApart
  <1>9. FreeTyped'
    <2>1. free_head \in Nat \cup {Nil}
      BY ArenaFacts DEF ListInv, Arena, SlotsShape
    <2>2. NextFree(free_head).next = free_head
      BY DEF NextFree
    <2>3. ASSUME NEW s \in DOMAIN slots' \ Used'
          PROVE  slots'[s] = NextFree(slots'[s].next) /\ slots'[s].next \in Nat \cup {Nil}
      <3>1. CASE s = x
        BY <1>5, <2>1, <2>2, <3>1 DEF Freed
      <3>2. CASE s # x
        <4>1. s \in DOMAIN slots \ Used /\ slots'[s] = slots[s]
          BY <1>5, <2>3, <3>2 DEF Freed
        <4> QED BY <4>1 DEF ListInv, ListsTyped, FreeTyped
      <3> QED BY <3>1, <3>2
    <2> QED BY <2>3 DEF FreeTyped
  <1>10. ASSUME NEW p \in DOMAIN node \ {o}
         PROVE  Light(p)' = Light(p) /\ Huge(p)' = Huge(p)
    <2>1. PICK s : s = node[p].overflow_idx
      OBVIOUS
    <2>2. node'[p].overflow_idx = s
      BY <1>2, <2>1
    <2>3. CASE s = Nil
      BY <2>1, <2>2, <2>3 DEF Light, Huge
    <2>4. CASE s # Nil
      <3>1. slots'[s] = slots[s] /\ s \in Used \ {x}
        BY <1>6, <1>8, <2>1, <2>4
      <3>2. slots[s].big_overflow_idx # Nil =>
              huge'[slots[s].big_overflow_idx] = huge[slots[s].big_overflow_idx]
        BY <1>7, <1>8, <3>1
      <3> QED BY <2>1, <2>2, <2>4, <3>1, <3>2 DEF Light, Huge, Overflow
    <2> QED BY <2>3, <2>4
  <1>11. ListsTyped'
    <2>1. DOMAIN node' \subseteq Owners
      BY <1>2 DEF ListInv, ListsTyped
    <2>2. \A p \in DOMAIN node' :
            /\ node'[p] = Node(node'[p].childs, node'[p].overflow_idx)
            /\ node'[p].childs \in Seq(Pairs) /\ Len(node'[p].childs) <= ChildsSize
            /\ node'[p].overflow_idx \in Used' \cup {Nil}
      BY <1>2, <1>6, <1>8 DEF ListInv, ListsTyped
    <2>3. \A s \in Used' :
            /\ slots'[s] = Item(slots'[s].light, slots'[s].big_overflow_idx)
            /\ slots'[s].light \in Seq(Pairs) /\ Len(slots'[s].light) <= LightSize
            /\ slots'[s].big_overflow_idx \in DOMAIN huge' \cup {Nil}
      BY <1>6, <1>7, <1>8 DEF ListInv, ListsTyped
    <2>4. IsFiniteSet(DOMAIN huge') /\ DOMAIN huge' \subseteq Nat
      <3>1. IsFiniteSet(DOMAIN huge) /\ DOMAIN huge' \in SUBSET DOMAIN huge /\ DOMAIN huge \subseteq Nat
        BY <1>7 DEF ListInv, ListsTyped
      <3> QED BY <3>1, FS_Subset
    <2>5. \A h \in DOMAIN huge' : huge'[h] \in Seq(Pairs) /\ Len(huge'[h]) <= HugeCapacity
      BY <1>7 DEF ListInv, ListsTyped
    <2> QED BY <1>9, <2>1, <2>2, <2>3, <2>4, <2>5 DEF ListsTyped
  <1>12. IndicesInjective'
    <2>1. \A p, q \in DOMAIN node' :
            node'[p].overflow_idx = node'[q].overflow_idx => p = q \/ node'[p].overflow_idx = Nil
      BY <1>2 DEF ListInv, IndicesInjective
    <2>2. ASSUME NEW s \in Used' PROVE \E p \in DOMAIN node' : node'[p].overflow_idx = s
      <3>1. PICK p \in DOMAIN node : node[p].overflow_idx = s
        BY <1>6 DEF ListInv, IndicesInjective
      <3>2. p # o
        BY <1>1, <1>6, <3>1
      <3> QED BY <1>2, <3>1, <3>2
    <2>3. \A s, t \in Used' : slots'[s].big_overflow_idx = slots'[t].big_overflow_idx =>
            s = t \/ slots'[s].big_overflow_idx = Nil
      BY <1>6 DEF ListInv, IndicesInjective
    <2>4. ASSUME NEW h \in DOMAIN huge' PROVE \E s \in Used' : slots'[s].big_overflow_idx = h
      <3>1. PICK s \in Used : slots[s].big_overflow_idx = h
        BY <1>7 DEF ListInv, IndicesInjective
      <3>2. s # x
        BY <1>1, <1>3, <1>7, <3>1 DEF Overflow
      <3> QED BY <1>6, <3>1, <3>2
    <2> QED BY <2>1, <2>2, <2>3, <2>4 DEF IndicesInjective
  <1>13. NoneEmpty'
    BY <1>6, <1>7 DEF ListInv, NoneEmpty
  <1>14. RadixesDistinct'
    <2>1. ASSUME NEW p \in DOMAIN node' PROVE Distinct(node'[p].childs, Light(p)', Huge(p)')
      <3>1. Distinct(node[p].childs, Light(p), Huge(p))
        BY <1>2 DEF ListInv, RadixesDistinct
      <3> QED BY <1>2, <1>10, <3>1
    <2> QED BY <2>1 DEF RadixesDistinct
  <1>15. ASSUME NEW p \in DOMAIN node \ {o} PROVE Children(p)' = Children(p)
    <2>1. Entries(p)' = Entries(p)
      BY <1>2, <1>10 DEF Entries
    <2> QED BY <2>1 DEF Children
  <1> QED BY <1>2, <1>6, <1>11, <1>12, <1>13, <1>14, <1>15 DEF ListInv

LEMMA DropMoves ==
  ASSUME ListInv, NEW o \in DOMAIN node, Drop(o)
  PROVE  /\ ListInv' /\ DOMAIN node' = DOMAIN node \ {o}
         /\ \A p \in DOMAIN node \ {o} : Children(p)' = Children(p)
  <1>1. CASE node[o].overflow_idx # Nil
    BY <1>1, DropFrees
  <1>2. CASE node[o].overflow_idx = Nil
    <2>1. /\ DOMAIN node' = DOMAIN node \ {o}
          /\ \A p \in DOMAIN node \ {o} : node'[p] = node[p]
      BY DEF Drop, Without, Restrict
    <2>2. UNCHANGED <<slots, free_head, count, huge>>
      BY <1>2 DEF Drop
    <2>3. Moved
      <3>1. DOMAIN node' \subseteq Owners
        BY <2>1 DEF ListInv, ListsTyped
      <3>2. \A p, q \in DOMAIN node' :
              node'[p].overflow_idx = node'[q].overflow_idx => p = q \/ node'[p].overflow_idx = Nil
        BY <2>1 DEF ListInv, IndicesInjective
      <3> QED BY <1>2, <2>1, <3>1, <3>2 DEF Moved
    <2>4. \A p \in DOMAIN node \ {o} : Children(p)' = Children(p)
      BY <2>1, <2>2, ListsFollow
    <2> QED BY <2>1, <2>2, <2>3, <2>4, MovedKeeps
  <1> QED BY <1>1, <1>2

-----------------------------------------------------------------------------
(* Every step keeps the invariant and is a step of ChildMap.               *)

LEMMA BecomesShows ==
  ASSUME ListInv, NEW o \in DOMAIN node, NEW E, Becomes(o, E)
  PROVE  /\ ListInv' /\ DOMAIN node' = DOMAIN node
         /\ Children(o)' = AsFunction(E)
         /\ \A p \in DOMAIN node \ {o} : Children(p)' = Children(p)
  <1>1. PICK C, x, L, b, H : /\ WellFormed(C, x, L, b, H) /\ Relists(o, C, x, L, b, H)
                             /\ Together(C, L, H) = E
    BY DEF Becomes
  <1>2. ListInv' /\ Shows(o, C, L, H)
    BY <1>1, RelistsKeeps, RelistsShows
  <1>3. Entries(o)' = E
    BY <1>1, <1>2 DEF Shows, Entries, Together
  <1>4. \A p \in DOMAIN node \ {o} : Entries(p)' = Entries(p)
    BY <1>2 DEF Shows, Entries
  <1>5. Children(o)' = AsFunction(E)
    BY <1>3 DEF Children, AsFunction
  <1>6. ASSUME NEW p \in DOMAIN node \ {o} PROVE Children(p)' = Children(p)
    <2>1. Entries(p)' = Entries(p)
      BY <1>4
    <2> QED BY <2>1 DEF Children
  <1> QED BY <1>2, <1>5, <1>6 DEF Shows

LEMMA EntriesAre ==
  ASSUME ListInv, NEW o \in DOMAIN node
  PROVE  IsFunctional(Entries(o)) /\ Children(o) = AsFunction(Entries(o))
  <1>1. PICK C, L, H : C = node[o].childs /\ L = Light(o) /\ H = Huge(o)
    OBVIOUS
  <1>2. /\ C \in Seq(Pairs) /\ L \in Seq(Pairs) /\ H \in Seq(Pairs) /\ Distinct(C, L, H)
        /\ Entries(o) = Together(C, L, H)
    BY <1>1, Current DEF WellFormed
  <1>3. IsFunctional(Together(C, L, H))
    BY <1>2, DistinctFunctional
  <1>4. Children(o) = AsFunction(Entries(o))
    BY DEF Children, AsFunction
  <1> QED BY <1>2, <1>3, <1>4

Kids == [o \in DOMAIN node |-> Children(o)]

LEMMA PushStep ==
  ASSUME ListInv, NEW o \in DOMAIN node, NEW r \in Radixes, NEW i \in Idxs, Push(o, r, i)
  PROVE  ListInv' /\ Map!Push(o, r, i)
  <1>1. PICK E : E = Entries(o)
    OBVIOUS
  <1>2. Becomes(o, E \cup {<<r, i>>})
    BY <1>1, PushGrows DEF Grown
  <1>3. /\ ListInv' /\ DOMAIN node' = DOMAIN node
        /\ Children(o)' = AsFunction(E \cup {<<r, i>>})
        /\ \A p \in DOMAIN node \ {o} : Children(p)' = Children(p)
    BY <1>2, BecomesShows
  <1>4. IsFunctional(E) /\ Children(o) = AsFunction(E)
    BY <1>1, EntriesAre
  <1>5. r \notin DOMAIN Children(o)
    <2>1. Find(o, r) = Nil
      BY DEF Push
    <2>2. r \in DOMAIN Children(o) => Children(o)[r] = Nil
      BY <2>1, FindFinds
    <2>3. ASSUME r \in DOMAIN Children(o) PROVE FALSE
      <3>1. PICK e \in E : e[1] = r
        BY <1>4, <2>3 DEF AsFunction
      <3>2. Children(o)[r] = e[2] /\ e[2] \in Idxs
        BY <1>4, <3>1, FunctionValue DEF IsFunctional, Pairs
      <3> QED BY <2>2, <2>3, <3>2, ChildListsAssumption
    <2> QED BY <2>3
  <1>6. r \notin {e[1] : e \in E}
    BY <1>4, <1>5 DEF AsFunction
  <1>7. Children(o)' = [x \in DOMAIN Children(o) \cup {r} |-> IF x = r THEN i ELSE Children(o)[x]]
    BY <1>3, <1>4, <1>6, EntryAdded
  <1>8. Kids' = [p \in DOMAIN Kids \cup {o} |->
                   IF p = o THEN [x \in DOMAIN Kids[o] \cup {r} |-> IF x = r THEN i ELSE Kids[o][x]]
                   ELSE Kids[p]]
    BY <1>3, <1>7 DEF Kids
  <1>9. r \notin DOMAIN Kids[o]
    BY <1>5 DEF Kids
  <1> QED BY <1>3, <1>8, <1>9 DEF Push, Map!Push, Map!Assign, Kids

LEMMA RemoveStep ==
  ASSUME ListInv, NEW o \in DOMAIN node, NEW r \in Radixes, RemoveChild(o, r)
  PROVE  ListInv' /\ Map!Remove(o, r)
  <1>1. PICK E : E = Entries(o)
    OBVIOUS
  <1>2. Becomes(o, {e \in E : e[1] # r})
    BY <1>1, RemoveShrinks DEF Shrunk
  <1>3. /\ ListInv' /\ DOMAIN node' = DOMAIN node
        /\ Children(o)' = AsFunction({e \in E : e[1] # r})
        /\ \A p \in DOMAIN node \ {o} : Children(p)' = Children(p)
    BY <1>2, BecomesShows
  <1>4. IsFunctional(E) /\ Children(o) = AsFunction(E)
    BY <1>1, EntriesAre
  <1>5. Children(o)' = [x \in DOMAIN Children(o) \ {r} |-> Children(o)[x]]
    BY <1>3, <1>4, EntryDropped
  <1>6. Kids' = [p \in DOMAIN Kids \cup {o} |->
                   IF p = o THEN [x \in DOMAIN Kids[o] \ {r} |-> Kids[o][x]] ELSE Kids[p]]
    BY <1>3, <1>5 DEF Kids
  <1> QED BY <1>3, <1>6 DEF RemoveChild, Map!Remove, Map!Assign, Kids

LEMMA NewStep ==
  ASSUME ListInv, NEW o \in Owners, New(o)
  PROVE  ListInv' /\ o \notin DOMAIN Kids /\ Map!New(o)
  <1>1. /\ ListInv' /\ DOMAIN node' = DOMAIN node \cup {o} /\ node'[o] = Node(<<>>, Nil)
        /\ \A p \in DOMAIN node : node'[p] = node[p]
    BY NewMoves DEF Leaf
  <1>2. o \notin DOMAIN node /\ UNCHANGED <<slots, huge>>
    BY DEF New
  <1>3. \A p \in DOMAIN node : Children(p)' = Children(p)
    BY <1>1, <1>2, ListsFollow
  <1>4. Children(o)' = [r \in {} |-> r]
    <2>1. PICK C : C = <<>>
      OBVIOUS
    <2>2. node'[o] = Node(C, Nil)
      BY <1>1, <2>1
    <2>3. Children(o)' = AsFunction(Range(C))
      BY <2>2, InlineOnly
    <2>4. Range(C) = {}
      BY <2>1, EmptyList
    <2> QED BY <2>3, <2>4 DEF AsFunction
  <1>5. Kids' = [p \in DOMAIN Kids \cup {o} |-> IF p = o THEN [r \in {} |-> r] ELSE Kids[p]]
    BY <1>1, <1>2, <1>3, <1>4 DEF Kids
  <1> QED BY <1>1, <1>2, <1>5 DEF New, Map!New, Map!Assign, Map!None, Kids

LEMMA DropStep ==
  ASSUME ListInv, NEW o \in DOMAIN node, Drop(o)
  PROVE  ListInv' /\ Map!Drop(o)
  <1>1. /\ ListInv' /\ DOMAIN node' = DOMAIN node \ {o}
        /\ \A p \in DOMAIN node \ {o} : Children(p)' = Children(p)
    BY DropMoves
  <1>2. Kids' = [p \in DOMAIN Kids \ {o} |-> Kids[p]]
    BY <1>1 DEF Kids
  <1> QED BY <1>1, <1>2 DEF Drop, Map!Drop, Kids

LEMMA AbsorbStep ==
  ASSUME ListInv, NEW o \in DOMAIN node, NEW c \in DOMAIN node \ {o}, Absorb(o, c)
  PROVE  ListInv' /\ Map!Absorb(o, c)
  <1>1. /\ ListInv' /\ DOMAIN node' = DOMAIN node \ {c} /\ node'[o] = node[c]
        /\ \A p \in DOMAIN node \ {o, c} : node'[p] = node[p]
    BY AbsorbMoves
  <1>2. UNCHANGED <<slots, huge>>
    BY DEF Absorb
  <1>3. Children(o)' = Children(c) /\ \A p \in DOMAIN node \ {o, c} : Children(p)' = Children(p)
    BY <1>1, <1>2, ListsFollow
  <1>4. Kids' = [p \in DOMAIN Kids \ {c} |-> IF p = o THEN Kids[c] ELSE Kids[p]]
    BY <1>1, <1>3 DEF Kids
  <1> QED BY <1>1, <1>4 DEF Absorb, Map!Absorb, Kids

LEMMA SplitStep ==
  ASSUME ListInv, NEW o \in DOMAIN node, NEW c \in Owners, NEW r \in Radixes, NEW i \in Idxs,
         Split(o, c, r, i)
  PROVE  ListInv' /\ Map!Split(o, c, r, i)
  <1>1. /\ ListInv' /\ DOMAIN node' = DOMAIN node \cup {c} /\ c \notin DOMAIN node
        /\ node'[c] = node[o] /\ node'[o] = Node(<< <<r, i>> >>, Nil)
        /\ \A p \in DOMAIN node \ {o} : node'[p] = node[p]
    BY SplitMoves
  <1>2. UNCHANGED <<slots, huge>>
    BY DEF Split
  <1>3. Children(c)' = Children(o) /\ \A p \in DOMAIN node \ {o} : Children(p)' = Children(p)
    BY <1>1, <1>2, ListsFollow
  <1>4. Children(o)' = [y \in {r} |-> i]
    <2>1. PICK e, C : e = <<r, i>> /\ C = <<e>>
      OBVIOUS
    <2>2. e \in Pairs /\ e[1] = r /\ e[2] = i
      BY <2>1 DEF Pairs
    <2>3. Children(o)' = AsFunction(Range(C))
      BY <1>1, <2>1, InlineOnly
    <2>4. Range(C) = {e}
      BY <2>1, <2>2, SingleList
    <2>5. AsFunction({e}) = [y \in {r} |-> i]
      BY <2>2 DEF AsFunction
    <2> QED BY <2>3, <2>4, <2>5
  <1>5. Kids' = [x \in DOMAIN Kids \cup {c} |->
                   IF x = c THEN Kids[o] ELSE IF x = o THEN [y \in {r} |-> i] ELSE Kids[x]]
    BY <1>1, <1>3, <1>4 DEF Kids
  <1> QED BY <1>1, <1>5 DEF Split, Map!Split, Kids

LEMMA ListsStep == ListInv /\ [Next]_vars => ListInv' /\ [Map!Next]_<<Kids, op>>
  <1> SUFFICES ASSUME ListInv, [Next]_vars
               PROVE  ListInv' /\ [Map!Next]_<<Kids, op>>
    OBVIOUS
  <1>1. DOMAIN Kids = DOMAIN node /\ Kids = [o \in DOMAIN node |-> Children(o)]
    BY DEF Kids
  <1>2. ASSUME NEW o \in Owners, New(o) PROVE ListInv' /\ Map!Next
    BY <1>1, <1>2, NewStep DEF Map!Next
  <1>3. ASSUME NEW o \in DOMAIN node, Drop(o) PROVE ListInv' /\ Map!Next
    BY <1>1, <1>3, DropStep DEF Map!Next
  <1>4. ASSUME NEW o \in DOMAIN node, NEW r \in Radixes, RemoveChild(o, r)
        PROVE  ListInv' /\ Map!Next
    BY <1>1, <1>4, RemoveStep DEF Map!Next
  <1>5. ASSUME NEW o \in DOMAIN node, NEW r \in Radixes, NEW i \in Idxs, Push(o, r, i)
        PROVE  ListInv' /\ Map!Next
    BY <1>1, <1>5, PushStep DEF Map!Next
  <1>6. ASSUME NEW o \in DOMAIN node, NEW c \in DOMAIN node \ {o}, Absorb(o, c)
        PROVE  ListInv' /\ Map!Next
    BY <1>1, <1>6, AbsorbStep DEF Map!Next
  <1>7. ASSUME NEW o \in DOMAIN node, NEW c \in Owners, NEW r \in Radixes, NEW i \in Idxs,
               Split(o, c, r, i)
        PROVE  ListInv' /\ Map!Next
    BY <1>1, <1>7, SplitStep DEF Map!Next
  <1>8. CASE UNCHANGED vars
    <2>1. node' = node /\ UNCHANGED <<slots, free_head, count, huge>> /\ op' = op
      BY <1>8 DEF vars, listVars
    <2>2. Moved
      BY <2>1 DEF Moved, ListInv, ListsTyped, IndicesInjective
    <2>3. \A p \in DOMAIN node : Children(p)' = Children(p)
      BY <2>1, ListsFollow
    <2>4. Kids' = Kids
      BY <2>1, <2>3 DEF Kids
    <2> QED BY <2>1, <2>2, <2>4, MovedKeeps
  <1> QED BY <1>2, <1>3, <1>4, <1>5, <1>6, <1>7, <1>8 DEF Next

LEMMA InitKids == Init => Map!Init
  <1> SUFFICES ASSUME Init PROVE Map!Init
    OBVIOUS
  <1>1. DOMAIN node = {} /\ op = <<>>
    BY DEF Init
  <1> QED BY <1>1 DEF Map!Init, Map!None

\* No list of children is ever longer than its array (a node's inline list,
\* an Overflow's, a HugeOverflow's, whose push has no check of its own), and
\* no index names a slot that is free or a HugeOverflow that was dropped,
\* whatever the order of push_child_idx, remove_child, try_recompress,
\* split_node and the frees.
THEOREM ListsFit == Spec => []TypeOK
  BY InitLists, ListsStep, InvImplies, PTL DEF Spec

\* Every Overflow in use belongs to exactly one node and every HugeOverflow
\* to exactly one Overflow, and none is kept empty: no operation on a node's
\* children leaks a list or lets two nodes share one.
THEOREM ListsHaveOneOwner == Spec => []ListsOwned
  BY InitLists, ListsStep, InvImplies, PTL DEF Spec

\* alloc never meets an occupied slot on the arena's free list
\* ("free_head points to occupied slot"), and no free slot is lost to it.
THEOREM OverflowFreeListCorrect == Spec => []ArenaFreeList
  BY InitLists, ListsStep, InvImplies, PTL DEF Spec

\* find and iter tell of the same children, each once, however swap_remove
\* has moved them between and within the lists.
THEOREM FindAgreesWithIter == Spec => []FindAgrees
  BY InitLists, ListsStep, InvImplies, PTL DEF Spec

\* The three levels of lists are the function from radixes to children that
\* the tree takes them for: push adds one entry, remove takes one away, the
\* recompression and the split hand them on unchanged, and no other node's
\* children change.
THEOREM ListsImplementChildMap == Spec => ImplementsChildMap
  <1>1. ListInv /\ [Next]_vars => ListInv' /\ [Map!Next]_<<[o \in DOMAIN node |-> Children(o)], op>>
    BY ListsStep DEF Kids
  <1> QED BY InitLists, InitKids, <1>1, PTL DEF Spec, ImplementsChildMap, Map!Spec
=============================================================================
