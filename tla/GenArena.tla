------------------------------ MODULE GenArena ------------------------------
(***************************************************************************)
(* radixox-lib/src/gen_arena.rs: a vector of slots whose vacant ones form  *)
(* a linked free list, and keys that carry the generation the slot had     *)
(* when they were handed out.                                              *)
(***************************************************************************)
EXTENDS Naturals, FiniteSets

CONSTANTS
  Data,      \* the values stored
  Nothing,   \* data: None
  Sentinel,  \* SENTINEL, the end of the free list; bounds the slots
  GenMod,    \* the generations are counted modulo GenMod, 2^32 in the code
  Capacity,  \* the argument of with_capacity
  WrapGen    \* whether a slot may be reused so often that its count wraps

ASSUME ArenaAssumption ==
  /\ Nothing \notin Data
  /\ Sentinel \in Nat
  /\ Capacity \in 0 .. Sentinel
  /\ GenMod \in Nat \ {0}
  /\ WrapGen \in BOOLEAN

VARIABLES
  slots,      \* the slots: [data, generation, next_free]
  size,       \* slots.len()
  free_head,  \* the first slot of the free list, or Sentinel
  len,        \* how many slots hold a value
  issued,     \* every key insert has returned (not in the code)
  ret         \* what the last call returned

arenaVars == <<slots, size, free_head, len>>
genVars == <<arenaVars, issued, ret>>

Slots == 0 .. size - 1
Generations == 0 .. GenMod - 1
AllKeys == [idx : 0 .. Sentinel - 1, generation : Generations]

Occupied == {i \in Slots : slots[i].data # Nothing}

\* Seeded bug: the generation is not compared.
ResolvesAnyGeneration(k) == k.idx \in Slots /\ slots[k.idx].data # Nothing

\* slot() and slot_mut(): the key is in range, current, and of a held value.
Resolves(k) ==
  /\ k.idx \in Slots
  /\ slots[k.idx].generation = k.generation
  /\ slots[k.idx].data # Nothing

Lookup(k) == IF Resolves(k) THEN slots[k.idx].data ELSE Nothing

\* grow_to(cap) on an arena of n slots whose free list starts at head.
Grown(s, n, head, cap) ==
  [i \in 0 .. cap - 1 |->
     IF i < n THEN s[i]
     ELSE [data |-> Nothing, generation |-> 0,
           next_free |-> IF i + 1 < cap THEN i + 1 ELSE head]]

ArenaInit ==
  /\ slots = Grown(<<>>, 0, Sentinel, Capacity)
  /\ size = Capacity
  /\ free_head = IF Capacity = 0 THEN Sentinel ELSE 0
  /\ len = 0
  /\ issued = {}
  /\ ret = Nothing

\* The slot idx of the slots s takes v and leaves the free list.
Fill(s, idx, v) ==
  /\ slots' = [s EXCEPT ![idx].data = v]
  /\ free_head' = s[idx].next_free
  /\ len' = len + 1
  /\ LET k == [idx |-> idx, generation |-> s[idx].generation]
     IN  issued' = issued \cup {k} /\ ret' = k

InsertFree(v) ==
  /\ free_head # Sentinel
  /\ Fill(slots, free_head, v)
  /\ UNCHANGED size

InsertGrow(v) ==
  /\ free_head = Sentinel
  /\ size < Sentinel
  /\ Fill(Grown(slots, size, free_head, size + 1), size, v)
  /\ size' = size + 1

\* Seeded bugs: the link or the generation is not written.
RemoveWith(k, next, g) ==
  /\ Resolves(k)
  /\ WrapGen \/ slots[k.idx].generation + 1 < GenMod
  /\ slots' = [slots EXCEPT ![k.idx] =
                 [data |-> Nothing, generation |-> g, next_free |-> next]]
  /\ free_head' = k.idx
  /\ len' = len - 1
  /\ ret' = slots[k.idx].data
  /\ UNCHANGED <<size, issued>>
NextGen(k) == (slots[k.idx].generation + 1) % GenMod
RemoveNoLink(k)       == RemoveWith(k, Sentinel, NextGen(k))
RemoveNoGeneration(k) == RemoveWith(k, free_head, slots[k.idx].generation)

Remove(k) ==
  /\ Resolves(k)
  /\ WrapGen \/ slots[k.idx].generation + 1 < GenMod
  /\ slots' = [slots EXCEPT ![k.idx] =
                 [data |-> Nothing, generation |-> (@.generation + 1) % GenMod,
                  next_free |-> free_head]]
  /\ free_head' = k.idx
  /\ len' = len - 1
  /\ ret' = slots[k.idx].data
  /\ UNCHANGED <<size, issued>>

RemoveStale(k) ==
  /\ ~Resolves(k)
  /\ ret' = Nothing
  /\ UNCHANGED <<arenaVars, issued>>

Get(k) ==
  /\ ret' = Lookup(k)
  /\ UNCHANGED <<arenaVars, issued>>

ArenaNext ==
  \/ \E v \in Data : InsertFree(v) \/ InsertGrow(v)
  \/ \E k \in issued : Remove(k) \/ RemoveStale(k) \/ Get(k)

ArenaSpec == ArenaInit /\ [][ArenaNext]_genVars

-----------------------------------------------------------------------------
SlotType == [data : Data \cup {Nothing}, generation : Generations,
             next_free : 0 .. Sentinel]

ArenaTypeOK ==
  /\ size \in 0 .. Sentinel
  /\ slots \in [Slots -> SlotType]
  /\ free_head \in 0 .. Sentinel
  /\ len \in Nat
  /\ issued \subseteq AllKeys

\* The count is the number of values held: len never drifts from the slots
\* however inserts, removals and stale removals are mixed.
LenCounts == len = Cardinality(Occupied)

\* s lists the vacant slots once each in the order of the free list.
IsChain(s) ==
  /\ \A i \in 1 .. size - len :
       /\ s[i] \in Slots \ Occupied
       /\ slots[s[i]].next_free = IF i = size - len THEN Sentinel ELSE s[i + 1]
  /\ \A i, j \in 1 .. size - len : s[i] = s[j] => i = j
  /\ \A x \in Slots \ Occupied : \E i \in 1 .. size - len : s[i] = x
  /\ free_head = IF size = len THEN Sentinel ELSE s[1]

\* Following next_free from free_head passes every vacant slot exactly once
\* and ends at SENTINEL: no slot is lost, none is handed out twice.
FreeListComplete == \E s \in [1 .. size - len -> Slots] : IsChain(s)

\* A key that was handed out belongs to the present or to an earlier
\* generation of its slot, to an earlier one when the slot is vacant.
KeysNotAhead ==
  \A k \in issued :
    /\ k.idx \in Slots
    /\ k.generation <= slots[k.idx].generation
    /\ slots[k.idx].data = Nothing => k.generation < slots[k.idx].generation

\* The values the arena holds, by the key that reaches them.
Content == [k \in {x \in issued : Resolves(x)} |-> slots[k.idx].data]

Pool == INSTANCE KeyPool WITH content <- Content, Keys <- AllKeys

\* A key is never handed out twice and a removed value's key resolves to
\* nothing ever after ("once a slot is removed its Key returns None on any
\* future lookup", doc of GenArena).
ImplementsPool == Pool!Spec
=============================================================================
