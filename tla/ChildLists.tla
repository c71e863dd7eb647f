------------------------------ MODULE ChildLists ------------------------------
(***************************************************************************)
(* oxidart/src/node_childs.rs and its users in lib.rs: where a node keeps  *)
(* its children.  The first ChildsSize are in the node, the next LightSize *)
(* in an Overflow of the overflow arena, all others in a HugeOverflow of a *)
(* thread-local slab.  Lists are unordered: a removal moves the last entry *)
(* into the gap.  OxidArt treats the three as one function per level.      *)
(***************************************************************************)
EXTENDS Naturals, Sequences, FiniteSets, Functions

CONSTANTS
  Owners,      \* the nodes
  Radixes, Idxs,
  Nil,         \* u32::MAX as an index, None of an Option
  ChildsSize,  \* CHILDS_SIZE
  LightSize,   \* LIGHT_OVERFLOW_SIZE
  HugeCapacity \* HUGE_OVERFLOW_CAPACITY

ASSUME ChildListsAssumption ==
  /\ {ChildsSize, LightSize, HugeCapacity} \subseteq Nat \ {0}
  /\ Nil \notin Nat \cup Idxs
  /\ IsFiniteSet(Radixes)
  \* "HUGE_OVERFLOW_CAPACITY = ASCII_MAX_CHAR - CHILDS_SIZE"
  /\ Cardinality(Radixes) <= HugeCapacity + ChildsSize

VARIABLES
  node,       \* the live nodes: [childs, overflow_idx]
  slots,      \* OverflowArena.slots
  free_head,  \* OverflowArena.free_head
  count,      \* OverflowArena.count
  huge,       \* HUGE_OVF: the occupied slots of the slab
  op          \* the last operation, with its arguments (not in the code)

listVars == <<node, slots, free_head, count, huge>>
vars == <<listVars, op>>

Node(childs, idx) == [childs |-> childs, overflow_idx |-> idx]
Leaf == Node(<<>>, Nil)

Item(light, big) == [slot |-> "Item", light |-> light, big_overflow_idx |-> big]
NextFree(n)      == [slot |-> "NextFree", next |-> n]
Used == {s \in DOMAIN slots : slots[s].slot = "Item"}

Lists(s, r) == \E n \in DOMAIN s : s[n][1] = r
Position(s, r) == CHOOSE n \in DOMAIN s : s[n][1] = r

\* Seeded bug: the last entry is dropped, not moved.
SwapRemoveLast(s, r) == [n \in 1 .. Len(s) - 1 |-> s[n]]

\* remove of Childs, Overflow and HugeOverflow: the last entry moves into the gap.
SwapRemove(s, r) ==
  [n \in 1 .. Len(s) - 1 |-> IF n = Position(s, r) THEN s[Len(s)] ELSE s[n]]

Overflow(o) == slots[node[o].overflow_idx]

\* The lists that find searches after childs, and iter chains to them.
Light(o) == IF node[o].overflow_idx = Nil THEN <<>> ELSE Overflow(o).light
Huge(o) ==
  IF node[o].overflow_idx = Nil \/ Overflow(o).big_overflow_idx = Nil THEN <<>>
  ELSE huge[Overflow(o).big_overflow_idx]

At(s, r) == IF Lists(s, r) THEN s[Position(s, r)][2] ELSE Nil

\* Seeded bug: the HugeOverflow is not searched.
FindNotHuge(o, r) ==
  IF Lists(node[o].childs, r) THEN At(node[o].childs, r) ELSE At(Light(o), r)

Find(o, r) ==
  IF Lists(node[o].childs, r) THEN At(node[o].childs, r)
  ELSE IF Lists(Light(o), r) THEN At(Light(o), r)
  ELSE At(Huge(o), r)

Put(f, x, y) == [z \in DOMAIN f \cup {x} |-> IF z = x THEN y ELSE f[z]]
Without(f, S) == Restrict(f, DOMAIN f \ S)

Init ==
  /\ node = [o \in {} |-> Leaf]
  /\ slots = <<>>
  /\ free_head = Nil
  /\ count = 0
  /\ huge = [h \in {} |-> <<>>]
  /\ op = <<>>

-----------------------------------------------------------------------------
(* The overflow arena.                                                     *)

\* Seeded bug: the slot taken stays on the free list.
AllocKeepsHead(light) ==
  /\ slots' = IF free_head = Nil THEN Append(slots, Item(light, Nil))
              ELSE [slots EXCEPT ![free_head] = Item(light, Nil)]
  /\ UNCHANGED free_head
  /\ count' = count + 1

\* alloc, with what is pushed into the fresh Overflow.  Slots are numbered
\* from 1.
Alloc(light) ==
  /\ \/ /\ free_head # Nil
        /\ slots' = [slots EXCEPT ![free_head] = Item(light, Nil)]
        /\ free_head' = slots[free_head].next
     \/ /\ free_head = Nil
        /\ slots' = Append(slots, Item(light, Nil))
        /\ UNCHANGED free_head
  /\ count' = count + 1

Allocated == IF free_head # Nil THEN free_head ELSE Len(slots) + 1

\* Seeded bug: the HugeOverflow is not dropped.
FreeKeepsHuge(i, big) ==
  /\ slots' = [slots EXCEPT ![i] = NextFree(free_head)]
  /\ free_head' = i
  /\ count' = count - 1
  /\ UNCHANGED huge

\* free, with drop_huge of the HugeOverflow big.
Free(i, big) ==
  /\ slots' = [slots EXCEPT ![i] = NextFree(free_head)]
  /\ free_head' = i
  /\ count' = count - 1
  /\ huge' = Without(huge, {big})

-----------------------------------------------------------------------------
(* The operations of the tree on a node's children.                        *)

New(o) ==
  /\ op' = <<"new", o>>
  /\ o \notin DOMAIN node
  /\ node' = Put(node, o, Leaf)
  /\ UNCHANGED <<slots, free_head, count, huge>>

\* Seeded bug: is_full is off by one.
PushInlineOneMore(o, r, i) ==
  /\ Len(node[o].childs) <= ChildsSize
  /\ node' = [node EXCEPT ![o] = Node(Append(@.childs, <<r, i>>), @.overflow_idx)]
  /\ UNCHANGED <<slots, free_head, count, huge>>

\* push_child_idx.  Its callers have looked for r in vain; the assertion of
\* Childs::push that r is not the byte 0 is left to Radixes, the other bytes.
PushInline(o, r, i) ==
  /\ Len(node[o].childs) < ChildsSize
  /\ node' = [node EXCEPT ![o] = Node(Append(@.childs, <<r, i>>), @.overflow_idx)]
  /\ UNCHANGED <<slots, free_head, count, huge>>

PushFirst(o, r, i) ==
  /\ Len(node[o].childs) = ChildsSize /\ node[o].overflow_idx = Nil
  /\ Alloc(<< <<r, i>> >>)
  /\ node' = [node EXCEPT ![o] = Node(@.childs, Allocated)]
  /\ UNCHANGED huge

PushLight(o, r, i) ==
  /\ Len(node[o].childs) = ChildsSize /\ node[o].overflow_idx # Nil
  /\ Len(Overflow(o).light) < LightSize
  /\ slots' = [slots EXCEPT ![node[o].overflow_idx] =
                 Item(Append(@.light, <<r, i>>), @.big_overflow_idx)]
  /\ UNCHANGED <<node, free_head, count, huge>>

PushHuge(o, r, i) ==
  /\ Len(node[o].childs) = ChildsSize /\ node[o].overflow_idx # Nil
  /\ Len(Overflow(o).light) = LightSize
  /\ \/ /\ Overflow(o).big_overflow_idx # Nil
        /\ huge' = [huge EXCEPT ![Overflow(o).big_overflow_idx] = Append(@, <<r, i>>)]
        /\ UNCHANGED slots
     \/ /\ Overflow(o).big_overflow_idx = Nil
        /\ LET h == CHOOSE x \in 1 .. Cardinality(DOMAIN huge) + 1 : x \notin DOMAIN huge
           IN  /\ huge' = Put(huge, h, << <<r, i>> >>)
               /\ slots' = [slots EXCEPT ![node[o].overflow_idx] = Item(@.light, h)]
  /\ UNCHANGED <<node, free_head, count>>

Push(o, r, i) ==
  /\ op' = <<"push", o, r, i>>
  /\ Find(o, r) = Nil
  /\ PushInline(o, r, i) \/ PushFirst(o, r, i) \/ PushLight(o, r, i) \/ PushHuge(o, r, i)

\* remove_child.
RemoveInline(o, r) ==
  /\ Lists(node[o].childs, r)
  /\ node' = [node EXCEPT ![o] = Node(SwapRemove(@.childs, r), @.overflow_idx)]
  /\ UNCHANGED <<slots, free_head, count, huge>>

\* is_empty of an Overflow with these parts.
EmptyOverflow(light, big) == light = <<>> /\ big = Nil

\* The Overflow of o is left with these parts, kept or freed when empty, and
\* the HugeOverflow gone is taken out of the slab.
LeaveOverflow(o, light, big, gone) ==
  IF EmptyOverflow(light, big)
  THEN /\ Free(node[o].overflow_idx, gone)
       /\ node' = [node EXCEPT ![o] = Node(@.childs, Nil)]
  ELSE /\ slots' = [slots EXCEPT ![node[o].overflow_idx] = Item(light, big)]
       /\ huge' = Without(huge, {gone})
       /\ UNCHANGED <<node, free_head, count>>

RemoveLight(o, r) ==
  /\ ~Lists(node[o].childs, r) /\ node[o].overflow_idx # Nil
  /\ Lists(Light(o), r)
  /\ LeaveOverflow(o, SwapRemove(Light(o), r), Overflow(o).big_overflow_idx, Nil)

\* The last entry of a HugeOverflow takes it out of the slab.
RemoveHuge(o, r) ==
  /\ ~Lists(node[o].childs, r) /\ node[o].overflow_idx # Nil
  /\ ~Lists(Light(o), r) /\ Lists(Huge(o), r)
  /\ LET big  == Overflow(o).big_overflow_idx
         rest == SwapRemove(Huge(o), r)
     IN  IF rest # <<>>
         THEN /\ huge' = [huge EXCEPT ![big] = rest]
              /\ UNCHANGED <<node, slots, free_head, count>>
         ELSE LeaveOverflow(o, Light(o), Nil, big)

RemoveChild(o, r) ==
  /\ op' = <<"remove", o, r>>
  /\ RemoveInline(o, r) \/ RemoveLight(o, r) \/ RemoveHuge(o, r)

\* A node leaves the tree (free_subtree_iterative and free_chunk; the other
\* deletions only remove nodes without children).
Drop(o) ==
  /\ op' = <<"drop", o>>
  /\ node' = Without(node, {o})
  /\ IF node[o].overflow_idx = Nil
     THEN UNCHANGED <<slots, free_head, count, huge>>
     ELSE Free(node[o].overflow_idx, Overflow(o).big_overflow_idx)

\* try_recompress: the lists of the only child c replace those of o.
Absorb(o, c) ==
  /\ op' = <<"absorb", o, c>>
  /\ Len(node[o].childs) = 1 /\ node[o].overflow_idx = Nil
  /\ node' = Without(Put(node, o, node[c]), {c})
  /\ UNCHANGED <<slots, free_head, count, huge>>

\* split_node: the lists of o move to the new node c, o keeps c alone.
Split(o, c, r, i) ==
  /\ op' = <<"split", o, c, r, i>>
  /\ c \notin DOMAIN node
  /\ node' = Put(Put(node, c, node[o]), o, Node(<< <<r, i>> >>, Nil))
  /\ UNCHANGED <<slots, free_head, count, huge>>

Next ==
  \/ \E o \in Owners : New(o)
  \/ \E o \in DOMAIN node :
       \/ Drop(o)
       \/ \E r \in Radixes : RemoveChild(o, r)
       \/ \E r \in Radixes, i \in Idxs : Push(o, r, i)
       \/ \E c \in DOMAIN node \ {o} : Absorb(o, c)
       \/ \E c \in Owners, r \in Radixes, i \in Idxs : Split(o, c, r, i)

Spec == Init /\ [][Next]_vars

-----------------------------------------------------------------------------
ListOf(s, max) == s \in Seq(Radixes \X Idxs) /\ Len(s) <= max

\* No list is longer than its array, and every index is of a list in use.
TypeOK ==
  /\ DOMAIN node \subseteq Owners
  /\ \A o \in DOMAIN node :
       /\ node[o] = Node(node[o].childs, node[o].overflow_idx)
       /\ ListOf(node[o].childs, ChildsSize)
       /\ node[o].overflow_idx \in Used \cup {Nil}
  /\ slots \in Seq([slot : {"Item"}, light : Seq(Radixes \X Idxs),
                    big_overflow_idx : DOMAIN huge \cup {Nil}]
                   \cup [slot : {"NextFree"}, next : Nat \cup {Nil}])
  /\ \A s \in Used : Len(slots[s].light) <= LightSize
  /\ IsFiniteSet(DOMAIN huge) /\ DOMAIN huge \subseteq Nat
  /\ \A h \in DOMAIN huge : ListOf(huge[h], HugeCapacity)

\* Every Overflow in use belongs to one node and every HugeOverflow to one
\* Overflow, and neither is kept when it is empty: push_child_idx,
\* remove_child, try_recompress, split_node and the frees neither leak a list
\* nor leave two nodes with the same one.
ListsOwned ==
  /\ \A s \in Used :
       /\ slots[s].light # <<>> \/ slots[s].big_overflow_idx # Nil
       /\ \E o \in DOMAIN node : \A p \in DOMAIN node : node[p].overflow_idx = s <=> p = o
  /\ \A h \in DOMAIN huge :
       /\ huge[h] # <<>>
       /\ \E s \in Used : \A t \in Used : slots[t].big_overflow_idx = h <=> t = s

\* chain lists the free slots once each in the order of the free list.
IsFreeList(chain) ==
  LET n == Len(slots) - count
  IN  /\ \A k \in 1 .. n :
           /\ chain[k] \notin Used
           /\ slots[chain[k]].next = IF k = n THEN Nil ELSE chain[k + 1]
      /\ \A s \in DOMAIN slots \ Used : \E k \in 1 .. n : chain[k] = s
      /\ \A k, l \in 1 .. n : chain[k] = chain[l] => k = l
      /\ free_head = IF n = 0 THEN Nil ELSE chain[1]

\* The free list of the arena passes every free slot once and nothing else
\* ("free_head points to occupied slot" is unreachable), and count counts the
\* slots in use.
ArenaFreeList ==
  /\ count = Cardinality(Used)
  /\ \E chain \in [1 .. Len(slots) - count -> DOMAIN slots] : IsFreeList(chain)

\* The entries of o as iter lists them.
Entries(o) == Range(node[o].childs) \cup Range(Light(o)) \cup Range(Huge(o))

Children(o) ==
  [r \in {e[1] : e \in Entries(o)} |-> (CHOOSE e \in Entries(o) : e[1] = r)[2]]

Map == INSTANCE ChildMap WITH kids <- [o \in DOMAIN node |-> Children(o)]

\* Whichever lists a child is in, and however often removals have moved it,
\* the node's children are those of a plain function.
ImplementsChildMap == Map!Spec

\* A list, or two of them, name no radix twice.
Once(s)     == \A n, k \in DOMAIN s : s[n][1] = s[k][1] => n = k
Apart(s, t) == \A e \in Range(s), f \in Range(t) : e[1] # f[1]

\* find and iter tell the same children, each of them once.
FindAgrees ==
  \A o \in DOMAIN node :
    /\ Once(node[o].childs) /\ Once(Light(o)) /\ Once(Huge(o))
    /\ Apart(node[o].childs, Light(o)) /\ Apart(node[o].childs, Huge(o))
    /\ Apart(Light(o), Huge(o))
    /\ \A r \in Radixes :
         Find(o, r) = IF r \in DOMAIN Children(o) THEN Children(o)[r] ELSE Nil
=============================================================================
