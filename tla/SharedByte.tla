----------------------------- MODULE SharedByte -----------------------------
(***************************************************************************)
(* Reference-counted strings: radixox-lib/src/shared_byte.rs.  A memory m  *)
(* has the allocations, m.heap, with their count and their text, and the   *)
(* places that hold a SharedByte, m.ptr: arguments and replies on their    *)
(* way, values in the tree.  The count has 16 bits and wraps in a release  *)
(* build (the assertion in clone is for debug builds).                     *)
(*                                                                         *)
(* A text is <<word, upper>>.                                              *)
(***************************************************************************)
EXTENDS Integers, FiniteSets

CONSTANTS
  Holder,   \* the places that can hold a SharedByte
  Addr,     \* the addresses of the allocator
  RcMod     \* the count is taken modulo this, 2^16

ASSUME SharedAssumption ==
  /\ IsFiniteSet(Holder) /\ IsFiniteSet(Addr)
  /\ Cardinality(Holder) <= Cardinality(Addr)
  /\ RcMod \in Nat /\ Cardinality(Holder) < RcMod

With(f, x, y) == [z \in DOMAIN f \cup {x} |-> IF z = x THEN y ELSE f[z]]

NoMemory == [heap |-> [a \in {} |-> [rc |-> 0, data |-> <<>>]], ptr |-> [h \in {} |-> 0]]

HoldersOf(m, a) == {h \in DOMAIN m.ptr : m.ptr[h] = a}

Holds(m, h) == h \in DOMAIN m.ptr
Data(m, h)  == m.heap[m.ptr[h]].data
Rc(m, h)    == m.heap[m.ptr[h]].rc

\* How many of the holders of a are in S.
Share(m, a, S) == Cardinality(HoldersOf(m, a) \cap S)

\* Drop::drop, of the SharedBytes that the places of S hold, one after the
\* other: the drop that takes a count to zero frees the memory.
Drop(m, S) ==
  [heap |-> [a \in {a \in DOMAIN m.heap : m.heap[a].rc = 0 \/ m.heap[a].rc > Share(m, a, S)} |->
               [rc |-> (m.heap[a].rc - Share(m, a, S)) % RcMod, data |-> m.heap[a].data]],
   ptr  |-> [h \in DOMAIN m.ptr \ S |-> m.ptr[h]]]

Fresh(m) == CHOOSE a \in Addr : a \notin DOMAIN m.heap

\* from_slice: a new allocation, that h alone holds.
FromSlice(m, h, d) ==
  LET a == Fresh(m)
  IN  [heap |-> With(m.heap, a, [rc |-> 1, data |-> d]), ptr |-> With(m.ptr, h, a)]

\* Seeded bug: the bits are copied and the count is not.
CloneBits(m, g, h) == [heap |-> m.heap, ptr |-> With(m.ptr, h, m.ptr[g])]

\* Clone::clone, of what g holds into h.
Clone(m, g, h) ==
  [heap |-> With(m.heap, m.ptr[g], [rc |-> (Rc(m, g) + 1) % RcMod, data |-> Data(m, g)]),
   ptr  |-> With(m.ptr, h, m.ptr[g])]

\* to_uppercase: in place for a sole holder, otherwise in a new allocation.
\* The count of the old one is not decremented.
ToUppercase(m, h) ==
  LET upper == <<Data(m, h)[1], TRUE>>
  IN  IF Rc(m, h) = 1
      THEN [heap |-> With(m.heap, m.ptr[h], [rc |-> 1, data |-> upper]), ptr |-> m.ptr]
      ELSE FromSlice(m, h, upper)

-----------------------------------------------------------------------------

\* The count of every allocation is the number of places that hold it, and
\* every allocation has one: none is freed while it is held, none is leaked.
Counted(m) ==
  /\ \A h \in DOMAIN m.ptr : m.ptr[h] \in DOMAIN m.heap
  /\ \A a \in DOMAIN m.heap : m.heap[a].rc = Cardinality(HoldersOf(m, a)) /\ m.heap[a].rc # 0
=============================================================================
