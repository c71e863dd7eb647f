------------------------------ MODULE MCOxidArt ------------------------------
(* Small instances of OxidArt for TLC. *)
EXTENDS OxidArt

CONSTANTS
  ra, rb, rc,   \* the bytes keys are made of
  Volatile,     \* keys that are given a TTL
  Counted       \* keys that are used as counters

\* Keys that share prefixes of every length: splits inside a compression,
\* values on inner nodes, merges of two and of three pieces.
KeysDeep  == {<<ra>>, <<ra, ra, ra>>, <<ra, ra, rb>>, <<ra, rb>>}
KeysChain == {<<ra>>, <<ra, ra>>, <<ra, ra, rb>>}
NoKeys    == {}
\* The empty key, and a node with more children than fit inline.
KeysWide  == {<<>>, <<ra, ra>>, <<ra, rb>>, <<rb>>}

\* A key that shares no byte with another: its node is never split.
Leaf    == {<<rb>>}
Numbers == {<<>>, <<rb>>}

PrefixNone == {}
PrefixDeep == {<<>>, <<ra>>, <<ra, ra>>, <<rb>>}
PrefixWide == {<<ra>>, <<ra, ra>>, <<ra, rb>>, <<rb>>}

\* Text that parses as the greatest integer; i64 with two bits; every argument
\* but the least integer.
Numerals == {<<"Bytes", 1>>}
Least    == -2
Steps    == {-1, 0, 1}
NoSteps  == {}

WithTtl  == {"set", "get", "del", "deln", "getn", "expire", "persist", "tick"}
Evicting == WithTtl \cup {"ttl", "evict"}
NoDelete == {"set", "get", "deln", "getn", "collect", "incrby", "decrby", "ttl", "expire",
             "persist", "tick", "evict"}

\* In a tree without dangling indices the slots are only names, and one
\* choice stands for all of them.
Lowest(S) == {x \in S : \A y \in S : x <= y}

\* The entries of the tree, so that TLC computes them once per state.
VARIABLE map
Shadow == \E T \in {nodes'} : map' = Entries(T)

\* Clients use EXPIRE and PERSIST only where the answer is as documented: the
\* run documented_answers is about the other calls.
MCInit == Init /\ map = Entries(nodes)
MCNext ==
  \/ \E key \in Keys, v \in Vals, e \in Expiries :
       (e # NoExpiracy => key \in Volatile) /\ Set(key, v, e) /\ Shadow
  \/ \E key \in Keys : Get(key) /\ Shadow
  \/ \E key \in Keys : Del(key) /\ Shadow
  \/ \E p \in PrefixArgs : Deln(p) /\ Shadow
  \/ \E p \in PrefixArgs : Getn(p) /\ Shadow
  \/ \E key \in Volatile : GetTtl(key) /\ Shadow
  \/ \E key \in Volatile, t \in Ttls :
       ExpireAgrees(key) /\ Expire(key, now + t) /\ Shadow
  \/ \E key \in Keys : PersistAgrees(key) /\ Persist(key) /\ Shadow
  \/ \E key \in Keys \ Volatile : Collect(key) /\ Shadow
  \/ \E key \in Counted, d \in Deltas : IncrBy(key, d) /\ Shadow
  \/ \E key \in Counted, d \in Deltas : DecrBy(key, d) /\ Shadow
  \/ \E t \in 0 .. MaxNow : Tick(t) /\ Shadow
  \/ \E i \in Idx : Evict(i) /\ Shadow
MCSpec == MCInit /\ [][MCNext]_<<vars, map>>

KV == INSTANCE KeyValueStore WITH store <- map

\* Whatever the shape of the tree, every call answers and changes what the
\* plain map of KeyValueStore would (the public operations of lib.rs).
ImplementsMap == KV!Spec

\* No action reads the last call or its reply.
FullView == <<nodes = [i \in DOMAIN nodes |-> nodes[i]], nodes, tagged, now, panicked>>

\* States that differ only in the names of the slots, in the last reply (no
\* action reads it) or in what the evictor alone reads (tags and stored
\* parents) behave alike while no eviction happens and every node is linked
\* (WellLinked): the tree as the keys its nodes spell.
\* (The first component is TRUE; the comparison makes TLC evaluate the whole
\* state, which a view alone does not.)
ShapeView ==
  LET tree == Spelled(nodes, Root, nodes[Root].compression)
  IN  <<nodes = [i \in DOMAIN nodes |-> nodes[i]],
        {<<x[2], nodes[x[1]].val, nodes[x[1]].exp, DOMAIN nodes[x[1]].childs,
           DOMAIN nodes[x[1]].overflow>> : x \in tree},
        Cardinality(DOMAIN nodes), now, panicked>>

\* The same with what the evictor reads.
EvictView ==
  LET tree == Spelled(nodes, Root, nodes[Root].compression)
  IN  <<ShapeView, {<<x[2], x[1] \in tagged, nodes[x[1]].radix,
                      {y[2] : y \in {z \in tree : z[1] = nodes[x[1]].parent}}>> : x \in tree}>>
=============================================================================
