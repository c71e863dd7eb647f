------------------------------- MODULE OxidArt -------------------------------
(***************************************************************************)
(* The path-compressed radix tree of oxidart/src/lib.rs.  A node is        *)
(* reached from its parent by one radix and then spells its compression;   *)
(* the first ChildsSize children are inline, the others in the overflow    *)
(* list the node owns.  Every node also stores where it hangs (parent and  *)
(* radix), which only the evictor uses.                                    *)
(*                                                                         *)
(* One action is one call of the public interface: the runtime is single   *)
(* threaded and the tree is borrowed for the whole call.                   *)
(***************************************************************************)
EXTENDS Integers, Sequences, FiniteSets, SequencesExt

CONSTANTS
  Keys, PrefixArgs, Vals, Collection, Ttls, NoExpiracy, MaxNow, Nil,
  Deltas,      \* arguments of INCRBY and DECRBY
  MinInt, MaxInt,  \* the range of i64
  Idx,         \* indices the slab can hand out, other than the root's
  Root,        \* root_idx
  Candidates(_),  \* the unoccupied slots the slab may choose from next
  ChildsSize,  \* CHILDS_SIZE, the inline children of a node
  Commands     \* the operations clients use

ASSUME ConstantsAssumption ==
  /\ Root \notin Idx
  /\ Nil \notin Idx /\ Nil # Root
  /\ \A S \in SUBSET Idx : Candidates(S) \subseteq S
  /\ ChildsSize \in Nat \ {0}
  /\ MaxNow \in Nat /\ NoExpiracy \in Nat /\ MaxNow < NoExpiracy
  /\ Ttls \subseteq Nat
  /\ MinInt \in Int /\ MaxInt = 0 - MinInt - 1
  /\ Deltas \subseteq MinInt .. MaxInt

\* Slots are numbered by u32.
ASSUME SlabAssumption == IsFiniteSet(Idx)

VARIABLES
  nodes,     \* map: the occupied slots of the slab
  tagged,    \* the slots tagged for the evictor's sampling
  now,       \* the clock, in seconds
  panicked,  \* an expect, unwrap or assert failed: the process is gone
  call,      \* the last call, with its key or prefix
  ret        \* what it returned, Nil when it returns nothing

vars == <<nodes, tagged, now, panicked, call, ret>>

Radixes == UNION {Range(k) : k \in Keys \cup PrefixArgs}
Indices == Idx \cup {Root}
Values  == Vals \cup {Collection} \cup {<<"Int", n>> : n \in MinInt .. MaxInt}

ASSUME DataAssumption ==
  /\ Keys \cup PrefixArgs \subseteq Seq(Radixes)
  /\ Nil \notin Values

Node(comp, val, exp, parent, radix) ==
  [compression |-> comp, childs |-> <<>>, overflow |-> <<>>, val |-> val,
   exp |-> exp, parent |-> parent, radix |-> radix]

-----------------------------------------------------------------------------
(* Reading a tree T, a function from occupied slots to nodes.               *)

\* Seeded bug: an entry expires one second early.
ExpiredEarly(n) == n.exp # NoExpiracy /\ n.exp <= now

IsExpired(n) == n.exp # NoExpiracy /\ n.exp < now
HasVal(n)    == n.val # Nil
GetValue(n)  == IF HasVal(n) /\ ~IsExpired(n) THEN n.val ELSE Nil

HasChildren(n) == DOMAIN n.childs # {} \/ DOMAIN n.overflow # {}
ChildIdxs(n)   == Range(n.childs) \cup Range(n.overflow)

Find(T, i, r) ==
  IF r \in DOMAIN T[i].childs THEN T[i].childs[r]
  ELSE IF r \in DOMAIN T[i].overflow THEN T[i].overflow[r] ELSE Nil

Rest(key, c) == SubSeq(key, c + 1, Len(key))

\* At x = <<i, c>>, node i with c bytes of key consumed: the child for the
\* next byte, and whether the rest of the key strictly extends what that
\* child spells (CompResult::Path).
Below(T, key, x) == Find(T, x[1], key[x[2] + 1])
GoesOn(T, key, x) ==
  LET j == Below(T, key, x)
  IN  j \in DOMAIN T /\ IsStrictPrefix(T[j].compression, Rest(key, x[2] + 1))

\* The loop every operation walks a non-empty key with.  It stops at the
\* node i, having consumed c bytes, whose child j for key[c + 1] is missing,
\* dangling, or carries a compression the rest of the key does not strictly
\* extend.
Walk(T, key) ==
  LET walk[x \in (DOMAIN T) \X (0 .. Len(key) - 1)] ==
        LET j == Below(T, key, x)
        IN  IF GoesOn(T, key, x)
            THEN walk[<<j, x[2] + 1 + Len(T[j].compression)>>]
            ELSE <<x[1], x[2], j>>
  IN  walk[<<Root, 0>>]

\* traverse_to_key: the node that spells exactly key, or Nil.
Traverse(T, key) ==
  IF key = <<>> THEN Root
  ELSE LET w == Walk(T, key)
       IN  IF w[3] \in DOMAIN T /\ T[w[3]].compression = Rest(key, w[2] + 1)
           THEN w[3] ELSE Nil

\* find_prefix_node: the topmost node whose spelling extends prefix p.
Cover(T, p) ==
  IF p = <<>> THEN Root
  ELSE LET w == Walk(T, p)
       IN  IF w[3] \in DOMAIN T /\ IsPrefix(Rest(p, w[2] + 1), T[w[3]].compression)
           THEN w[3] ELSE Nil

\* The slots a depth-first walk from the slots S visits: the least set that
\* holds the occupied ones of S and is closed under "is a child of".
Subtree(T, S) ==
  LET closed == {C \in SUBSET DOMAIN T :
                   /\ S \cap DOMAIN T \subseteq C
                   /\ \A x \in C : ChildIdxs(T[x]) \cap DOMAIN T \subseteq C}
  IN  {i \in DOMAIN T : \A C \in closed : i \in C}

Kids(n) == {<<r, n.childs[r]>> : r \in DOMAIN n.childs}
           \cup {<<r, n.overflow[r]>> : r \in DOMAIN n.overflow}

\* collect_all: the nodes from start downwards with the key each one spells;
\* path is what start itself spells.
Spelled(T, start, path) ==
  LET below(x) == {<<k[2], x[2] \o <<k[1]>> \o T[k[2]].compression>> :
                     k \in {y \in Kids(T[x[1]]) : y[2] \in DOMAIN T}}
      level[d \in 0 .. Cardinality(Indices)] ==
        IF d = 0 THEN <<{}, {<<start, path>>}>>
        ELSE LET p == level[d - 1]
             IN  <<p[1] \cup p[2], UNION {below(x) : x \in p[2]}>>
  IN  level[Cardinality(Indices)][1]

\* Seeded bug: the compression below the prefix is not spelled.
CoverPathOfPrefix(T, p) == p

\* What the node Cover(T, p) spells.
CoverPath(T, p) ==
  IF p = <<>> THEN T[Root].compression
  ELSE SubSeq(p, 1, Walk(T, p)[2] + 1) \o T[Cover(T, p)].compression

-----------------------------------------------------------------------------
(* Changing a tree.                                                         *)

Extend(f, x, y) == [z \in DOMAIN f \cup {x} |-> IF z = x THEN y ELSE f[z]]
Without(f, S)   == Restrict(f, DOMAIN f \ S)
FreeIdx(T)      == Candidates(Idx \ DOMAIN T)

\* Seeded bug: the inline children are not counted.
PushChildInline(T, p, r, i) == [T EXCEPT ![p].childs = Extend(@, r, i)]

\* push_child_idx: inline while there is room, then in the overflow list.
\* Childs::push also asserts that the radix is not the byte 0; Radixes are
\* the other bytes.
PushChild(T, p, r, i) ==
  IF Cardinality(DOMAIN T[p].childs) < ChildsSize
  THEN [T EXCEPT ![p].childs = Extend(@, r, i)]
  ELSE [T EXCEPT ![p].overflow = Extend(@, r, i)]

\* remove_child: nothing happens when the parent or the radix is not there.
RemoveChild(T, p, r) ==
  IF p \notin DOMAIN T THEN T
  ELSE IF r \in DOMAIN T[p].childs
       THEN [T EXCEPT ![p].childs = Without(@, {r})]
       ELSE [T EXCEPT ![p].overflow = Without(@, {r})]

\* ensure: an empty leaf under p.
AddLeaf(T, p, rest, i) ==
  PushChild(Extend(T, i, Node(Tail(rest), Nil, NoExpiracy, p, Head(rest))),
            p, Head(rest), i)

\* split_node without the new value: i keeps the first n bytes of its
\* compression and one child, b, which takes over everything else i had.
\* That includes the radix i hangs by, and the children's parent stays i.
SplitNode(T, i, n, b) ==
  LET comp == T[i].compression
      top  == Node(SubSeq(comp, 1, n), Nil, NoExpiracy, T[i].parent, T[i].radix)
  IN  Extend([T EXCEPT ![i] = [top EXCEPT !.childs =
                                 Extend(<<>>, comp[n + 1], b)]],
             b, [T[i] EXCEPT !.compression = Rest(comp, n + 1), !.parent = i])

\* The key leaves the compression of j after n bytes, and rest is left of it:
\* j is split and gets a second child.
Fork(T, j, n, rest) ==
  UNION {LET S == SplitNode(T, j, n, b)
         IN  {<<AddLeaf(S, j, rest, a), a>> : a \in FreeIdx(S)} : b \in FreeIdx(T)}

\* ensure_key, the shape changes of set_internal included: the pairs of a
\* tree that has a node for key, and that node.  Empty when the walk ends on
\* a dangling index (both callers panic) or no slot is free.
EnsureKey(T, key) ==
  IF key = <<>> THEN {<<T, Root>>}
  ELSE LET w    == Walk(T, key)
           j    == w[3]
           rest == Rest(key, w[2] + 1)
           n    == Len(LongestCommonPrefix({T[j].compression, rest}))
       IN  IF j = Nil
           THEN {<<AddLeaf(T, w[1], Rest(key, w[2]), a), a>> : a \in FreeIdx(T)}
           ELSE IF j \notin DOMAIN T THEN {}
           ELSE IF T[j].compression = rest THEN {<<T, j>>}
           ELSE IF n = Len(rest)
           THEN {<<SplitNode(T, j, n, b), j>> : b \in FreeIdx(T)}
           ELSE Fork(T, j, n, Rest(rest, n))

\* The walk for key ends on an index that is not occupied.
Dangles(T, key) ==
  key # <<>> /\ Walk(T, key)[3] \notin DOMAIN T \cup {Nil}

\* Seeded bugs: the absorbed child's slot is not freed, or the radix between
\* the two compressions is forgotten.
Absorbing(T, i) ==
  /\ i \in DOMAIN T /\ ~HasVal(T[i])
  /\ Cardinality(DOMAIN T[i].childs) = 1 /\ DOMAIN T[i].overflow = {}
  /\ ChildIdxs(T[i]) \subseteq DOMAIN T
RecompressLeaking(T, i) ==
  IF ~Absorbing(T, i) THEN T
  ELSE LET r == CHOOSE x \in DOMAIN T[i].childs : TRUE
       IN  [T EXCEPT ![i] = [T[T[i].childs[r]] EXCEPT
                               !.compression = T[i].compression \o <<r>> \o @]]
RecompressNoRadix(T, i) ==
  IF ~Absorbing(T, i) THEN T
  ELSE LET c == CHOOSE x \in ChildIdxs(T[i]) : TRUE
       IN  [x \in DOMAIN T \ {c} |->
              IF x = i THEN [T[c] EXCEPT !.compression = T[i].compression \o @] ELSE T[x]]

\* The merge of try_recompress: i takes over what its child c, below r, holds.
Absorb(T, i, r, c) ==
  [x \in DOMAIN T \ {c} |->
     IF x = i
     THEN [T[c] EXCEPT !.compression = T[i].compression \o <<r>> \o @,
                       !.parent = T[i].parent]
     ELSE IF x \in ChildIdxs(T[c]) THEN [T[x] EXCEPT !.parent = i]
     ELSE T[x]]

\* try_recompress: a node without value absorbs its only, inline, child.
Recompress(T, i) ==
  IF /\ i \in DOMAIN T
     /\ ~HasVal(T[i])
     /\ Cardinality(DOMAIN T[i].childs) = 1
     /\ DOMAIN T[i].overflow = {}
     /\ ChildIdxs(T[i]) \subseteq DOMAIN T
  THEN LET r == CHOOSE x \in DOMAIN T[i].childs : TRUE
       IN  Absorb(T, i, r, T[i].childs[r])
  ELSE T

\* Seeded bugs: the parent is never recompressed, or the root is too.
CutNoRecompress(T, S, p, r)   == RemoveChild(Without(T, S), p, r)
CutRecompressRoot(T, S, p, r) == Recompress(RemoveChild(Without(T, S), p, r), p)

\* Free the slots S and unlink them from p.
Cut(T, S, p, r) ==
  LET U == RemoveChild(Without(T, S), p, r)
  IN  IF p = Root THEN U ELSE Recompress(U, p)

ClearVal(T, i) == Recompress([T EXCEPT ![i].val = Nil], i)

\* delete_node_inline and delete_node_for_eviction.
DeleteNode(T, i, p, r) ==
  IF HasChildren(T[i]) THEN ClearVal(T, i) ELSE Cut(T, {i}, p, r)

\* DeleteNode with the parent the walk for key passed.
DeleteAt(T, key) ==
  LET w == Walk(T, key)
  IN  DeleteNode(T, Traverse(T, key), w[1], key[w[2] + 1])

-----------------------------------------------------------------------------
(* The operations.                                                          *)

Init ==
  /\ nodes = [i \in {Root} |-> Node(<<>>, Nil, NoExpiracy, Nil, Nil)]
  /\ tagged = {}
  /\ now = 0
  /\ panicked = FALSE
  /\ call = <<"new", Nil>> /\ ret = Nil

Does(cmd) == ~panicked /\ cmd \in Commands

\* The slab after a call.  Removing a node drops its tag; a node is inserted
\* tagged when it has an expiry, and no other write of an expiry tags it.
Update(T) ==
  /\ nodes' = T
  /\ tagged' = (tagged \cap DOMAIN T)
                \cup {i \in DOMAIN T \ DOMAIN nodes : T[i].exp # NoExpiracy}

Reply(cmd, arg, result) == call' = <<cmd, arg>> /\ ret' = result

Panic(cmd, arg) ==
  /\ panicked' = TRUE
  /\ Reply(cmd, arg, Nil)
  /\ UNCHANGED <<nodes, tagged, now>>

\* set and set_ttl.
Set(key, v, e) ==
  /\ Does("set")
  /\ IF e > NoExpiracy \/ Dangles(nodes, key) THEN Panic("set", key)
     ELSE /\ \E r \in EnsureKey(nodes, key) :
               Update([r[1] EXCEPT ![r[2]].val = v, ![r[2]].exp = e])
          /\ Reply("set", key, Nil)
          /\ UNCHANGED <<now, panicked>>

Get(key) ==
  /\ Does("get")
  /\ LET i == Traverse(nodes, key)
     IN  IF i = Nil \/ ~IsExpired(nodes[i])
         THEN /\ Reply("get", key, IF i = Nil THEN Nil ELSE nodes[i].val)
              /\ UNCHANGED <<nodes, tagged>>
         ELSE /\ Reply("get", key, Nil)
              /\ Update(IF key = <<>> THEN ClearVal(nodes, Root)
                                      ELSE DeleteAt(nodes, key))
  /\ UNCHANGED <<now, panicked>>

Del(key) ==
  /\ Does("del")
  /\ LET i == Traverse(nodes, key)
     IN  /\ Reply("del", key, IF i = Nil THEN Nil ELSE nodes[i].val)
         /\ Update(IF key = <<>> THEN ClearVal(nodes, Root)
                   ELSE IF \/ i = Nil
                           \/ HasChildren(nodes[i]) /\ ~HasVal(nodes[i])
                        THEN nodes
                   ELSE DeleteAt(nodes, key))
  /\ UNCHANGED <<now, panicked>>

\* deln.  Emptying the whole tree keeps the root's overflow list.
Deln(p) ==
  /\ Does("deln")
  /\ LET t == Cover(nodes, p)
         S == Subtree(nodes, IF p = <<>> THEN ChildIdxs(nodes[Root]) ELSE {t})
         gone == IF p = <<>> THEN S \cup {Root} ELSE S
     IN  /\ Reply("deln", p, Cardinality({i \in gone : HasVal(nodes[i])}))
         /\ Update(IF t = Nil THEN nodes
                   ELSE IF p = <<>>
                   THEN [Without(nodes, S) EXCEPT ![Root].val = Nil,
                                                  ![Root].childs = <<>>]
                   ELSE LET w == Walk(nodes, p)
                        IN  Cut(nodes, S, w[1], p[w[2] + 1]))
  /\ UNCHANGED <<now, panicked>>

Getn(p) ==
  /\ Does("getn")
  /\ Reply("getn", p,
           IF Cover(nodes, p) = Nil THEN {}
           ELSE {<<x[2], nodes[x[1]].val>> :
                   x \in {y \in Spelled(nodes, Cover(nodes, p),
                                         CoverPath(nodes, p)) :
                            GetValue(nodes[y[1]]) # Nil}})
  /\ UNCHANGED <<nodes, tagged, now, panicked>>

\* get_ttl: the remaining seconds, or which of the two other answers.
GetTtl(key) ==
  /\ Does("ttl")
  /\ LET i == Traverse(nodes, key)
     IN  Reply("ttl", key,
               IF i = Nil THEN <<"KeyNotExist">>
               ELSE IF IsExpired(nodes[i]) THEN <<"KeyNotExist">>
               ELSE IF nodes[i].exp = NoExpiracy THEN <<"KeyWithoutTtl">>
               ELSE <<"KeyWithTtl", nodes[i].exp - now>>)
  /\ UNCHANGED <<nodes, tagged, now, panicked>>

\* expire: the answer is whether the node had no expiry before.
Expire(key, e) ==
  /\ Does("expire")
  /\ LET i == Traverse(nodes, key)
     IN  IF (IF i = Nil THEN TRUE ELSE IsExpired(nodes[i]))
         THEN /\ Reply("expire", key, FALSE)
              /\ UNCHANGED <<nodes, tagged, now, panicked>>
         ELSE IF e > NoExpiracy THEN Panic("expire", key)
         ELSE /\ Reply("expire", key, nodes[i].exp = NoExpiracy)
              /\ nodes' = [nodes EXCEPT ![i].exp = e]
              /\ tagged' = IF nodes[i].exp = NoExpiracy THEN tagged \cup {i}
                                                        ELSE tagged
              /\ UNCHANGED <<now, panicked>>

Persist(key) ==
  /\ Does("persist")
  /\ LET i == Traverse(nodes, key)
     IN  IF (IF i = Nil THEN TRUE ELSE nodes[i].exp = NoExpiracy)
         THEN Reply("persist", key, FALSE) /\ UNCHANGED <<nodes, tagged>>
         ELSE /\ Reply("persist", key, HasVal(nodes[i]))
              /\ nodes' = [nodes EXCEPT ![i].exp = NoExpiracy]
              /\ tagged' = IF HasVal(nodes[i]) THEN tagged \ {i} ELSE tagged
  /\ UNCHANGED <<now, panicked>>

\* get_hash_mut, get_btree_set_mut and get_zset_mut without a TTL argument:
\* the expiry of the node is not touched, and the unwrap after the creation
\* fails when it is in the past.
Collect(key) ==
  /\ Does("collect")
  /\ IF Dangles(nodes, key) THEN Panic("collect", key)
     ELSE \E r \in EnsureKey(nodes, key) :
            LET n == r[1][r[2]]
            IN  IF GetValue(n) # Nil
                THEN /\ Reply("collect", key, GetValue(n))
                     /\ UNCHANGED <<nodes, tagged, now, panicked>>
                ELSE IF IsExpired(n) THEN Panic("collect", key)
                ELSE /\ Update([r[1] EXCEPT ![r[2]].val = Collection])
                     /\ Reply("collect", key, Collection)
                     /\ UNCHANGED <<now, panicked>>

\* What the text or integer v parses to: no number, or one.
Parsed(v) == {n \in MinInt .. MaxInt : v \in {<<"Int", n>>, <<"Bytes", n>>}}

\* Seeded bug: the sum wraps.
NodeIncrWrapping(i, n, d) ==
  LET sum == ((n + d - MinInt) % (MaxInt - MinInt + 1)) + MinInt
  IN  nodes' = [nodes EXCEPT ![i].val = <<"Int", sum>>] /\ ret' = <<"Ok", sum>>

\* NodeValMut::incr on a number: text becomes an integer, the expiry stays.
NodeIncr(i, n, d) ==
  IF n + d \in MinInt .. MaxInt
  THEN nodes' = [nodes EXCEPT ![i].val = <<"Int", n + d>>] /\ ret' = <<"Ok", n + d>>
  ELSE ret' = <<"Err", "Overflow">> /\ UNCHANGED nodes

\* incrby of a node that has a value, and of one that has none, which is set
\* as a permanent entry.
IncrInPlace(i, d) ==
  /\ IF Parsed(nodes[i].val) = {}
     THEN ret' = <<"Err", "NotAnInteger">> /\ UNCHANGED nodes
     ELSE \E n \in Parsed(nodes[i].val) : NodeIncr(i, n, d)
  /\ UNCHANGED <<tagged, now, panicked>>
IncrCreates(cmd, key, d) ==
  IF Dangles(nodes, key) THEN Panic(cmd, key)
  ELSE /\ \E r \in EnsureKey(nodes, key) :
            Update([r[1] EXCEPT ![r[2]].val = <<"Int", d>>, ![r[2]].exp = NoExpiracy])
       /\ Reply(cmd, key, <<"Ok", d>>)
       /\ UNCHANGED <<now, panicked>>

Count(cmd, key, d) ==
  /\ Does(cmd)
  /\ \E i \in {Traverse(nodes, key)} :
       IF (IF i = Nil THEN FALSE ELSE GetValue(nodes[i]) # Nil)
       THEN IncrInPlace(i, d) /\ call' = <<cmd, key>>
       ELSE IncrCreates(cmd, key, d)

\* i64::wrapping_neg: the least integer is its own negation.
WrappingNeg(d) == IF d = MinInt THEN MinInt ELSE 0 - d

IncrBy(key, d) == Count("incrby", key, d)
DecrBy(key, d) == Count("decrby", key, WrappingNeg(d))

\* tick: the system clock, which may also be set back.
Tick(t) ==
  /\ Does("tick")
  /\ t # now
  /\ now' = t
  /\ UNCHANGED <<nodes, tagged, panicked, call, ret>>

\* Seeded bug: every sample is taken for expired.
EvictUnchecked(i) ==
  /\ Does("evict")
  /\ i \in tagged /\ nodes[i].parent # Nil
  /\ LET T == DeleteNode(nodes, i, nodes[i].parent, nodes[i].radix)
     IN  nodes' = T /\ tagged' = (tagged \ {i}) \cap DOMAIN T
  /\ UNCHANGED <<now, panicked, call, ret>>

\* evict_expired: one sample that hits an expired node other than the root.
\* A call makes many samples; what it does in sum is what as many calls with
\* one hit each do.
Evict(i) ==
  /\ Does("evict")
  /\ i \in tagged /\ IsExpired(nodes[i]) /\ nodes[i].parent # Nil
  /\ LET T == DeleteNode(nodes, i, nodes[i].parent, nodes[i].radix)
     IN  nodes' = T /\ tagged' = (tagged \ {i}) \cap DOMAIN T
  /\ UNCHANGED <<now, panicked, call, ret>>

Expiries == {NoExpiracy} \cup {now + t : t \in Ttls}

Next ==
  \/ \E key \in Keys, v \in Vals, e \in Expiries : Set(key, v, e)
  \/ \E key \in Keys : Get(key)
  \/ \E key \in Keys : Del(key)
  \/ \E p \in PrefixArgs : Deln(p)
  \/ \E p \in PrefixArgs : Getn(p)
  \/ \E key \in Keys : GetTtl(key)
  \/ \E key \in Keys, t \in Ttls : Expire(key, now + t)
  \/ \E key \in Keys : Persist(key)
  \/ \E key \in Keys : Collect(key)
  \/ \E key \in Keys, d \in Deltas : IncrBy(key, d)
  \/ \E key \in Keys, d \in Deltas : DecrBy(key, d)
  \/ \E t \in 0 .. MaxNow : Tick(t)
  \/ \E i \in Idx : Evict(i)

Spec == Init /\ [][Next]_vars

-----------------------------------------------------------------------------
(* Properties.                                                              *)

TypeOK ==
  /\ DOMAIN nodes \subseteq Indices /\ Root \in DOMAIN nodes
  /\ \A i \in DOMAIN nodes :
       /\ nodes[i].compression \in Seq(Radixes)
       /\ \A k \in Kids(nodes[i]) : k \in Radixes \X Idx
       /\ Cardinality(DOMAIN nodes[i].childs) <= ChildsSize
       /\ nodes[i].val \in Values \cup {Nil}
       /\ nodes[i].exp \in 0 .. NoExpiracy
       /\ nodes[i].parent \in Indices \cup {Nil}
       /\ nodes[i].radix \in Radixes \cup {Nil}
  /\ tagged \subseteq DOMAIN nodes
  /\ now \in 0 .. MaxNow
  /\ panicked \in BOOLEAN

\* Every allocated node hangs in the tree exactly once: no link dangles, no
\* two links lead to one node and no node is lost (split_node,
\* try_recompress, remove_child and free_subtree_iterative move links).
WellLinked ==
  LET links == UNION {{<<i, k[1], k[2]>> : k \in Kids(nodes[i])} :
                      i \in DOMAIN nodes}
  IN  /\ \A l \in links : l[3] \in DOMAIN nodes \ {Root}
      /\ \A i \in DOMAIN nodes \ {Root} : Cardinality({l \in links : l[3] = i}) = 1
      /\ Subtree(nodes, {Root}) = DOMAIN nodes

\* Path compression: a node other than the root that holds no value is a
\* branching point ("The tree automatically recompresses paths after
\* deletion", doc of del).
Compressed ==
  \A i \in DOMAIN nodes \ {Root} :
    HasVal(nodes[i]) \/ Cardinality(Kids(nodes[i])) >= 2

\* The keys that have a node, each with it, and a set of those as a map.
Placed(T) == {<<k, T[Traverse(T, k)]>> : k \in {x \in Keys : Traverse(T, x) # Nil}}
AsMap(P)  == [k \in {x[1] : x \in P} |->
                LET n == (CHOOSE x \in P : x[1] = k)[2] IN [val |-> n.val, exp |-> n.exp]]

\* The entries the tree holds, expired ones included, and those a client reads.
Entries(T)     == AsMap({x \in Placed(T) : HasVal(x[2])})
LiveEntries(T) == AsMap({x \in Placed(T) : GetValue(x[2]) # Nil})

\* The evictor removes no key that a client can still read ("Delete those
\* that are expired", doc of evict_expired).
EvictionSparesLiveKeys ==
  [][(\E i \in Idx : Evict(i)) =>
       \E T \in {nodes'} : LiveEntries(T) = LiveEntries(nodes)]_vars

\* The calls whose answers are as documented: EXPIRE of a key that is not there
\* or of a permanent entry, and PERSIST of anything but an expired entry.
ExpireAgrees(key) ==
  LET i == Traverse(nodes, key)
  IN  i # Nil => IsExpired(nodes[i]) \/ (HasVal(nodes[i]) /\ nodes[i].exp = NoExpiracy)
PersistAgrees(key) ==
  LET i == Traverse(nodes, key)
  IN  i # Nil => ~(IsExpired(nodes[i]) /\ HasVal(nodes[i]))

\* Lookups start below the root and never read its compression ("get doesn't
\* handle root with compression", comment in deln).
RootUncompressed == nodes[Root].compression = <<>>
=============================================================================
