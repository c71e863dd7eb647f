# TLA+ specifications of radixox

radixox is a Redis-like server: a path-compressed radix tree (`oxidart`) behind
a single-threaded `monoio` runtime that speaks RESP (`radixox/src/bin`). The
modules here model the parts of it whose errors take several calls, several
connections or an unlucky moment to show. TLC checks them on small instances;
TLAPS proves the ones listed under "Proofs" for every instance.

## The system

| part | state | operations | hard because |
|---|---|---|---|
| radix tree, `oxidart/src/lib.rs`, counters in `counter.rs` | slab of nodes (compression, children, value, expiry, own position), tags, clock | set, get, del, prefix get and delete, TTL commands, counting, eviction | every write reshapes the tree; the evictor works from positions stored long before |
| prefix walks, `async_command.rs` | a stack of slot indices per running KEYS or UNLINK | cut off, free or collect in chunks of 256 nodes | other connections write, and the evictor frees, between two chunks |
| child lists, `node_childs.rs` | inline list, overflow arena with a free list, slab of huge lists | push, remove, find, move on split and merge | three levels with ownership by index |
| generational arena, `gen_arena.rs` | slots with generations, free list, count | insert, remove, lookup | stale keys, reuse, wrap of the generation |
| connections and pub/sub, `utils/mod.rs`, `pub_sub.rs`, `resp.rs` | connection states, registry of connections and channels, write tasks | subscribe, unsubscribe, publish, reply, fail, close | the write half and the buffers change hands across awaits |
| commands, `resp_cmd/*.rs`, and collections, `hcommand.rs`, `scommand.rs`, `zcommand.rs`, `zset_inner.rs`, `value.rs` | nodes with a type tag, one slab per collection type, small and large representations | the handlers of some fifty commands | types change under a key, representations change with size, slots are owned by index, expired entries linger |
| a connection's loop, `resp.rs`, and its strings, `shared_byte.rs` | read buffer, reply being written, allocations with a 16-bit count | read, decode, dispatch, write, fail, end | frames are cut anywhere, clients leave at any await, replies hold values that others overwrite |

Calls go one way: a connection parses a frame, dispatches it, and the handler
either borrows the tree for one call, awaits a prefix walk, or uses the
registry. The tree and the registry never meet. Ticker and evictor are two
timer tasks that borrow the tree.

## Modules

| module | what it is |
|---|---|
| `KeyValueStore` | what the tree promises: a map with expiries |
| `OxidArt`, `MCOxidArt`, `OxidArtProofs` | the tree, one action per public call, and the proof that it stays one |
| `EntriesProofs` | what the tree holds: the evictor spares what can be read, and the tree implements `KeyValueStore` |
| `OxidArtAsync`, `MCOxidArtAsync`, `OxidArtAsyncProofs` | extends `OxidArt` with KEYS and UNLINK as interleaved walks, with the proofs that what UNLINK cuts off stays apart and that its chunks change no entry |
| `ChildMap`, `ChildLists`, `MCChildLists`, `ChildListsProofs` | a node's children as a function, the three lists that represent it, and the proof that they do |
| `KeyPool`, `GenArena`, `GenArenaProofs` | a pool of fresh keys, the arena, and the proof that it is one |
| `PubSub`, `MCPubSub`, `PubSubProofs` | connections, registry and write tasks |
| `Registry`, `MCRegistry` | `PubSub` with its connections in a `GenArena` |
| `Frames` | texts that clients send, and the frames that answer them |
| `Collections` | hashes and sorted sets as the code represents them, as operators |
| `TypedStore`, `Commands`, `MCCommands`, `MCAnswers`, `CommandsProofs` | what the commands promise on plain functions and sets, the handlers over nodes and slabs, and the proof of what every operator keeps and of the invariants |
| `SharedByte` | reference-counted strings, as operators on a memory |
| `Connection`, `MCConnection`, `ConnectionProofs` | the loop of a connection in Normal state, with the strings it holds |

What composes what: `OxidArtAsync` is `OxidArt` with walks; `Commands` stands on
the map that `OxidArt` implements and uses `Collections`; `Connection` uses
`SharedByte`; `Registry` is `PubSub` and `GenArena` in step.

Operators called "seeded bug" are not used by any specification: each is a
plausible error in the code next to it, and the run it is listed with in
PROJECT.json fails when it takes the place of the correct definition.

### OxidArt

A step is one public call, because the tree is borrowed for the whole call.
`nodes` is the slab: a function from occupied slots to records with the fields
of `Node`; `childs` and `overflow` are functions from radixes to slots (their
lists are the subject of `ChildLists`). Operators over a tree `T` follow the
functions of `lib.rs` (`Walk` is the loop each of them repeats; `Traverse`,
`Cover`, `PushChild`, `RemoveChild`, `SplitNode`, `EnsureKey`, `Recompress`,
`DeleteNode`), and an action composes those its function calls, trailing
recompression included. A failed `expect`, `unwrap` or `assert` sets `panicked`
and ends the behaviour. Keys are short sequences of radixes, values model
values; all collection types are the one value `Collection`, integers are
`<<"Int", n>>` and text that parses as one `<<"Bytes", n>>`, with `MinInt .. MaxInt`
for the range of i64. `Tick` sets the
clock to any second, back as well, as the system clock may be. The slab crate
is external: `Candidates` says which free slot it hands out. `Evict` is one
sample that hits; `evict_expired` is a series of them.

`KeyValueStore` answers EXPIRE and PERSIST as their docs say (`lib.rs:392`, `:418`;
an expired key does not exist, `:367`). The code answers otherwise for some
entries; `ExpireAgrees` and `PersistAgrees` describe the calls where both agree.

Left out: the byte 0 in keys, which `Childs::push` refuses with an assertion
(`node_childs.rs:54`; in `ChildLists` too), the entry counts of `evict_expired` (its
stop rule only decides how
many samples follow) and the regex scan. The commands on collections are in
`Commands`.

### OxidArtAsync

A step is what a walk does between two awaits: `KeysStart` and `UnlinkStart`
include the first chunk, the later ones are `KeysStep` and `UnlinkStep`. The
stack is a sequence, popped at the end; the children of a node are pushed in any
order, which stands for the order of its child arrays. Between two steps any
action of `OxidArt` and of other walks may happen. The fields `always`, `ever`
and `due` of a walk are history used by properties only.

### ChildLists

Lists are sequences with the code's swap-remove. Radix and slot of an entry are
a pair where the code has two parallel arrays. A slot of the arena is tagged as
`OverflowSlot` is, `Item` or `NextFree`; `Light` and `Huge` are the second and
third list of a node, empty where it has none. `Absorb` and `Split` move the
lists as `try_recompress` and `split_node` do.

### GenArena

`issued` is history: every key ever returned. `GenMod` is 2^32 in the code;
`WrapGen` says whether a slot may be reused that often.

### PubSub

A step is what a task does between two awaits. A connection's main task is at
the read, in a write it awaits (`normal_write`, `pubsub_write`), or closed; the
write half is a token named after its connection, held by `ConnState`, `Conn`
or a `ConnWriter`. Abstractions: replies are all the frame 0; every command
without effect on connections is `Ping`; a SUBSCRIBE to several channels is
several SUBSCRIBEs, and the arguments of UNSUBSCRIBE are a set (empty: all);
writing an empty buffer returns at once; a failed write delivers nothing (a
prefix could arrive). SubIds are fresh numbers, which `Registry` relates to the keys
of the arena. A panic ends the process, since one thread runs everything.
`Disciplined` restricts clients to subscribe once and unsubscribe from what they
have; the runs that need it say so below.

### Registry

`SubRegistry.conn_arena` is a `GenArena<Conn>`, and a SubId wraps one of its keys.
A step is a step of `PubSub` together with what it does to the arena: a connection
that enters is inserted (`Enters`), one that leaves is removed (`Leaves`), and `key`
keeps what `insert` returned for each number of `PubSub`. Lookups and removals
through any SubId ever handed out, stale ones too, are `Consult`. The arena stores
the numbers in place of the `Conn`s.

### Commands

A step is one command, since a handler borrows the tree until its reply is
built. `art.nodes` maps keys to nodes (tag, value, expiry) and `art.slabs` maps
each collection tag to its slab. The tree is the map that `OxidArt` is shown to
implement; keys are not prefixes of one another, so a node is there exactly while
it has a value. Each action follows its handler: argument checks in their order,
the `OxidArt` call, and the cases of the reply. `Lookup` is what `get` and
`get_mut` do to an expired entry, `Ready` is `get_hash_mut` and its twins,
`RefusedAt` and `UnwrapsExpired` are their other two exits. Fields, members and
scores are small integers, in the order of their bytes; texts are
`<<"num", n>>` or `<<"word", w>>`; replies keep kind and content. Commands with
one effect share an action: INCR, DECR and DECRBY with INCRBY (the negation is
in `OxidArt`), PTTL with TTL, HMSET with HSET, HEXISTS with HGET, HKEYS and
HVALS with HGETALL; comments say how their replies differ. All calls with a
wrong number of arguments are `Misuse`.

`TypedStore` has the same commands as operations on strings, functions and
sets. Where the code departs from Redis and nothing in the repository says
otherwise, `TypedStore` follows the code: SPOP creates and leaves empty sets, DEL
counts expired entries, PX is cut to seconds, ZRANGE raises a stop below minus
the length to 0. Where a doc or a test says otherwise, `TypedStore` follows it:
EXPIRE answers 1 for every key that exists and PERSIST 0 for an expired one
(`oxidart/src/lib.rs:392`, `:418`), and HINCRBY of a field that is no number, or
whose sum leaves the range, is "not an integer" (`radixox/tests/hash.rs:234`). The
code does not: `ExpireAgrees`, `PersistAgrees` and `HIncrByAgrees` are the calls
where it does, and `Calls` in `Next` is everything else. `ParseNat` has no upper
limit, where the code refuses times above u64 and counts above u32: the arguments
of the model are far below both.

### SharedByte and Connection

A memory is a record of allocations (count and text) and of the places that
hold one: the command and the arguments of a connection, the frames of its reply,
the value of a key. `Drop`, `Clone`, `FromSlice` and `ToUppercase` are the
functions of `shared_byte.rs`. A step of a connection is what its task does from
one await to the next (`ReadSome`, `ReadEnds`, `WriteDone`, `WriteFails` end an
await), with the loop of `handle_buffer` in steps of its own (`NeedMore`,
`ParseError`, `Dispatch`) that no other task interrupts: `Polled` lets a task
run only while no other is in the middle of a poll. Bytes are halves of frames.
Seven commands stand for the ways of the others with strings: read one or two
values, store, delete, echo, answer a constant, end. Frames have at most two
arguments and the right number of them. `sent` and `out` are history.

## Runs

Passing:

| run | shows | instance |
|---|---|---|
| `tree_refines` | the tree is well linked and compressed and implements `KeyValueStore` | 4 keys sharing prefixes of length 1 to 3, 4 prefixes, 2 values, TTL 1, clock 0..2, two inline children; 6 slots; EXPIRE and PERSIST where they answer as documented |
| `tree_wide` | the same (without `Compressed`, see Boundaries) with the empty key, counters, collections, overflow lists and the evictor; the root stays without compression and the evictor takes expired entries only | 4 keys, 1 inline child, 4 prefixes, integers -2..1, no DEL; one key, which shares no byte with another, has TTL 0, clock 0..1; EXPIRE and PERSIST where they answer as documented |
| `child_lists` | three lists are one function; nothing leaks | 2 nodes, 4 radixes, list sizes 1, 1 and 3 |
| `walks_async` | chunks of UNLINK are invisible after the first, whatever is written between them, and its answer is the number cut off; KEYS is exact while others only add keys, and it ends | 3 keys, 3 prefixes, 2 walks, chunks of one node, no TTL; nothing is removed while KEYS walks |
| `registry_any` | who has the write half, and that no message is lost or doubled in the buffers, whatever clients send and whichever writes fail; the arena's free list, that it is a pool of fresh keys, and that a SubId reaches its own connection or none | 2 clients, 2 channels, 3 messages, 3 commands each; an arena of one slot that grows to two, 5 generations, more than are used |
| `pubsub_live` | registry, delivery and cleanup; clients subscribe once, write tasks may fail, a main task's write may not | 2 clients, 2 channels, 2 messages, 3 commands each |
| `commands` | types, slabs, indices of sorted sets, empty collections; `Commands` implements `TypedStore` | 2 keys, hashes and sorted sets on one of them and sets on both, 3 members, `THRESHOLD` 2, integers -2..1, scores 0..1, clock 0..1; times 0, 10 (beyond `NoExpiracy` 9), 999 and 9000 ms; EXPIRE, PERSIST and HINCRBY where they answer as documented (`MCSpec`) |
| `connection` | replies in order and complete, counts exact, nothing held when idle, and the one way to the panic | 2 clients with 2 scripts of 3 frames each, 1 key, 11 addresses for 11 places, counts modulo 16 |

Why these bounds: three bytes are enough for a split inside a compression, a
value on an inner node and a merge of three pieces; sizes 1 and 2 for the child
lists make each limit reachable with four children; chunks of one node put a
yield at every place one can be. Two publishers and two messages are enough for
every overlap of a swap with a publication, and two connections that subscribe,
unsubscribe and subscribe again for a slot to be reused while an old SubId is kept.
Four keys also bound the tree to six nodes, so no run stops for want of a slot except `walks_async`, where a SET
waits until one is free. Three members and a threshold of two take collections
through promotion and back below the limit; two keys are enough for one slot to
be mistaken for another. Of the scripts, one client's set, overwrite and delete
the key the other reads while its replies are written, and there is a malformed
frame between two good ones, an array that is no command, an unknown command and
a QUIT. Eleven places hold strings, so sixteen counts tell all of them apart, as
2^16 do in the code.

The views used drop what no action of the run reads: the last reply, names of
slots (`ShapeView`, where every node is linked and nothing is evicted) or stored
positions (`LinksView`). `tree_refines` therefore says nothing about the evictor;
`tree_wide`, whose view keeps tags and stored positions (`EvictView`), does.

Deadlock is checked except in the pub/sub runs and `connection`, where commands are
bounded and connections close, and in `commands`, where a panic ends the process.

Fairness. `pubsub_live` assumes that the executor polls a ready task, that the
kernel ends every write, and that `select!` does not overlook a cancelation for
ever; clients owe nothing. `walks_async` assumes that a walk is polled again after
its yield: `YieldNow` wakes its own task. `connection` assumes that each task that
can go on is polled and that a write ends or fails; a client need not send
anything, nor leave. Weak fairness is enough: a task that can go on stays so
until it is polled, and scripts are finite, so the others cannot keep the thread.

`MCNext` of `MCOxidArt` and of `MCCommands` leaves out the calls of EXPIRE, PERSIST
and HINCRBY that do not answer as documented; `Spec` of `OxidArt` and of `Commands`
keeps all calls. `MCAnswers` takes the calls `MCCommands` leaves out, and
`documented_answers` shows how they answer.

Violations: each of these runs shows a place where the code does not do what a
doc, a test or the design document says (PROJECT.json, "findings", quotes them).

| run | what TLC shows |
|---|---|
| `evict_live` | after a split a node remembers the wrong radix; when it expires, the evictor unlinks a live key |
| `unlink_evict` | a slot UNLINK has queued is freed by the evictor and reused; the next chunk frees a live key |
| `publish_order` | a message published before the write task's first poll overtakes an older one |
| `documented_answers` | EXPIRE of a key that has a TTL sets the new one and answers 0; PERSIST of an expired key that was not collected answers 1 and revives it; HINCRBY of a field that is no number answers WRONGTYPE |

### Boundaries

The passing runs stop short of these behaviours of the code. The actions have
them; with the instance widened the properties named fail.

| behaviour | where | fails |
|---|---|---|
| FLUSHDB leaves the root's overflow list; a later SET below it panics | `lib.rs:1008` | `ImplementsMap` with a flush and three children of the root |
| deleting the empty key, or reading it expired, makes the root absorb an only child; other keys disappear | `lib.rs:915` | `RootUncompressed` with DEL, or with a TTL on the empty key, in `tree_wide` |
| a valueless node whose last child is in the overflow list is not merged | `lib.rs:1451` | `Compressed` in `tree_wide` |
| TTL of an inner node without value answers "no TTL", and so does the root's | `lib.rs:384` | `ImplementsMap` with TTL in `tree_refines`, or of more keys in `tree_wide` |
| DECRBY of the least integer adds it | `counter.rs:57` | `ImplementsMap` with it as an argument |
| HSET, SADD, SPOP, ZADD and their kin at an expired key that was not collected panic | `hcommand.rs:175` | `ImplementsMap` with collections and TTLs in `tree_wide`; in `commands` the panic is a step and the behaviour ends |
| an expiry beyond 56 bits panics | `lib.rs:1284` | likewise a step of `commands` |
| malformed bytes stay in the buffer: only errors follow | `resp.rs:227` | stated as it is in `RepliesInOrder` |
| the error reply to malformed bytes fails, which nobody notices; the next read panics and, as release builds abort, ends the process | `resp.rs:228`, `:209` | stated as it is in `PanicNeedsMalformed` |
| 2^16 holders of one string wrap its count | `shared_byte.rs:122` | `RcExact` without `SharedAssumption` |
| `to_uppercase` of a shared string leaks it; its doc says it "decrements rc on the old allocation" (`shared_byte.rs:86`) | `shared_byte.rs:111` | `RcExact`, if a connection shared a command's string; none does |
| UNLINK of everything counts the empty key and keeps it | `async_command.rs:159` | `UnlinkHidesPrefix` with the empty key |
| a DEL between two chunks of KEYS makes it miss a key that was always there, or report one that never was | `async_command.rs:126` | `KeysComplete`, `KeysSound` with DEL during KEYS in `walks_async` |
| EXPIRE of a key that has a TTL answers `false`, and of an inner node without value `true` | `lib.rs:413` | `DocumentedAnswers`; `ImplementsMap` and `ImplementsTyped` with every EXPIRE |
| PERSIST revives an expired entry | `lib.rs:430` | `DocumentedAnswers`; `ImplementsMap` and `ImplementsTyped` with every PERSIST |
| every failure of HINCRBY is answered WRONGTYPE | `hash.rs:161` | `DocumentedAnswers`; `ImplementsTyped` with every HINCRBY |
| a generation that wraps revives an old key | `gen_arena.rs:70` | `ImplementsPool` with `WrapGen` |
| the publisher's reply fails and its messages wait in the buffers | `pub_sub.rs:44` | `NothingStranded` with `SendMayFail` |
| a failed write in a subscriber's own command leaves it in the registry | `utils/mod.rs:340` | `CleanedUp` with `SendMayFail` |
| SUBSCRIBE twice, or UNSUBSCRIBE from a channel it does not have, make count and lists drift apart | `utils/mod.rs:189`, `:236` | `RegistryConsistent` without `Disciplined` |
| UNSUBSCRIBE without a subscription reaches `unreachable!` | `resp.rs:399` | a panic in the model as well |

SET with a TTL over
an existing node does not tag it (`lib.rs:733`), so that entry is collected by
reads only.

## Proofs

`OxidArtProofs`, for every set of radixes, keys, values and slots, every size of
the inline list, every range of integers and every clock:

- `TypeCorrect`: `TypeOK`, with no condition.
- `LinksWell`: `WellLinked`, if the behaviour is `Orderly`: no FLUSHDB while the
  root has an overflow list, and no eviction of a leaf that is not where it
  remembers to hang.
- `RootStaysUncompressed`: `RootUncompressed`, if `RootKept`: the value of the empty
  key is not removed while the root has one child, an inline one.
- `StaysCompressed`: `Compressed`, if the behaviour is `Orderly` and no node is
  `Overhung`, without value and with its only child in the overflow list.

  The conditions are the defects of this code that "Boundaries" and the run
  `evict_live` show (`lib.rs:1008`, `:1451`, `:915`, and the position a node
  stores): none of the theorems holds without its condition, and a behaviour may
  do everything else. `WellLinked` is not inductive as it stands: its counts say
  nothing a prover can carry through a step. The invariant is
  `Forest(nodes, {Root})`: no link dangles or leads to a root, two links do not
  lead to one node, a node has one child for a radix, and every set of slots that
  contains the roots and is closed under links is the whole slab. The last part is
  reachability without an induction: a closed set of the tree after a step gives a
  closed set of the tree before it. An operation is described by its effect
  (`Effect`: a node rewritten in place, hung, split off, absorbed, a subtree
  dropped), `NextEffect` finds the effect of every action, and for each kind of
  effect there is one lemma for `Forest`, one for the root and one for `Branches`.
  That a walk ends at all, and where (`Walk` is a recursive function on pairs of a
  node and the bytes consumed), is proved from the length of the key that is left.

`EntriesProofs`, for the same instances with a finite slab (`SlabAssumption`: slots
are numbered by u32):

- `EvictionSpares`: `EvictionSparesLiveKeys`, if the behaviour is `Orderly`.
- `Implements`: `Spec => KV!Spec`, where `KV` is `KeyValueStore` with
  `store <- Entries(nodes)`, if the behaviour is `Orderly`, `RootKept` and `Tame`. The
  runs `tree_refines` and `tree_wide` check the same statement as `ImplementsMap`,
  with the entries kept in a variable so that TLC computes them once per state.

  A step is `Tame` unless it panics, asks the TTL of a node without a value,
  makes a collection in a valueless node that still has a deadline, subtracts
  the least integer, or is an EXPIRE or PERSIST that answers otherwise than
  documented (`ExpireAgrees`, `PersistAgrees`). Each of these, and what `Orderly` and `RootKept` exclude, is
  a row of "Boundaries": there the code does not do what a map does. Every other
  step is covered, in any order, with keys that are prefixes of one another, the
  empty key, overflow lists and expired entries.

  `Walk` and `Traverse` are recursive functions, and what they compute cannot be
  proved by induction here. `Path(T, key)` says the same without recursion: the least
  set of places (a node and the bytes consumed) that holds the root and is closed
  under `Descends`. `Hit(T, key, j)` says that key ends at j, `HitIsTraverse` that this is
  what `Traverse` finds, and `HitUnique` that two keys do not end at one node. From
  there on the recursion is not needed: `Has(T, key, v, e)` is what a key has, and a
  change of the tree is shown to carry the places of every key over, or to lose them.
  `Agree`, `Loses` and `Gains` say what became of the entries: a merge
  (`Merged`) and a split agree, a trimmed subtree (`Trimmed`) loses what was below it,
  a node hung by `EnsureKey` is empty and agrees, and a rewritten node gains one
  entry. Each action of `OxidArt` is then mapped to one of `KeyValueStore` (`SetMaps`,
  `GetMaps` and so on). Two need more. DELN answers a count of nodes, the map a count
  of keys: `Traverse` is a bijection between them, for which every value must be under
  some key of `Keys`; that is the invariant `Named`, kept because no operation shows a
  value under a new key but the one it is called with (`NoStrays`). GETN spells keys
  level by level (`Spelled`): a sweep of as many levels as there are slots meets
  every node of the subtree, since a level that adds nothing closes the set and one
  that adds something uses a slot up (`SweepsAll`), and what it spells for a node
  is the key that ends there (`LevelsTold`).

`OxidArtAsyncProofs`, for every number of walks and every chunk size:

- `UnlinkKeepsApart`: `SeveredApart`, if the behaviour is `AsyncOrderly`, which is
  `Orderly` and the same of an UNLINK of everything.
- `ChunksSpare`: `ChunksSpareEntries`, if the behaviour is `AsyncOrderly`.
- `UnlinkHides`: `UnlinkHidesPrefix`, if it is `AsyncOrderly` and `RootIsNoKey`: UNLINK of
  everything keeps the value of the root, so there must be none (Boundaries).

  The invariant `Apiece` makes the slots on the stacks of UNLINKs roots of the
  forest: no slot is twice on the stacks, and the slab is a forest with the roots
  `{Root}` and these. Subtrees of different roots are disjoint (`GraphDisjoint`), so
  the lemmas of `OxidArtProofs`, which hold for any set of roots, cover the calls
  of other connections; cutting a prefix off turns an inner node into a root, and
  each pop of a chunk replaces a root by its children. A chunk is a recursive
  function of its length, whose existence is shown by induction over an interval.
  The evictor is where the condition is needed: without it TLC shows that a
  queued slot is freed and reused (`unlink_evict`). For the entries, a key whose way
  begins at the root never enters the subtree of another root, so freeing such slots
  carries all places over; the cut itself loses exactly what lies below the
  prefix.

`GenArenaProofs`, for every set of values, capacity, slot bound and modulus:

- `FreeListCorrect`: `ArenaTypeOK`, `LenCounts` (`len` counts the values) and
  `FreeListComplete` always hold.
  The three are inductive only together: a removal prepends to the chain and the
  chain's length is `size - len`, so the count must be right for the chain to
  be. Each action comes with the chain it leaves (prepend, tail, or the one slot
  of a growth).
- `KeysStayBehind`: without wrap, `KeysNotAhead`. A key of a vacant slot is of an
  earlier generation, which is what makes the next key of that slot new.
- `ArenaImplementsPool`: without wrap, `ArenaSpec => Pool!Spec`: an insertion returns a
  key not yet issued (by `KeysNotAhead`), a removal takes exactly one, and lookups
  and stale removals stutter. Without the assumption it is false (Boundaries).

`PubSubProofs`, for every set of clients and channels, all bounds, undisciplined
clients and failing writes:

- `WriteHalfIsOwned`: `WriteHalfOwned` always holds. The invariant `Inv` adds to
  it which SubIds belong to whom (`Shape`: a SubId in use was handed out, is used
  by one connection, and a `Conn` holds its own connection's half or none) and the
  account of the half (`Own`: a task or a main task that writes excludes the other
  holders). The proof is one case per action; the continuations (`Send`,
  `Return`, `Close`, `FlushAndReturn`) have lemmas of their own.

and on the registry and the buffers, for the same instances:

- `NothingIsLost`: `NothingLostOrDoubled`, with no condition on clients or writes.
- `RegistryStaysConsistent`: `RegistryConsistent`, if clients are `Disciplined`,
  failing writes included.
- `NothingIsStranded`: `NothingStranded`, if no awaited write of a main task fails,
  whatever clients send.
- `ClosingCleansUp`: `CleanedUp`, under both conditions.

  Each condition is where the code needs it (Boundaries names what fails without
  it). They share one invariant, `RegInv`: `Inv` and, as
  the parts of `Reg`, `Buffers` (the swap buffer is at home exactly with the write
  half), `Balanced` (what a connection was sent is what it received plus what is in
  its buffers), `Listing` (`channel_count` counts the channels that list a SubId, and
  only SubIds of the arena are listed), `Filed` (a `Conn` has a connection that will
  remove it) and `Unstranded` (a filled io_buffer is attended). None is inductive
  alone: a swap keeps the balance only because the buffer it takes is empty, which is
  `Buffers` with `Own`, and a close keeps the listing only because a SubId is of one
  connection, which is `Shape`.

`ConnectionProofs`, for every set of clients and keys, all scripts, every set of
addresses with room for each place, and every modulus of the count above the
number of places:

- `CountsAreExact`: `RcExact` always holds: the count of an allocation is the
  number of its holders, and is not zero.
- `NothingHeldWhenIdle`: `IdleHoldsNothing` always holds: a connection that reads
  or has ended holds no string, so it leaks none, whichever write failed.

The two need each other. `Dispatch` allocates for places of its connection, and
that keeps counts exact only if those places are free, which is
`IdleHoldsNothing`; that in turn needs the account of what every command leaves
in which place. The inductive invariant is `IInv`: the memory is `Good` (exact,
with functions of the right kind), `IdleHoldsNothing`, and what is in buffers
and on wires are bytes of script frames (so that a handler finds its arguments).
Lemmas say what `FromSlice`, `Clone`, `Drop` and `ToUppercase` do to a good memory
(`Drop` releases a set of places at once; its lemma counts the holders that stay),
then `Argument`, `Fetch` and `Run`, then one step per action.

and, for every set of clients and all scripts, whatever the network cuts or joins:

- `RepliesAreInOrder`: `RepliesInOrder` always holds. On top of `IInv`, the
  invariant `ReplyInv` names for each connection the number p of frames decoded so
  far: buffer and wire together are the halves of the frames after p, at least up
  to a malformed one (`Aligned`), the replies written are those of the first p, or
  of all but the one being written, and then parse errors (`Answered`); and what a
  key holds was SET by some client.
- `PanicOnlyAfterMalformed`: `PanicNeedsMalformed` always holds. It needs that a
  task that reads on after a reply has bytes in its buffer that do not parse.

`ChildListsProofs`, for every set of nodes, radixes and indices and all sizes of
the lists, assuming of them only what the code says of its constants
(`HUGE_OVERFLOW_CAPACITY = ASCII_MAX_CHAR - CHILDS_SIZE`):

- `ListsFit`: `TypeOK`. No list outgrows its array; for the HugeOverflow, whose
  push checks nothing, this counts radixes: those of the node, which is full, and
  of the huge list are different, so the huge list has at most the others.
- `ListsHaveOneOwner`: `ListsOwned`; `OverflowFreeListCorrect`: `ArenaFreeList`;
  `FindAgreesWithIter`: `FindAgrees`.
- `ListsImplementChildMap`: `Spec => Map!Spec`.

  The invariant is `ListInv`: the arena with its chain of free slots, typed lists,
  injective indices that reach every list in use, no empty list, and no radix
  twice in a node. `Relists` says that a step replaces the lists of one node and
  touches no other slot or HugeOverflow; every case of push and remove is shown to
  be such a step, with the entries it leaves, and `RelistsKeeps` and
  `RelistsShows` then give invariant and refinement for all of them. New, drop,
  absorb and split only move records between nodes (`Moved`) or free one slot.

`CommandsProofs`, for every finite set of keys, every threshold, clock bound and
width of integers, and all texts and arguments of which a handler has checked what
`ArgAssumptions` says (HSET and ZADD get complete pairs, one at least):

- `CommandsTypeOK`: `TypeOK`; no EXPIRE, SETEX or SET stores an expiry wider than
  the field.
- `CommandsSlabsOwned`: `SlabsOwned`. Overwrite, delete, lazy expiry, eviction,
  FLUSHDB and the removal of empty collections release a slot once.
- `CommandsIndicesInSync`: `IndicesInSync`, through every insertion, change of a
  score, promotion and removal.
- `CommandsNoEmpty`: `NoEmptyHashOrZSet`. For HINCRBY this rests on arithmetic: it
  creates the hash before it adds, and 0 plus a number that was parsed cannot
  overflow, so the hash it created gets the field.

  The invariant is `CmdInv`: the store is one of `FullArts`, a typed map of nodes and
  typed slabs that are `Linked` one to one and in which no hash or sorted set is
  empty. Collections are typed by what their representation must be (`Hashes`:
  each field once; `ZSets`: strict order and each member once, or two indices
  with the same pairs): without this `IndicesInSync` is not inductive. While a
  command works on a collection its key may hold an empty one (`OpenAt`); every
  command that opens one is shown to fill it or to drop the key. That `FreeSlot` finds a
  slot is a count: every used slot has a key of its own, the key at hand has none,
  and there are as many slots as keys.

`CommandsProofs` also has the lemmas about the operators of `Collections` this rests on
(`HInsertKeeps`, `HDelKeeps`, `SortedInsertKeeps`, `RemoveAtKeeps`, `ZPromoteKeeps`,
`ZInsertKeeps`, `ZRemoveKeeps`) and about the commands' loops. The loops are folds, so
they need an induction, and the library's induction theorems take an operator that
the provers cannot instantiate. `IntervalInduction` states it for a set instead (a
subset of `0 .. n` that has 0 and is closed under successor is all of it), and
`LoopExists`, `LoopIsUnique` and `LoopResult` show once that the recursive function
inside a fold exists and stays in any set that the body stays in; each fold of
the model is then an instance (`HInsertAllStays` and its twins). The attempt showed
that two definitions of `Collections` were CASE expressions with arms that
overlap, which leaves their value open where both hold; they are IF now.

Not proved: liveness, which is beyond TLAPS's reach here. The refinement
`ImplementsTyped` of `Commands` and, of the walks, `UnlinkCounts`, `KeysComplete` and
`KeysSound` are checked by TLC only: they depend on what whole loops compute, or on
history that spans many steps, not only on a set a loop stays in.

## Not modelled, and what is left to do

To prove next: `UnlinkCounts`, which needs that nothing but its own chunks changes a
value in what an UNLINK has cut off; `ImplementsTyped`, command by command.

Not modelled:

- the bytes of RESP: an external crate decodes them and `shared_frame.rs` encodes
  them; `Connection` keeps where frames begin and end;
- the unused binary protocol (`cmd.rs`): no binary speaks it;
- `CompactStr` and `SmallVec`: memory layout behind sequences;
- the regex scan: a read of the tree against an external DFA, with the
  translation of glob patterns before it;
- KEYS and UNLINK at the command layer: loops over the walks of `OxidArtAsync`;
- lists: a tag and a slab without a command; SELECT, which does nothing;
- floating point: scores are integers, so NaN and rounding do not occur;
- start-up, accepting connections and the timers' periods.
