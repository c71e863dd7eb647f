------------------------------ MODULE Commands ------------------------------
(***************************************************************************)
(* The commands of the server on typed values: the handlers of resp_cmd    *)
(* with the OxidArt operations they call.  The tree is the map from keys   *)
(* to nodes that OxidArt is shown to implement, for keys none of which is  *)
(* a prefix of another, so that a node exists only while it has a value.   *)
(* A node holds its tag, its value and its expiry; the value of a          *)
(* collection is the index of a slot in the slab of its type.              *)
(*                                                                         *)
(* Frames says what texts and replies are.                                 *)
(***************************************************************************)
EXTENDS Collections, Frames

CONSTANTS
  Keys,
  HKeys, SKeys, ZKeys,  \* keys on which clients use hashes, sets, sorted sets
  KeyArgs,              \* arguments of the commands that take several keys
  Texts,                \* texts that clients store
  IntArgs,              \* texts that clients pass where a number is wanted
  SecArgs, MilliArgs,   \* ... and where a time is wanted
  PopArgs,              \* ... and where SPOP wants a count
  OptArgs,              \* options of SET
  PairArgs,             \* fields and values of HSET
  MemberArgs,           \* fields or members of the commands that take several
  ScoreArgs,            \* scores, as texts, and members of ZADD
  RangeArgs,            \* bounds of ZRANGE, as texts
  Scores,               \* scores that ZINCRBY may reach
  NoExpiracy,           \* the expiry of a permanent entry, the greatest of 56 bits
  MaxNow                \* the bound on the clock

ASSUME CommandAssumptions ==
  /\ HKeys \cup SKeys \cup ZKeys \subseteq Keys
  /\ IsFiniteSet(Keys)
  /\ MaxNow \in Nat /\ NoExpiracy \in Nat /\ MaxNow < NoExpiracy

\* What the handlers have checked before they act: the pairs of HSET and ZADD
\* are complete and there is one at least (the arity checks of cmd_hset and
\* cmd_zadd).
ASSUME ArgAssumptions ==
  /\ KeyArgs \subseteq Seq(Keys) /\ MemberArgs \subseteq Seq(Int)
  /\ IntArgs \subseteq AnyText /\ OptArgs \subseteq Seq(AnyText)
  /\ PairArgs \subseteq Seq(Int \X Texts) \ {<<>>}
  /\ ScoreArgs \subseteq Seq(AnyText \X Int) \ {<<>>}

VARIABLES
  art,       \* nodes by key, and the slabs by tag
  now,       \* the clock
  panicked,  \* the process has stopped
  call,      \* the last command with its arguments
  reply      \* and the reply to it

vars == <<art, now, panicked, call, reply>>

SlabTags == {"Hash", "Set", "ZSet"}
SlabIdx  == 1 .. Cardinality(Keys)

-----------------------------------------------------------------------------
(* Nodes and slabs.                                                         *)

Has(a, k) == k \in DOMAIN a.nodes

Expired(n) == n.exp # NoExpiracy /\ n.exp < now

\* get_value_mut finds something.
Live(a, k) == Has(a, k) /\ ~Expired(a.nodes[k])

\* Seeded bug: the slot of a collection is not released.
DropRawLeaks(a, k) == a

DropRaw(a, k) ==
  IF Has(a, k) /\ a.nodes[k].tag \in SlabTags
  THEN [a EXCEPT !.slabs[a.nodes[k].tag] = Unbind(@, a.nodes[k].val)]
  ELSE a

\* del and delete_node_inline: the node goes, with what its value owns.
DropKey(a, k) ==
  IF Has(a, k) THEN [DropRaw(a, k) EXCEPT !.nodes = Unbind(@, k)] ELSE a

\* get and get_mut drop an expired entry before they look.
Lookup(a, k) == IF Has(a, k) /\ Expired(a.nodes[k]) THEN DropKey(a, k) ELSE a

LookupAll(a, ks) == FoldLeft(Lookup, a, ks)
DropKeys(a, ks) == FoldLeft(DropKey, a, ks)

\* set_val: what the node held before is released.
SetVal(a, k, tag, v, e) ==
  [DropRaw(a, k) EXCEPT !.nodes = Bind(@, k, [tag |-> tag, val |-> v, exp |-> e])]

SetAll(a, pairs) ==
  FoldLeft(LAMBDA b, p : SetVal(b, p[1], "Bytes", p[2], NoExpiracy), a, pairs)

FreeSlot(a, tag) ==
  CHOOSE i \in SlabIdx \ DOMAIN a.slabs[tag] :
    \A j \in SlabIdx \ DOMAIN a.slabs[tag] : i <= j

New(tag) == CASE tag = "Hash" -> HNew [] tag = "Set" -> {} [] tag = "ZSet" -> ZNew

Coll(a, k) == a.slabs[a.nodes[k].tag][a.nodes[k].val]

PutColl(a, k, c) == [a EXCEPT !.slabs[a.nodes[k].tag][a.nodes[k].val] = c]

Create(a, k, tag) ==
  LET i == FreeSlot(a, tag)
  IN  [a EXCEPT !.slabs[tag] = Bind(@, i, New(tag)),
                !.nodes = Bind(@, k, [tag |-> tag, val |-> i, exp |-> NoExpiracy])]

\* get_hash_mut, get_btree_set_mut, get_zset_mut: the collection is there or
\* is created; a live value of another type is refused.
Ready(k, tag) ==
  CASE ~Has(art, k)                                 -> {Create(art, k, tag)}
    [] Live(art, k) /\ art.nodes[k].tag = tag        -> {art}
    [] OTHER                                        -> {}

IsEmpty(tag, c) == CASE tag = "Hash" -> HLen(c) = 0
                     [] tag = "Set"  -> c = {}
                     [] tag = "ZSet" -> ZLen(c) = 0

\* Seeded bug: the key of an empty collection stays.
ShrunkKeepsKey(a, k, c) == PutColl(a, k, c)

\* HDEL, SREM and ZREM drop a key whose collection has become empty.
Shrunk(a, k, c) ==
  IF IsEmpty(a.nodes[k].tag, c) THEN DropKey(PutColl(a, k, c), k) ELSE PutColl(a, k, c)

\* The reply of a read: nothing there, another type, or what it finds.
Answer(a, k, tag, none, some) ==
  IF ~Has(a, k) THEN none
  ELSE IF a.nodes[k].tag # tag THEN WrongType
  ELSE some

\* Value::as_bytes: a number is formatted.
AsBytes(n) == IF n.tag = "Int" THEN <<"num", n.val>> ELSE n.val
IsText(a, k) == Has(a, k) /\ a.nodes[k].tag \in {"Bytes", "Int"}

TypeName(tag) == CASE tag \in {"Bytes", "Int"} -> "string" [] tag = "Hash" -> "hash"
                   [] tag = "Set" -> "set" [] tag = "ZSet" -> "zset"

-----------------------------------------------------------------------------
(* What every handler does: the call, its reply, and the new state.         *)

Does(c, a, r) ==
  /\ ~panicked
  /\ call' = c /\ art' = a /\ reply' = r
  /\ UNCHANGED <<now, panicked>>

\* A panic ends the process: nothing that follows matters.
Panics == ~panicked /\ panicked' = TRUE /\ UNCHANGED <<art, now, call, reply>>

\* The arms that get_hash_mut and its twins share: WRONGTYPE, and the unwrap
\* of get_value_mut, which fails for an entry that has expired.
RefusedAt(c, k, tag) ==
  /\ Live(art, k) /\ art.nodes[k].tag # tag
  /\ Does(c, art, WrongType)

UnwrapsExpired(k) == Has(art, k) /\ Expired(art.nodes[k]) /\ Panics

-----------------------------------------------------------------------------
(* Strings.                                                                 *)

Get(k) ==
  \E a \in {Lookup(art, k)} :
    Does(<<"get", k>>, a, CASE ~Has(a, k) -> Null
                            [] IsText(a, k) -> Bulk(AsBytes(a.nodes[k]))
                            [] OTHER -> WrongType)

MGet(ks) ==
  \E a \in {LookupAll(art, ks)} :
    Does(<<"mget", ks>>, a,
         Array([i \in DOMAIN ks |-> IF IsText(a, ks[i]) THEN Bulk(AsBytes(a.nodes[ks[i]]))
                                                        ELSE Null]))

\* The loop of parse_set_options: want is the option whose argument comes next.
ParseOption(o, t) ==
  CASE o.err # "" -> o
    [] o.err = "" /\ o.want # "" ->
         IF ParseNat(t) = {} THEN [o EXCEPT !.err = "not an integer"]
         ELSE [o EXCEPT !.want = "",
                        !.ttl  = {IF o.want = "PX" THEN n \div 1000 ELSE n : n \in ParseNat(t)}]
    [] o.err = "" /\ o.want = "" /\ t \in {<<"word", "EX">>, <<"word", "PX">>} ->
         [o EXCEPT !.want = t[2]]
    [] o.err = "" /\ o.want = "" /\ t \in {<<"word", "NX">>, <<"word", "XX">>} ->
         [o EXCEPT !.cond = t[2]]
    [] OTHER -> o

ParseSetOptions(opts) ==
  LET o == FoldLeft(ParseOption, [ttl |-> {}, cond |-> "", want |-> "", err |-> ""], opts)
  IN  IF o.err = "" /\ o.want # "" THEN [o EXCEPT !.err = "syntax error"] ELSE o

\* SET: conditions first, then set or set_ttl.  An expiry of more than 56
\* bits fails the assertion of set_exp.
Set(k, v, opts) ==
  \E o \in {ParseSetOptions(opts)} :
  \E a \in {IF o.cond = "" THEN art ELSE Lookup(art, k)} :
    \/ o.err # "" /\ Does(<<"set", k, v, opts>>, art, Failed(o.err))
    \/ /\ o.err = "" /\ o.cond = (IF Has(a, k) THEN "NX" ELSE "XX")
       /\ Does(<<"set", k, v, opts>>, a, Null)
    \/ /\ o.err = "" /\ o.cond # (IF Has(a, k) THEN "NX" ELSE "XX")
       /\ \/ /\ o.ttl = {}
             /\ Does(<<"set", k, v, opts>>, SetVal(a, k, "Bytes", v, NoExpiracy), Ok)
          \/ \E n \in o.ttl :
               IF now + n > NoExpiracy THEN Panics
               ELSE Does(<<"set", k, v, opts>>, SetVal(a, k, "Bytes", v, now + n), Ok)

SetNx(k, v) ==
  \E a \in {Lookup(art, k)} :
    IF Has(a, k) THEN Does(<<"setnx", k, v>>, a, Integer(0))
    ELSE Does(<<"setnx", k, v>>, SetVal(a, k, "Bytes", v, NoExpiracy), Integer(1))

SetEx(k, t, v) ==
  \/ ParseNat(t) = {} /\ Does(<<"setex", k, t, v>>, art, NotInt)
  \/ \E n \in ParseNat(t) :
       IF now + n > NoExpiracy THEN Panics
       ELSE Does(<<"setex", k, t, v>>, SetVal(art, k, "Bytes", v, now + n), Ok)

MSet(pairs) == Does(<<"mset", pairs>>, SetAll(art, pairs), Ok)

\* INCRBY; INCR and DECR are its cases for 1 and -1, and DECRBY negates its
\* argument.  The number replaces the text, with the expiry it has.
IncrBy(k, t) ==
  \/ ParseInt(t) = {} /\ Does(<<"incrby", k, t>>, art, NotInt)
  \/ \E d \in ParseInt(t) :
       \/ /\ ~Live(art, k)
          /\ Does(<<"incrby", k, t>>, SetVal(art, k, "Int", d, NoExpiracy), Integer(d))
       \/ /\ Live(art, k)
          /\ IF ~IsText(art, k) \/ ParseInt(AsBytes(art.nodes[k])) = {}
             THEN Does(<<"incrby", k, t>>, art, NotInt)
             ELSE \E n \in ParseInt(AsBytes(art.nodes[k])) :
                    IF n + d \notin MinInt .. MaxInt
                    THEN Does(<<"incrby", k, t>>, art, Failed("overflow"))
                    ELSE Does(<<"incrby", k, t>>,
                              SetVal(art, k, "Int", n + d, art.nodes[k].exp), Integer(n + d))

-----------------------------------------------------------------------------
(* Keys of any type.                                                        *)

\* del does not look at the clock: an expired entry counts.
Del(ks) ==
  Does(<<"del", ks>>, DropKeys(art, ks), Integer(Cardinality(DOMAIN art.nodes \cap ToSet(ks))))

\* A key named twice counts twice.
Exists(ks) ==
  \E a \in {LookupAll(art, ks)} :
    Does(<<"exists", ks>>, a, Integer(Cardinality({i \in DOMAIN ks : Has(a, ks[i])})))

Type(k) ==
  \E a \in {Lookup(art, k)} :
    Does(<<"type", k>>, a, Simple(IF Has(a, k) THEN TypeName(a.nodes[k].tag) ELSE "none"))

\* TTL; PTTL is the same number of seconds times a thousand.
Ttl(k) ==
  Does(<<"ttl", k>>, art,
       Integer(IF ~Live(art, k) THEN -2
               ELSE IF art.nodes[k].exp = NoExpiracy THEN -1
               ELSE art.nodes[k].exp - now))

\* Seeded bug: an expiry of more than 56 bits is stored.
ExpireAtUnchecked(c, k, n) ==
  IF ~Live(art, k) THEN Does(c, art, Integer(0))
  ELSE Does(c, [art EXCEPT !.nodes[k].exp = now + n],
            Integer(IF art.nodes[k].exp = NoExpiracy THEN 1 ELSE 0))

\* OxidArt::expire answers whether the entry was permanent.
ExpireAt(c, k, n) ==
  IF ~Live(art, k) THEN Does(c, art, Integer(0))
  ELSE IF now + n > NoExpiracy THEN Panics
  ELSE Does(c, [art EXCEPT !.nodes[k].exp = now + n],
            Integer(IF art.nodes[k].exp = NoExpiracy THEN 1 ELSE 0))

Expire(k, t) ==
  \/ ParseNat(t) = {} /\ Does(<<"expire", k, t>>, art, NotInt)
  \/ \E n \in ParseNat(t) : ExpireAt(<<"expire", k, t>>, k, n)

\* Milliseconds are cut to whole seconds.
PExpire(k, t) ==
  \/ ParseNat(t) = {} /\ Does(<<"pexpire", k, t>>, art, NotInt)
  \/ \E n \in ParseNat(t) : ExpireAt(<<"pexpire", k, t>>, k, n \div 1000)

\* persist does not look at the clock either: it revives an expired entry.
Persist(k) ==
  IF Has(art, k) /\ art.nodes[k].exp # NoExpiracy
  THEN Does(<<"persist", k>>, [art EXCEPT !.nodes[k].exp = NoExpiracy], Integer(1))
  ELSE Does(<<"persist", k>>, art, Integer(0))

DbSize ==
  Does(<<"dbsize">>, art,
       Integer(Cardinality({k \in DOMAIN art.nodes : ~Expired(art.nodes[k])})))

FlushDb == Does(<<"flushdb">>, DropKeys(art, SetToSeq(DOMAIN art.nodes)), Ok)

-----------------------------------------------------------------------------
(* Hashes.                                                                  *)

\* HSET; HMSET answers OK instead of the number of new fields.
HSet(k, pairs) ==
  LET c == <<"hset", k, pairs>>
  IN  \/ RefusedAt(c, k, "Hash")
      \/ UnwrapsExpired(k)
      \/ \E a \in Ready(k, "Hash") : \E r \in {HInsertAll(Coll(a, k), pairs)} :
           Does(c, PutColl(a, k, r[1]), Integer(r[2]))

\* The number in a field: zero if there is no field, none if it is no number.
Current(h, f) == IF f \in HFields(h) THEN ParseInt(HGet(h, f)) ELSE {0}

\* HINCRBY: the number is stored as text; cmd_hincrby answers every error as
\* WRONGTYPE.
HIncrBy(k, f, t) ==
  LET c == <<"hincrby", k, f, t>>
  IN  \/ ParseInt(t) = {} /\ Does(c, art, NotInt)
      \/ ParseInt(t) # {} /\ RefusedAt(c, k, "Hash")
      \/ ParseInt(t) # {} /\ UnwrapsExpired(k)
      \/ \E d \in ParseInt(t), a \in Ready(k, "Hash") :
         \E S \in {Current(Coll(a, k), f)} :
           IF \A n \in S : n + d \notin MinInt .. MaxInt THEN Does(c, a, WrongType)
           ELSE \E n \in S :
                  Does(c, PutColl(a, k, HInsert(Coll(a, k), f, <<"num", n + d>>)), Integer(n + d))

HDelete(k, fields) ==
  \E a \in {Lookup(art, k)} :
    IF ~Has(a, k) THEN Does(<<"hdel", k, fields>>, a, Integer(0))
    ELSE IF a.nodes[k].tag # "Hash" THEN Does(<<"hdel", k, fields>>, a, WrongType)
    ELSE \E r \in {HDelAll(Coll(a, k), fields)} :
           Does(<<"hdel", k, fields>>, Shrunk(a, k, r[1]), Integer(r[2]))

Field(h, f) == IF f \in HFields(h) THEN Bulk(HGet(h, f)) ELSE Null

\* HGET; HEXISTS answers whether there is a value.
HValue(k, f) ==
  \E a \in {Lookup(art, k)} :
    Does(<<"hget", k, f>>, a, Answer(a, k, "Hash", Null, Field(Coll(a, k), f)))

HMGet(k, fs) ==
  \E a \in {Lookup(art, k)} :
    Does(<<"hmget", k, fs>>, a,
         Answer(a, k, "Hash", Array([i \in DOMAIN fs |-> Null]),
                Array([i \in DOMAIN fs |-> Field(Coll(a, k), fs[i])])))

HGetAll(k) ==
  \E a \in {Lookup(art, k)} :
    Does(<<"hgetall", k>>, a, Answer(a, k, "Hash", Array(<<0, {}>>), Array(HAll(Coll(a, k)))))

HLength(k) ==
  \E a \in {Lookup(art, k)} :
    Does(<<"hlen", k>>, a, Answer(a, k, "Hash", Integer(0), Integer(HLen(Coll(a, k)))))

-----------------------------------------------------------------------------
(* Sets.                                                                    *)

SAdd(k, members) ==
  LET c == <<"sadd", k, members>>
  IN  \/ RefusedAt(c, k, "Set")
      \/ UnwrapsExpired(k)
      \/ \E a \in Ready(k, "Set") : \E r \in {SInsertAll(Coll(a, k), members)} :
           Does(c, PutColl(a, k, r[1]), Integer(r[2]))

SRem(k, members) ==
  \E a \in {Lookup(art, k)} :
    IF ~Has(a, k) THEN Does(<<"srem", k, members>>, a, Integer(0))
    ELSE IF a.nodes[k].tag # "Set" THEN Does(<<"srem", k, members>>, a, WrongType)
    ELSE \E r \in {SRemoveAll(Coll(a, k), members)} :
           Does(<<"srem", k, members>>, Shrunk(a, k, r[1]), Integer(r[2]))

\* SPOP opens the set as SADD does: a key that was not there then holds an
\* empty set, and so does one whose last member was taken.
SPop(k, t) ==
  LET c == <<"spop", k, t>>
  IN  \/ ParseNat(t) \ {0} = {} /\ Does(c, art, NotInt)
      \/ \E n \in ParseNat(t) \ {0} :
           \/ RefusedAt(c, k, "Set")
           \/ UnwrapsExpired(k)
           \/ \E a \in Ready(k, "Set") : \E out \in {SPopped(Coll(a, k), n)} :
                Does(c, PutColl(a, k, Coll(a, k) \ ToSet(out)),
                     CASE n # 1 -> Array(out)
                       [] n = 1 /\ out = <<>> -> Null
                       [] OTHER -> Bulk(out[1]))

\* SISMEMBER.
SIsMember(k, m) ==
  \E a \in {Lookup(art, k)} :
    Does(<<"sismember", k, m>>, a,
         Answer(a, k, "Set", Integer(0), Integer(IF m \in Coll(a, k) THEN 1 ELSE 0)))

\* SMEMBERS and SCARD drop the key of an empty set.
Tidied(a, k) ==
  IF Has(a, k) /\ a.nodes[k].tag = "Set" /\ Coll(a, k) = {} THEN DropKey(a, k) ELSE a

SMembers(k) ==
  \E a \in {Lookup(art, k)} :
    Does(<<"smembers", k>>, Tidied(a, k),
         Answer(a, k, "Set", Array(<<>>), Array(SetToSortSeq(Coll(a, k), <))))

SCard(k) ==
  \E a \in {Lookup(art, k)} :
    Does(<<"scard", k>>, Tidied(a, k),
         Answer(a, k, "Set", Integer(0), Integer(Cardinality(Coll(a, k)))))

-----------------------------------------------------------------------------
(* Sorted sets.                                                             *)

\* ZADD parses every score before it touches the key.
ZAdd(k, args) ==
  LET c == <<"zadd", k, args>>
  IN  IF \E i \in DOMAIN args : args[i][1][1] # "num" THEN Does(c, art, Failed("not a float"))
      ELSE \/ RefusedAt(c, k, "ZSet")
           \/ UnwrapsExpired(k)
           \/ \E a \in Ready(k, "ZSet") :
              \E r \in {ZInsertAll(Coll(a, k), [i \in DOMAIN args |-> <<args[i][1][2], args[i][2]>>])} :
                Does(c, PutColl(a, k, r[1]), Integer(r[2]))

\* The bound on scores is the model's, a float has none.
ZIncrBy(k, t, m) ==
  LET c == <<"zincrby", k, t, m>>
  IN  IF t[1] # "num" THEN Does(c, art, Failed("not a float"))
      ELSE \/ RefusedAt(c, k, "ZSet")
           \/ UnwrapsExpired(k)
           \/ \E a \in Ready(k, "ZSet") :
              \E s \in {t[2] + (IF m \in ZMembers(Coll(a, k)) THEN ZScore(Coll(a, k), m) ELSE 0)} :
                /\ s \in Scores
                /\ Does(c, PutColl(a, k, ZInsert(Coll(a, k), s, m)), Bulk(<<"num", s>>))

ZRem(k, members) ==
  \E a \in {Lookup(art, k)} :
    IF ~Has(a, k) THEN Does(<<"zrem", k, members>>, a, Integer(0))
    ELSE IF a.nodes[k].tag # "ZSet" THEN Does(<<"zrem", k, members>>, a, WrongType)
    ELSE \E r \in {ZRemoveAll(Coll(a, k), members)} :
           Does(<<"zrem", k, members>>, Shrunk(a, k, r[1]), Integer(r[2]))

ZValue(k, m) ==
  \E a \in {Lookup(art, k)} :
    Does(<<"zscore", k, m>>, a,
         Answer(a, k, "ZSet", Null,
                IF m \in ZMembers(Coll(a, k)) THEN Bulk(<<"num", ZScore(Coll(a, k), m)>>) ELSE Null))

ZCard(k) ==
  \E a \in {Lookup(art, k)} :
    Does(<<"zcard", k>>, a, Answer(a, k, "ZSet", Integer(0), Integer(ZLen(Coll(a, k)))))

\* ZRANGE parses its bounds before it looks the key up.  WITHSCORES lists
\* the pairs; without it, their members.
ZSlice(k, r) ==
  IF ParseInt(r[1]) = {} \/ ParseInt(r[2]) = {} THEN Does(<<"zrange", k, r>>, art, NotInt)
  ELSE \E a \in {Lookup(art, k)} :
         Does(<<"zrange", k, r>>, a,
              Answer(a, k, "ZSet", Array(<<>>), Array(ZRange(Coll(a, k), r[1][2], r[2][2]))))

-----------------------------------------------------------------------------

\* A call with a wrong number of arguments, of any command.
Misuse == Does(<<"misuse">>, art, Failed("wrong number of arguments"))

\* The clock is the system's and is read between commands.
Tick(t) ==
  /\ ~panicked /\ now' = t
  /\ UNCHANGED <<art, panicked, call, reply>>

\* The evictor drops an expired entry.
Evict(k) ==
  /\ ~panicked /\ Has(art, k) /\ Expired(art.nodes[k])
  /\ art' = DropKey(art, k)
  /\ UNCHANGED <<now, panicked, call, reply>>

Init ==
  /\ art = [nodes |-> <<>>, slabs |-> [t \in SlabTags |-> <<>>]]
  /\ now = 0 /\ panicked = FALSE /\ call = <<"new">> /\ reply = Null

Members == UNION {ToSet(ms) : ms \in MemberArgs}

\* All steps but the four commands that may answer otherwise than documented.
Calls ==
  \/ \E k \in Keys : Get(k) \/ Type(k) \/ Ttl(k) \/ Evict(k)
  \/ \E k \in Keys, v \in Texts, o \in OptArgs : Set(k, v, o)
  \/ \E k \in Keys, v \in Texts : SetNx(k, v) \/ (\E t \in SecArgs : SetEx(k, t, v))
  \/ \E ks \in KeyArgs : MGet(ks) \/ Del(ks) \/ Exists(ks)
  \/ \E ks \in KeyArgs, v \in Texts : MSet([i \in DOMAIN ks |-> <<ks[i], v>>])
  \/ \E k \in Keys, t \in IntArgs : IncrBy(k, t)
  \/ DbSize \/ FlushDb \/ Misuse
  \/ \E k \in HKeys : \/ \E pairs \in PairArgs : HSet(k, pairs)
                      \/ \E fs \in MemberArgs : HDelete(k, fs) \/ HMGet(k, fs)
                      \/ \E f \in Members : HValue(k, f)
                      \/ HGetAll(k) \/ HLength(k)
  \/ \E k \in SKeys : \/ \E ms \in MemberArgs : SAdd(k, ms) \/ SRem(k, ms)
                      \/ \E t \in PopArgs : SPop(k, t)
                      \/ \E m \in Members : SIsMember(k, m)
                      \/ SMembers(k) \/ SCard(k)
  \/ \E k \in ZKeys : \/ \E args \in ScoreArgs : ZAdd(k, args)
                      \/ \E m \in Members, t \in IntArgs : ZIncrBy(k, t, m)
                      \/ \E ms \in MemberArgs : ZRem(k, ms)
                      \/ \E m \in Members : ZValue(k, m)
                      \/ ZCard(k) \/ (\E r \in RangeArgs : ZSlice(k, r))
  \/ \E t \in 0 .. MaxNow : Tick(t)

Next ==
  \/ Calls
  \/ \E k \in Keys, t \in SecArgs : Expire(k, t)
  \/ \E k \in Keys, t \in MilliArgs : PExpire(k, t)
  \/ \E k \in Keys : Persist(k)
  \/ \E k \in HKeys, f \in Members, t \in IntArgs : HIncrBy(k, f, t)

Spec == Init /\ [][Next]_vars

-----------------------------------------------------------------------------
(* Properties.                                                              *)

\* A node has a value of the kind its tag says and an expiry of 56 bits.
TypeOK ==
  /\ DOMAIN art.nodes \subseteq Keys
  /\ DOMAIN art.slabs = SlabTags
  /\ \A k \in DOMAIN art.nodes :
       /\ art.nodes[k].exp \in 0 .. NoExpiracy
       /\ CASE art.nodes[k].tag = "Bytes" -> art.nodes[k].val \in Texts
            [] art.nodes[k].tag = "Int"   -> art.nodes[k].val \in MinInt .. MaxInt
            [] OTHER -> art.nodes[k].tag \in SlabTags /\ art.nodes[k].val \in SlabIdx
  /\ now \in 0 .. MaxNow /\ panicked \in BOOLEAN

\* Every slot of a slab belongs to exactly one node, and the slot of every
\* collection is occupied: no overwrite, delete, expiry or eviction leaks a
\* collection, frees one twice or leaves two keys with the same one
\* (value_into_raw: "the returned idx owns the slot").
SlabsOwned ==
  \A t \in SlabTags :
    LET owners == {k \in DOMAIN art.nodes : art.nodes[k].tag = t}
    IN  /\ {art.nodes[k].val : k \in owners} = DOMAIN art.slabs[t]
        /\ \A j, k \in owners : art.nodes[j].val = art.nodes[k].val => j = k

\* The two indices of a large sorted set hold the same members and scores
\* ("Both structures are kept in sync on all mutations", zset_inner.rs), and
\* a small one stays in strict order with each member once.
IndicesInSync ==
  \A i \in DOMAIN art.slabs["ZSet"] :
    LET z == art.slabs["ZSet"][i]
    IN  IF z.kind = "Large" THEN z.sorted = {<<z.scores[m], m>> : m \in DOMAIN z.scores}
        ELSE /\ Len(z.vec) <= THRESHOLD
             /\ Cardinality(ZMembers(z)) = Len(z.vec)
             /\ \A j \in 1 .. Len(z.vec) - 1 : Before(z.vec[j], z.vec[j + 1])

\* HDEL and ZREM take the key of an emptied collection with them ("Auto-deletes
\* the key if the hash becomes empty", cmd_hdel): no command leaves an empty
\* hash or sorted set, only SPOP leaves an empty set.
NoEmptyHashOrZSet ==
  \A k \in DOMAIN art.nodes :
    art.nodes[k].tag \in {"Hash", "ZSet"} => ~IsEmpty(art.nodes[k].tag, Coll(art, k))

\* The field f of a live hash takes the number in t.
Countable(k, f, t) ==
  \E n \in Current(Coll(art, k), f), d \in ParseInt(t) : n + d \in MinInt .. MaxInt

\* The calls whose answers are as documented.
ExpireAgrees(k)  == Live(art, k) => art.nodes[k].exp = NoExpiracy
PersistAgrees(k) == Has(art, k) => ~Expired(art.nodes[k])
HIncrByAgrees(k, f, t) ==
  Live(art, k) /\ art.nodes[k].tag = "Hash" /\ ParseInt(t) # {} => Countable(k, f, t)

\* What the entry of key k is to clients.
Abstract(k) ==
  LET n == art.nodes[k]
      v == CASE n.tag \in {"Bytes", "Int"} -> AsBytes(n)
             [] n.tag = "Hash" -> [f \in HFields(Coll(art, k)) |-> HGet(Coll(art, k), f)]
             [] n.tag = "Set"  -> Coll(art, k)
             [] n.tag = "ZSet" -> [m \in ZMembers(Coll(art, k)) |-> ZScore(Coll(art, k), m)]
  IN  [type |-> TypeName(n.tag), val |-> v, exp |-> n.exp]

TS == INSTANCE TypedStore WITH db <- [k \in DOMAIN art.nodes |-> Abstract(k)]

\* Whatever represents the values, every command answers and changes what it
\* would on plain strings, functions and sets; a panic changes nothing.  The
\* calls that answer otherwise are those of ExpireAgrees, PersistAgrees and
\* HIncrByAgrees.
ImplementsTyped == TS!Spec
=============================================================================
