----------------------------- MODULE TypedStore -----------------------------
(***************************************************************************)
(* What the commands promise clients: each key holds a string, a function  *)
(* from fields to texts, a set of members or a function from members to    *)
(* scores, with an optional expiry, and every command answers and changes  *)
(* what these values say, whatever vectors, indices and slabs represent    *)
(* them.  Commands is shown to implement this module.                      *)
(***************************************************************************)
EXTENDS Frames, Sequences, FiniteSets, SequencesExt

CONSTANTS
  NoExpiracy,  \* the expiry of a permanent entry
  MaxNow       \* the bound on the clock

VARIABLES
  db,     \* the entries: from keys to [type, val, exp]
  now,    \* the clock
  call,   \* the last command with its arguments
  reply   \* and the reply to it

tsVars == <<db, now, call, reply>>

Old(k)     == db[k].exp # NoExpiracy /\ db[k].exp < now
Visible(k) == k \in DOMAIN db /\ ~Old(k)
IsA(k, t)  == Visible(k) /\ db[k].type = t

Without(S) == [k \in DOMAIN db \ S |-> db[k]]

\* Reads drop the expired entries they meet.
Purged(S) == Without({k \in S \cap DOMAIN db : Old(k)})

Put(k, t, v, e) == [x \in DOMAIN db \cup {k} |->
                      IF x = k THEN [type |-> t, val |-> v, exp |-> e] ELSE db[x]]

\* A change of the value keeps the expiry; a new entry has none.
Update(k, t, v) == Put(k, t, v, IF Visible(k) THEN db[k].exp ELSE NoExpiracy)

\* What is left of a value; a value with nothing left goes, with its key.
Left(k, v, empty) == IF v = empty THEN Without({k}) ELSE Put(k, db[k].type, v, db[k].exp)

\* The value a command of type t works on.
Of(k, t, empty) == IF IsA(k, t) THEN db[k].val ELSE empty

Over(f, g) == [x \in DOMAIN f \cup DOMAIN g |-> IF x \in DOMAIN g THEN g[x] ELSE f[x]]
Less(f, S) == [x \in DOMAIN f \ S |-> f[x]]

\* The last of several arguments for the same name decides.
Named(pairs, n, v) ==
  [x \in {pairs[i][n] : i \in DOMAIN pairs} |->
     pairs[CHOOSE i \in DOMAIN pairs :
             /\ pairs[i][n] = x
             /\ \A j \in DOMAIN pairs : pairs[j][n] = x => j <= i][v]]

\* A read: nothing there, another type, or what it finds.
ReadOf(k, t, none, some) ==
  IF ~Visible(k) THEN none ELSE IF db[k].type # t THEN WrongType ELSE some

Read(k, t, none, some) == db' = Purged({k}) /\ reply' = ReadOf(k, t, none, some)

\* A write of type t is refused, without a change, by a value of another type.
Write(k, t, new, answer) ==
  IF Visible(k) /\ db[k].type # t THEN db' = db /\ reply' = WrongType
  ELSE db' = new /\ reply' = answer

\* HDEL, SREM and ZREM.
Take(k, t, gone, left, empty) ==
  /\ db' = IF IsA(k, t) THEN Left(k, left, empty) ELSE Purged({k})
  /\ reply' = IF Visible(k) /\ db[k].type # t THEN WrongType ELSE Integer(Cardinality(gone))

-----------------------------------------------------------------------------
(* SET.                                                                     *)

Word(w) == <<"word", w>>

\* The positions that are options, not the argument of one.
Options(o) ==
  CHOOSE P \in SUBSET DOMAIN o :
    \A i \in DOMAIN o : i \in P <=> ~(i - 1 \in P /\ o[i - 1] \in {Word("EX"), Word("PX")})

Timed(o) == {i \in Options(o) : o[i] \in {Word("EX"), Word("PX")}}
Conds(o) == {i \in Options(o) : o[i] \in {Word("NX"), Word("XX")}}
Bad(o)   == {i \in Timed(o) : i = Len(o) \/ ParseNat(o[i + 1]) = {}}

\* The last option of its kind decides; milliseconds are cut to seconds.
Expiry(o) ==
  IF Timed(o) = {} THEN NoExpiracy
  ELSE LET i == CHOOSE i \in Timed(o) : \A j \in Timed(o) : j <= i
       IN  now + (IF o[i] = Word("PX") THEN o[i + 1][2] \div 1000 ELSE o[i + 1][2])

Held(k, o) ==
  /\ Conds(o) # {}
  /\ LET i == CHOOSE i \in Conds(o) : \A j \in Conds(o) : j <= i
     IN  o[i] = Word(IF Visible(k) THEN "NX" ELSE "XX")

Set(k, v, o) ==
  IF Bad(o) # {}
  THEN db' = db /\ reply' = Failed(IF \A i \in Bad(o) : i = Len(o) THEN "syntax error"
                                                                  ELSE "not an integer")
  ELSE IF Held(k, o) THEN db' = Purged({k}) /\ reply' = Null
  ELSE db' = Put(k, "string", v, Expiry(o)) /\ reply' = Ok

-----------------------------------------------------------------------------
(* Numbers.                                                                 *)

Augends(k) == CASE ~Visible(k) -> {0}
                [] IsA(k, "string") -> ParseInt(db[k].val)
                [] OTHER -> {}

IncrBy(k, t) ==
  IF ParseInt(t) = {} \/ Augends(k) = {} THEN db' = db /\ reply' = NotInt
  ELSE \E n \in Augends(k), d \in ParseInt(t) :
         IF n + d \in MinInt .. MaxInt
         THEN db' = Update(k, "string", <<"num", n + d>>) /\ reply' = Integer(n + d)
         ELSE db' = db /\ reply' = Failed("overflow")

\* A field that is no number, or a sum out of range, is refused as such ("ERR
\* hash value is not an integer or out of range", tests/hash.rs).
HIncrBy(k, f, t) ==
  LET h == Of(k, "hash", <<>>)
      S == {n + d : n \in IF f \in DOMAIN h THEN ParseInt(h[f]) ELSE {0}, d \in ParseInt(t)}
             \cap MinInt .. MaxInt
  IN  IF ParseInt(t) = {} THEN db' = db /\ reply' = NotInt
      ELSE IF S = {} THEN Write(k, "hash", db, NotInt)
      ELSE \E n \in S : Write(k, "hash", Update(k, "hash", Over(h, f :> <<"num", n>>)), Integer(n))

\* "Returns `true` if the key exists and the TTL was set" (doc of expire).
Expire(k, t, unit) ==
  IF ParseNat(t) = {} THEN db' = db /\ reply' = NotInt
  ELSE \E n \in ParseNat(t) :
         /\ db' = IF Visible(k) THEN Put(k, db[k].type, db[k].val, now + n \div unit) ELSE db
         /\ reply' = Integer(IF Visible(k) THEN 1 ELSE 0)

-----------------------------------------------------------------------------
(* Sorted sets.                                                             *)

Precedes(z, x, y) == z[x] < z[y] \/ (z[x] = z[y] /\ x < y)

\* The pairs of score and member, each where as many precede it.
Ranked(z) ==
  [i \in 1 .. Cardinality(DOMAIN z) |->
     LET m == CHOOSE m \in DOMAIN z : Cardinality({x \in DOMAIN z : Precedes(z, x, m)}) = i - 1
     IN  <<z[m], m>>]

\* A negative position counts from the end, and not past the first element.
Position(i, n) == IF i >= 0 THEN i ELSE IF n + i > 0 THEN n + i ELSE 0

Slice(z, r) ==
  LET n == Cardinality(DOMAIN z)
  IN  SelectSeq([i \in 1 .. n |-> <<i - 1, Ranked(z)[i]>>],
                LAMBDA p : Position(r[1][2], n) <= p[1] /\ p[1] <= Position(r[2][2], n))

-----------------------------------------------------------------------------

Popped(s, n) == {m \in s : Cardinality({x \in s : x > m}) < n}

SPop(k, t) ==
  LET s   == Of(k, "set", {})
      out == UNION {Popped(s, n) : n \in ParseNat(t)}
  IN  IF ParseNat(t) \subseteq {0} THEN db' = db /\ reply' = NotInt
      ELSE Write(k, "set", Update(k, "set", s \ out),
                 IF t[2] # 1 THEN Array(SetToSortSeq(out, >))
                 ELSE IF out = {} THEN Null ELSE Bulk(CHOOSE m \in out : TRUE))

\* A set is the one value that can be empty: SPOP leaves it so.
SEmptied(k) == IF IsA(k, "set") /\ db[k].val = {} THEN Without({k}) ELSE Purged({k})

ZAdd(k, args) ==
  LET z   == Of(k, "zset", <<>>)
      new == Named([i \in DOMAIN args |-> <<args[i][1][2], args[i][2]>>], 2, 1)
  IN  IF \E i \in DOMAIN args : args[i][1][1] # "num"
      THEN db' = db /\ reply' = Failed("not a float")
      ELSE Write(k, "zset", Update(k, "zset", Over(z, new)),
                 Integer(Cardinality(DOMAIN new \ DOMAIN z)))

ZIncrBy(k, t, m) ==
  LET z == Of(k, "zset", <<>>)
      s == t[2] + (IF m \in DOMAIN z THEN z[m] ELSE 0)
  IN  IF t[1] # "num" THEN db' = db /\ reply' = Failed("not a float")
      ELSE Write(k, "zset", Update(k, "zset", Over(z, m :> s)), Bulk(<<"num", s>>))

TextOf(k) == IF IsA(k, "string") THEN Bulk(db[k].val) ELSE Null

\* What the call c does.
Command(c) ==
  CASE c[1] = "get" -> Read(c[2], "string", Null, Bulk(db[c[2]].val))
    [] c[1] = "mget" -> /\ db' = Purged(ToSet(c[2]))
                        /\ reply' = Array([i \in DOMAIN c[2] |-> TextOf(c[2][i])])
    [] c[1] = "set" -> Set(c[2], c[3], c[4])
    [] c[1] = "setnx" -> IF Visible(c[2]) THEN db' = db /\ reply' = Integer(0)
                         ELSE db' = Put(c[2], "string", c[3], NoExpiracy) /\ reply' = Integer(1)
    [] c[1] = "setex" -> Set(c[2], c[4], <<Word("EX"), c[3]>>)
    [] c[1] = "mset" -> /\ db' = Over(db, [k \in {p[1] : p \in ToSet(c[2])} |->
                                             [type |-> "string", val |-> Named(c[2], 1, 2)[k],
                                              exp |-> NoExpiracy]])
                        /\ reply' = Ok
    [] c[1] = "incrby" -> IncrBy(c[2], c[3])
    [] c[1] = "del" -> /\ db' = Without(ToSet(c[2]))
                       /\ reply' = Integer(Cardinality(DOMAIN db \cap ToSet(c[2])))
    [] c[1] = "exists" -> /\ db' = Purged(ToSet(c[2]))
                          /\ reply' = Integer(Cardinality({i \in DOMAIN c[2] : Visible(c[2][i])}))
    [] c[1] = "type" -> /\ db' = Purged({c[2]})
                        /\ reply' = Simple(IF Visible(c[2]) THEN db[c[2]].type ELSE "none")
    [] c[1] = "ttl" -> /\ db' = db
                       /\ reply' = Integer(IF ~Visible(c[2]) THEN -2
                                           ELSE IF db[c[2]].exp = NoExpiracy THEN -1
                                           ELSE db[c[2]].exp - now)
    [] c[1] = "expire" -> Expire(c[2], c[3], 1)
    [] c[1] = "pexpire" -> Expire(c[2], c[3], 1000)
    [] c[1] = "persist" -> LET k == c[2]
                               had == Visible(k) /\ db[k].exp # NoExpiracy
                           IN  /\ db' = IF had THEN Put(k, db[k].type, db[k].val, NoExpiracy) ELSE db
                               /\ reply' = Integer(IF had THEN 1 ELSE 0)
    [] c[1] = "dbsize" -> db' = db /\ reply' = Integer(Cardinality({k \in DOMAIN db : Visible(k)}))
    [] c[1] = "flushdb" -> db' = <<>> /\ reply' = Ok
    [] c[1] = "misuse" -> db' = db /\ reply' = Failed("wrong number of arguments")
    [] c[1] = "hset" -> LET h == Of(c[2], "hash", <<>>) new == Named(c[3], 1, 2)
                        IN  Write(c[2], "hash", Update(c[2], "hash", Over(h, new)),
                                  Integer(Cardinality(DOMAIN new \ DOMAIN h)))
    [] c[1] = "hincrby" -> HIncrBy(c[2], c[3], c[4])
    [] c[1] = "hdel" -> LET h == Of(c[2], "hash", <<>>)
                        IN  Take(c[2], "hash", DOMAIN h \cap ToSet(c[3]), Less(h, ToSet(c[3])), <<>>)
    [] c[1] = "hget" -> LET h == Of(c[2], "hash", <<>>)
                        IN  Read(c[2], "hash", Null,
                                 IF c[3] \in DOMAIN h THEN Bulk(h[c[3]]) ELSE Null)
    [] c[1] = "hmget" -> LET h == Of(c[2], "hash", <<>>)
                         IN  Read(c[2], "hash", Array([i \in DOMAIN c[3] |-> Null]),
                                  Array([i \in DOMAIN c[3] |-> IF c[3][i] \in DOMAIN h
                                                               THEN Bulk(h[c[3][i]]) ELSE Null]))
    [] c[1] = "hgetall" -> LET h == Of(c[2], "hash", <<>>)
                           IN  Read(c[2], "hash", Array(<<0, {}>>),
                                    Array(<<Cardinality(DOMAIN h), {<<f, h[f]>> : f \in DOMAIN h}>>))
    [] c[1] = "hlen" -> Read(c[2], "hash", Integer(0),
                             Integer(Cardinality(DOMAIN Of(c[2], "hash", <<>>))))
    [] c[1] = "sadd" -> LET s == Of(c[2], "set", {})
                        IN  Write(c[2], "set", Update(c[2], "set", s \cup ToSet(c[3])),
                                  Integer(Cardinality(ToSet(c[3]) \ s)))
    [] c[1] = "srem" -> LET s == Of(c[2], "set", {})
                        IN  Take(c[2], "set", s \cap ToSet(c[3]), s \ ToSet(c[3]), {})
    [] c[1] = "spop" -> SPop(c[2], c[3])
    [] c[1] = "sismember" -> Read(c[2], "set", Integer(0),
                                  Integer(IF c[3] \in Of(c[2], "set", {}) THEN 1 ELSE 0))
    [] c[1] = "smembers" -> /\ db' = SEmptied(c[2])
                            /\ reply' = ReadOf(c[2], "set", Array(<<>>),
                                               Array(SetToSortSeq(Of(c[2], "set", {}), <)))
    [] c[1] = "scard" -> /\ db' = SEmptied(c[2])
                         /\ reply' = ReadOf(c[2], "set", Integer(0),
                                            Integer(Cardinality(Of(c[2], "set", {}))))
    [] c[1] = "zadd" -> ZAdd(c[2], c[3])
    [] c[1] = "zincrby" -> ZIncrBy(c[2], c[3], c[4])
    [] c[1] = "zrem" -> LET z == Of(c[2], "zset", <<>>)
                        IN  Take(c[2], "zset", DOMAIN z \cap ToSet(c[3]), Less(z, ToSet(c[3])), <<>>)
    [] c[1] = "zscore" -> LET z == Of(c[2], "zset", <<>>)
                          IN  Read(c[2], "zset", Null,
                                   IF c[3] \in DOMAIN z THEN Bulk(<<"num", z[c[3]]>>) ELSE Null)
    [] c[1] = "zcard" -> Read(c[2], "zset", Integer(0),
                              Integer(Cardinality(DOMAIN Of(c[2], "zset", <<>>))))
    [] c[1] = "zrange" -> IF ParseInt(c[3][1]) = {} \/ ParseInt(c[3][2]) = {}
                          THEN db' = db /\ reply' = NotInt
                          ELSE LET z == Of(c[2], "zset", <<>>)
                               IN  Read(c[2], "zset", Array(<<>>),
                                        Array([i \in 1 .. Len(Slice(z, c[3])) |-> Slice(z, c[3])[i][2]]))
    [] OTHER -> FALSE

Init == db = <<>> /\ now = 0 /\ call = <<"new">> /\ reply = Null

Tick(t) == now' = t /\ UNCHANGED <<db, call, reply>>

\* The evictor drops one entry, and only an expired one.
Evict == UNCHANGED <<now, call, reply>> /\ \E k \in DOMAIN db : Old(k) /\ db' = Without({k})

Next ==
  \/ UNCHANGED now /\ Command(call')
  \/ \E t \in 0 .. MaxNow : Tick(t)
  \/ Evict

Spec == Init /\ [][Next]_tsVars
=============================================================================
