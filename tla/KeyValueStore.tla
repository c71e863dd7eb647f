--------------------------- MODULE KeyValueStore ---------------------------
(***************************************************************************)
(* What OxidArt promises its callers: a map from keys to values with an    *)
(* optional expiry, whatever radix tree represents it.  An entry whose     *)
(* expiry lies in the past is invisible to reads, but it stays in the map  *)
(* until a read, a write or the evictor drops it: DEL and the prefix       *)
(* delete do see it.  To EXPIRE, PERSIST and TTL it does not exist, as the *)
(* documentation of the tree says.  OxidArt is shown to implement this     *)
(* module, except for the two answers ExpireAgrees and PersistAgrees name. *)
(***************************************************************************)
EXTENDS Integers, Sequences, FiniteSets, SequencesExt

CONSTANTS
  Keys,        \* the keys clients use: sequences of radixes
  PrefixArgs,    \* the prefixes of the prefix commands
  Vals,        \* string values
  Collection,  \* a value of the collection types (hash, set, sorted set)
  Ttls,        \* time-to-live arguments
  Deltas,      \* arguments of INCRBY and DECRBY
  MinInt, MaxInt,  \* the integers that can be stored
  NoExpiracy,  \* the expiry of a permanent entry
  MaxNow,      \* the bound on the clock
  Nil          \* no value

VARIABLES
  store,  \* the entries: a function from a subset of Keys to [val, exp]
  now,    \* the clock
  call,   \* the last operation called, with its key or prefix
  ret     \* what it returned, Nil when it returns nothing

kvVars == <<store, now, call, ret>>

Expired(e) == e.exp # NoExpiracy /\ e.exp < now

Visible(k) == k \in DOMAIN store /\ ~Expired(store[k])

Under(p) == {k \in DOMAIN store : IsPrefix(p, k)}

Put(k, v, e) ==
  LET old == store
  IN  [x \in DOMAIN old \cup {k} |->
         IF x = k THEN [val |-> v, exp |-> e] ELSE old[x]]

Drop(S) == LET old == store IN Restrict(old, DOMAIN old \ S)

Init == store = <<>> /\ now = 0 /\ call = <<"new", Nil>> /\ ret = Nil

Set(k, v, e) ==
  /\ call' = <<"set", k>> /\ ret' = Nil
  /\ store' = Put(k, v, e)
  /\ UNCHANGED now

\* A read of an expired entry answers that there is none and drops it.
Get(k) ==
  /\ call' = <<"get", k>>
  /\ ret' = IF Visible(k) THEN store[k].val ELSE Nil
  /\ store' = IF Visible(k) THEN store ELSE Drop({k})
  /\ UNCHANGED now

Del(k) ==
  /\ call' = <<"del", k>>
  /\ ret' = IF k \in DOMAIN store THEN store[k].val ELSE Nil
  /\ store' = Drop({k})
  /\ UNCHANGED now

DelPrefix(p) ==
  /\ call' = <<"deln", p>>
  /\ ret' = Cardinality(Under(p))
  /\ store' = Drop(Under(p))
  /\ UNCHANGED now

GetPrefix(p) ==
  /\ call' = <<"getn", p>>
  /\ ret' = {<<k, store[k].val>> : k \in {x \in Under(p) : Visible(x)}}
  /\ UNCHANGED <<store, now>>

Ttl(k) ==
  /\ call' = <<"ttl", k>>
  /\ ret' = IF ~Visible(k) THEN <<"KeyNotExist">>
            ELSE IF store[k].exp = NoExpiracy THEN <<"KeyWithoutTtl">>
            ELSE <<"KeyWithTtl", store[k].exp - now>>
  /\ UNCHANGED <<store, now>>

\* "Returns `true` if the key exists and the TTL was set, `false` otherwise."
Expire(k, e) ==
  /\ call' = <<"expire", k>>
  /\ ret' = Visible(k)
  /\ store' = IF Visible(k) THEN Put(k, store[k].val, e) ELSE store
  /\ UNCHANGED now

\* "Returns `true` if the key exists and had a TTL": an expired key does not
\* exist, and stays so.
Persist(k) ==
  /\ call' = <<"persist", k>>
  /\ ret' = (Visible(k) /\ store[k].exp # NoExpiracy)
  /\ store' = IF Visible(k) THEN Put(k, store[k].val, NoExpiracy) ELSE store
  /\ UNCHANGED now

\* HSET, SADD, ZADD: create the collection, use it, or answer WRONGTYPE.
Collect(k) ==
  /\ call' = <<"collect", k>>
  /\ ret' = IF Visible(k) THEN store[k].val ELSE Collection
  /\ store' = IF Visible(k) THEN store ELSE Put(k, Collection, NoExpiracy)
  /\ UNCHANGED now

\* The number d is added to, d by itself where there is none; a set that is
\* empty when the value is not a number.
Augends(k) ==
  IF ~Visible(k) THEN {0}
  ELSE {n \in MinInt .. MaxInt : store[k].val \in {<<"Int", n>>, <<"Bytes", n>>}}

\* Counting keeps the expiry of a visible entry; a sum that cannot be stored
\* changes nothing.
Count(k, d) ==
  /\ UNCHANGED now
  /\ \/ /\ Augends(k) = {}
        /\ ret' = <<"Err", "NotAnInteger">> /\ UNCHANGED store
     \/ \E n \in Augends(k) :
          /\ n + d \notin MinInt .. MaxInt
          /\ ret' = <<"Err", "Overflow">> /\ UNCHANGED store
     \/ \E n \in Augends(k) :
          /\ n + d \in MinInt .. MaxInt
          /\ ret' = <<"Ok", n + d>>
          /\ store' = Put(k, <<"Int", n + d>>,
                          IF Visible(k) THEN store[k].exp ELSE NoExpiracy)

IncrBy(k, d) == call' = <<"incrby", k>> /\ Count(k, d)
DecrBy(k, d) == call' = <<"decrby", k>> /\ Count(k, 0 - d)

Tick(t) == now' = t /\ UNCHANGED <<call, ret, store>>

\* The evictor drops one entry, and only an expired one.
Evict(k) ==
  /\ UNCHANGED <<now, call, ret>>
  /\ k \in DOMAIN store /\ Expired(store[k])
  /\ store' = Drop({k})

Next ==
  \/ \E k \in Keys : \/ \E v \in Vals, e \in {NoExpiracy} \cup {now + t : t \in Ttls} :
                          Set(k, v, e)
                     \/ Get(k) \/ Del(k) \/ Ttl(k) \/ Persist(k) \/ Collect(k)
                     \/ \E t \in Ttls : Expire(k, now + t)
                     \/ \E d \in Deltas : IncrBy(k, d) \/ DecrBy(k, d)
                     \/ Evict(k)
  \/ \E p \in PrefixArgs : DelPrefix(p) \/ GetPrefix(p)
  \/ \E t \in 0 .. MaxNow : Tick(t)

Spec == Init /\ [][Next]_kvVars
=============================================================================
