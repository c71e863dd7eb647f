------------------------------ MODULE Registry ------------------------------
(***************************************************************************)
(* SubRegistry of radixox/src/bin/utils/mod.rs with the arena it really    *)
(* has: conn_arena is a GenArena<Conn>, and a SubId is one of its keys.    *)
(* PubSub numbers the SubIds by the order of the subscriptions; here every *)
(* number gets the key that insert returned for it, so that a slot serves  *)
(* one connection after the other.                                         *)
(***************************************************************************)
EXTENDS PubSub, GenArena

\* The arena holds Conns, named by the number of their SubId.
ASSUME RegistryAssumption == SubIds \subseteq Data

VARIABLE
  key  \* SubId(key): the key of every SubId handed out

registryVars == <<vars, genVars, key>>

RegistryInit ==
  /\ Init
  /\ ArenaInit
  /\ key = [s \in {} |-> Nothing]

\* subscribe, first channel: insert(conn).
Enters ==
  \E s \in DOMAIN conn_arena' \ DOMAIN conn_arena :
    /\ InsertFree(s) \/ InsertGrow(s)
    /\ key' = [x \in DOMAIN key \cup {s} |-> IF x = s THEN ret' ELSE key[x]]

\* unsubscribe from the last channel, and cleanup: remove(sub_id.0).
Leaves ==
  \E s \in DOMAIN conn_arena \ DOMAIN conn_arena' :
    Remove(key[s]) /\ UNCHANGED key

\* The other steps change a Conn in place, through get_mut.
Stays ==
  /\ DOMAIN conn_arena' = DOMAIN conn_arena
  /\ UNCHANGED <<genVars, key>>

\* get and remove through a SubId kept somewhere, its connection gone or not.
Consult ==
  /\ \E s \in DOMAIN key : Get(key[s]) \/ RemoveStale(key[s])
  /\ UNCHANGED <<vars, key>>

RegistryNext ==
  \/ Next /\ (Enters \/ Leaves \/ Stays)
  \/ Consult

RegistrySpec == RegistryInit /\ [][RegistryNext]_registryVars

-----------------------------------------------------------------------------
\* A SubId reaches the Conn it was handed out for while that is registered and
\* nothing afterwards: one that a write_task, the flush list of a publisher or
\* a Vec of conn_map still holds never reaches the connection that has the
\* slot now.
SubIdsResolve ==
  \A s \in DOMAIN key :
    Lookup(key[s]) = IF s \in DOMAIN conn_arena THEN s ELSE Nothing
=============================================================================
