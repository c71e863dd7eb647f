---------------------------- MODULE MCConnection ----------------------------
(* A small instance of Connection for TLC. *)
EXTENDS Connection

CONSTANTS c1, c2, k1, v1, v2

MCAddr == 1 .. 11

\* One client writes, the other reads what is written while it reads.
MCScripts ==
  [c \in Clients |->
     IF c = c1 THEN {<<<<"set", k1, v1>>, <<"set", k1, v2>>, <<"del", k1>>>>,
                     <<<<"ping">>, Malformed, <<"set", k1, v1>>>>}
     ELSE {<<<<"get", k1>>, <<"mget", k1, k1>>, <<"quit">>>>,
           <<<<"echo", v1>>, <<"nope">>, Nested>>}]
=============================================================================
