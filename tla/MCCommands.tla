----------------------------- MODULE MCCommands -----------------------------
(* A small instance of Commands for TLC. *)
EXTENDS Commands

CONSTANTS k1, k2

Num(n)  == <<"num", n>>
Text(w) == <<"word", w>>

Least == -2

MCKeyArgs  == {<<k1, k1>>, <<k1, k2>>}
MCTexts    == {Num(0), Text("w")}
MCIntArgs  == {Num(1), Text("w")}
MCPopArgs  == {Num(0), Num(1), Num(2)}

\* A time that ends the process, and one that reaches NoExpiracy.
MCSecArgs   == {Num(0), Num(10), Text("w")}
MCMilliArgs == {Num(999), Num(9000), Num(-1)}

\* Options in either order, repeated, unknown, and without their argument.
MCOptArgs ==
  {<<>>, <<Text("NX")>>, <<Text("EX"), Num(0), Text("XX")>>,
   <<Text("PX"), Num(999), Text("NX")>>, <<Text("EX")>>, <<Text("KEEP"), Text("PX"), Text("NX")>>}

MCPairArgs == 
  {<<<<1, Num(0)>>>>, <<<<2, Num(0)>>, <<2, Text("w")>>>>, <<<<2, Num(0)>>, <<3, Num(0)>>>>}

MCMemberArgs == {<<1>>, <<2, 2>>, <<3, 1>>}

MCScoreArgs ==
  {<<<<Num(0), 1>>>>, <<<<Num(0), 2>>, <<Num(1), 3>>>>, <<<<Num(1), 2>>, <<Text("w"), 3>>>>}

MCRangeArgs ==
  {<<Num(0), Num(-1)>>, <<Num(1), Num(1)>>, <<Num(-2), Num(-2)>>, <<Text("w"), Num(0)>>}

MCScores == 0 .. 1

\* Clients use EXPIRE, PERSIST and HINCRBY only where the answer is as
\* documented; MCAnswers has the other calls.
MCNext ==
  \/ Calls
  \/ \E k \in Keys, t \in SecArgs : ExpireAgrees(k) /\ Expire(k, t)
  \/ \E k \in Keys, t \in MilliArgs : ExpireAgrees(k) /\ PExpire(k, t)
  \/ \E k \in Keys : PersistAgrees(k) /\ Persist(k)
  \/ \E k \in HKeys, f \in Members, t \in IntArgs : HIncrByAgrees(k, f, t) /\ HIncrBy(k, f, t)
MCSpec == Init /\ [][MCNext]_vars

\* No action reads the last call or its reply, and none follows a panic.
StoreView == IF panicked THEN <<>> ELSE <<art, now>>
=============================================================================
