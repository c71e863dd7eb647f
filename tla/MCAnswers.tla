----------------------------- MODULE MCAnswers -----------------------------
(* The calls of Commands that MCCommands leaves out, with what was answered. *)
EXTENDS MCCommands

VARIABLE answers  \* of such calls: which command, and whether as documented

Answered(command, documented) == answers' = answers \cup {<<command, reply' = documented>>}

AnswersInit == Init /\ answers = {}
AnswersNext ==
  \/ Calls /\ UNCHANGED answers
  \/ \E k \in Keys, t \in SecArgs :
       /\ ~ExpireAgrees(k) /\ Expire(k, t) /\ ~panicked'
       /\ ParseNat(t) # {} /\ Answered("EXPIRE", Integer(1))
  \/ \E k \in Keys :
       ~PersistAgrees(k) /\ Persist(k) /\ Answered("PERSIST", Integer(0))
  \/ \E k \in HKeys, f \in Members, t \in IntArgs :
       ~HIncrByAgrees(k, f, t) /\ HIncrBy(k, f, t) /\ Answered("HINCRBY", NotInt)
AnswersSpec == AnswersInit /\ [][AnswersNext]_<<vars, answers>>

\* A client that has used EXPIRE on a key with a TTL, PERSIST on a key that has
\* expired and HINCRBY on a field that is no number has been answered as the
\* repository says: EXPIRE is `true` "if the key exists and the TTL was set",
\* PERSIST "if the key exists and had a TTL" (lib.rs), and the server "returns
\* "ERR hash value is not an integer or out of range"" (tests/hash.rs).  Only
\* a client that has used all three is looked at, so that a counterexample
\* shows each of the answers.
DocumentedAnswers ==
  {a[1] : a \in answers} = {"EXPIRE", "PERSIST", "HINCRBY"} => \A a \in answers : a[2]

AnswersView == <<StoreView, answers>>
=============================================================================
