------------------------------- MODULE KeyPool -------------------------------
(***************************************************************************)
(* What a generational arena promises: every insertion is answered with a  *)
(* key that was never handed out before, so that a key names one value     *)
(* until that value is removed and nothing ever after.                     *)
(***************************************************************************)
CONSTANTS Data, Keys

VARIABLES
  content,  \* the values in the arena: a function from their keys
  issued    \* every key ever handed out

poolVars == <<content, issued>>

Init == content = [k \in {} |-> k] /\ issued = {}

Insert(k, v) ==
  /\ k \in Keys \ issued
  /\ issued' = issued \cup {k}
  /\ content' = [x \in DOMAIN content \cup {k} |-> IF x = k THEN v ELSE content[x]]

Remove(k) ==
  /\ k \in DOMAIN content
  /\ content' = [x \in DOMAIN content \ {k} |-> content[x]]
  /\ UNCHANGED issued

Next == \E k \in Keys : Remove(k) \/ \E v \in Data : Insert(k, v)

Spec == Init /\ [][Next]_poolVars
=============================================================================
