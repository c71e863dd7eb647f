------------------------------- MODULE ChildMap -------------------------------
(***************************************************************************)
(* What a node of the tree expects of its child lists: a function from     *)
(* radixes to slots, whichever lists hold it.                              *)
(***************************************************************************)
CONSTANTS Owners, Radixes, Idxs

VARIABLES
  kids,  \* the children of every live node
  op     \* the last operation, with its arguments

None == [r \in {} |-> r]

Assign(o, f) == kids' = [x \in DOMAIN kids \cup {o} |-> IF x = o THEN f ELSE kids[x]]

Init == kids = None /\ op = <<>>

New(o)  == op' = <<"new", o>> /\ Assign(o, None)
Drop(o) == op' = <<"drop", o>> /\ kids' = [x \in DOMAIN kids \ {o} |-> kids[x]]

Push(o, r, i) ==
  /\ op' = <<"push", o, r, i>>
  /\ r \notin DOMAIN kids[o]
  /\ Assign(o, [x \in DOMAIN kids[o] \cup {r} |-> IF x = r THEN i ELSE kids[o][x]])

Remove(o, r) ==
  /\ op' = <<"remove", o, r>>
  /\ Assign(o, [x \in DOMAIN kids[o] \ {r} |-> kids[o][x]])

\* o takes over the children of c, which goes.
Absorb(o, c) ==
  /\ op' = <<"absorb", o, c>>
  /\ kids' = [x \in DOMAIN kids \ {c} |-> IF x = o THEN kids[c] ELSE kids[x]]

\* A new node c takes over the children of o; o is left with c, under r.
Split(o, c, r, i) ==
  /\ op' = <<"split", o, c, r, i>>
  /\ c \notin DOMAIN kids
  /\ kids' = [x \in DOMAIN kids \cup {c} |->
                IF x = c THEN kids[o]
                ELSE IF x = o THEN [y \in {r} |-> i] ELSE kids[x]]

Next ==
  \/ \E o \in Owners \ DOMAIN kids : New(o)
  \/ \E o \in DOMAIN kids :
       \/ Drop(o)
       \/ \E r \in Radixes : Remove(o, r) \/ \E i \in Idxs : Push(o, r, i)
       \/ \E c \in DOMAIN kids \ {o} : Absorb(o, c)
       \/ \E c \in Owners, r \in Radixes, i \in Idxs : Split(o, c, r, i)

Spec == Init /\ [][Next]_<<kids, op>>
=============================================================================
