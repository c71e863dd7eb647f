--------------------------- MODULE MCOxidArtAsync ---------------------------
(* Small instances of OxidArtAsync for TLC. *)
EXTENDS OxidArtAsync

CONSTANTS
  ra, rb, rc,  \* the bytes keys are made of
  Scanners     \* the connections that run KEYS

KeysFork  == {<<ra, ra>>, <<ra, rb>>, <<rb>>}
KeysFlat  == {<<ra>>, <<rb>>, <<rc>>}

PrefixAll  == {<<>>}
PrefixDeep == {<<>>, <<ra>>, <<ra, ra>>}

Walking   == {"set", "del", "keys", "unlink"}
Expiring  == {"set", "tick", "evict", "unlink"}

Least   == -1
NoSteps == {}

Lowest(S) == {x \in S : \A y \in S : x <= y}

\* Nothing is removed while a KEYS walks (a merge moves what it has not met
\* yet); UNLINKs overlap one another, DELs and SETs, and KEYS overlaps SETs.
NoneDoes(cmd) == \A w \in Workers : jobs[w].cmd # cmd

WalksNext ==
  \/ Others /\ (call'[1] # "set" => NoneDoes("keys"))
  \/ \E w \in Scanners, p \in PrefixArgs : KeysStart(w, p) /\ NoneDoes("unlink")
  \/ \E w \in Workers, p \in PrefixArgs : UnlinkStart(w, p) /\ NoneDoes("keys")
  \/ \E w \in Scanners : KeysStep(w)
  \/ \E w \in Workers : UnlinkStep(w)

WalksSpec == AsyncInit /\ [][WalksNext]_asyncVars /\ Fairness

\* No action reads the last call or its reply.
AsyncView == <<nodes = [i \in DOMAIN nodes |-> nodes[i]], nodes, tagged, now,
               panicked, jobs>>

\* Without an evictor nothing reads where a node believes it hangs.
LinksView == <<nodes = [i \in DOMAIN nodes |-> nodes[i]],
               [i \in DOMAIN nodes |-> <<nodes[i].compression, nodes[i].childs,
                                         nodes[i].overflow, nodes[i].val>>],
               panicked, jobs>>
=============================================================================
