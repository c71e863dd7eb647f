----------------------------- MODULE OxidArtAsync -----------------------------
(***************************************************************************)
(* oxidart/src/async_command.rs: KEYS and UNLINK walk the tree in chunks   *)
(* of Budget nodes and give the thread away between two chunks.  What they *)
(* carry across the yield is a stack of slot indices, so every operation   *)
(* of OxidArt, and other walks, may run in between.                        *)
(*                                                                         *)
(* A step is what a walk does between two awaits.                          *)
(***************************************************************************)
EXTENDS OxidArt

CONSTANTS
  Workers,  \* the connections that run KEYS and UNLINK
  Budget    \* YIELD_BUDGET, the nodes of one chunk

ASSUME AsyncAssumption == Budget \in Nat \ {0}

VARIABLE jobs   \* the walk each connection awaits

asyncVars == <<vars, jobs>>

KeysUnder(E, p) == {k \in DOMAIN E : IsPrefix(p, k)}

Idle == [cmd |-> "idle"]

\* always and ever (not in the code): the keys below the prefix that were
\* there all the time, and at some time, since the walk began.
KeysJob(p, stack, found, always, ever) ==
  [cmd |-> "keys", prefix |-> p, stack |-> stack, found |-> found,
   always |-> always, ever |-> ever]

\* due (not in the code): the entries below the prefix when it was cut off.
UnlinkJob(p, stack, parent, total, due) ==
  [cmd |-> "unlink", prefix |-> p, stack |-> stack, parent |-> parent,
   total |-> total, due |-> due]

AsyncInit == Init /\ jobs = [w \in Workers |-> Idle]

\* The walks J once they see what is live in the tree left by another task.
Observed(J, live) ==
  [w \in Workers |->
     IF J[w].cmd # "keys" THEN J[w]
     ELSE [J[w] EXCEPT !.always = @ \cap KeysUnder(live, J[w].prefix),
                       !.ever = @ \cup KeysUnder(live, J[w].prefix)]]

-----------------------------------------------------------------------------
(* Chunks.  The order in which a node's children are pushed is that of its *)
(* child arrays: any order here.                                           *)

\* The height of a stack of slots once the unoccupied ones on top are popped.
Alive(T, slots) == Max({0} \cup {n \in DOMAIN slots : slots[n] \in DOMAIN T})

\* The slots on a stack of slots with the path to each.
SlotsOf(stack) == [n \in DOMAIN stack |-> stack[n][1]]

\* Seeded bugs: the children are not pushed, or the value is not looked at.
CollectNoChildren(T, stack, found) ==
  LET s == SubSeq(stack, 1, Alive(T, SlotsOf(stack)))
  IN  IF s = <<>> THEN {<<(<<>>), found>>}
      ELSE {<<Front(s), found \cup {Last(s)[2] \o T[Last(s)[1]].compression}>>}
CollectEmptyNodes(T, stack, found) ==
  LET s == SubSeq(stack, 1, Alive(T, SlotsOf(stack)))
      i == Last(s)[1]
      full_key == Last(s)[2] \o T[i].compression
  IN  IF s = <<>> THEN {<<(<<>>), found>>}
      ELSE {<<Front(s) \o order, found \cup {full_key}>> :
              order \in SetToSeqs({<<k[2], full_key \o <<k[1]>> >> : k \in Kids(T[i])})}

\* One round of collect_keys_chunk: the pairs of a stack and the keys found.
CollectOne(T, stack, found) ==
  LET s == SubSeq(stack, 1, Alive(T, SlotsOf(stack)))
      i == Last(s)[1]
      full_key == Last(s)[2] \o T[i].compression
      child_keys == {<<k[2], full_key \o <<k[1]>> >> : k \in Kids(T[i])}
  IN  IF s = <<>> THEN {<<(<<>>), found>>}
      ELSE {<<Front(s) \o order,
              IF GetValue(T[i]) # Nil THEN found \cup {full_key} ELSE found>> :
              order \in SetToSeqs(child_keys)}

CollectKeysChunk(T, stack, found) ==
  LET round[n \in 0 .. Budget] ==
        IF n = 0 THEN {<<stack, found>>}
        ELSE UNION {CollectOne(T, x[1], x[2]) : x \in round[n - 1]}
  IN  round[Budget]

\* Seeded bugs: the children are not freed, or every node is counted.
FreeNoChildren(T, stack, count) ==
  LET s == SubSeq(stack, 1, Alive(T, stack))
  IN  IF s = <<>> THEN {<<T, <<>>, count>>}
      ELSE {<<Without(T, {Last(s)}), Front(s), count + 1>>}
FreeCountsNodes(T, stack, count) ==
  LET s == SubSeq(stack, 1, Alive(T, stack))
  IN  IF s = <<>> THEN {<<T, <<>>, count>>}
      ELSE {<<Without(T, {Last(s)}), Front(s) \o order, count + 1>> :
              order \in SetToSeqs(ChildIdxs(T[Last(s)]))}

\* One round of free_chunk: a tree, a stack and the values freed so far.
FreeOne(T, stack, count) ==
  LET s == SubSeq(stack, 1, Alive(T, stack))
      i == Last(s)
  IN  IF s = <<>> THEN {<<T, <<>>, count>>}
      ELSE {<<Without(T, {i}), Front(s) \o order,
              IF HasVal(T[i]) THEN count + 1 ELSE count>> :
              order \in SetToSeqs(ChildIdxs(T[i]))}

FreeChunk(T, stack, count) ==
  LET round[n \in 0 .. Budget] ==
        IF n = 0 THEN {<<T, stack, count>>}
        ELSE UNION {FreeOne(x[1], x[2], x[3]) : x \in round[n - 1]}
  IN  round[Budget]

-----------------------------------------------------------------------------
(* getn_async.                                                             *)

\* The walk goes on with x = <<stack, found>>, or answers.
KeysContinue(w, job, x) ==
  IF x[1] = <<>>
  THEN /\ Reply("keys", job.prefix, <<"Keys", x[2]>>)
       /\ jobs' = [jobs EXCEPT ![w] = Idle]
  ELSE /\ jobs' = [jobs EXCEPT ![w] = [job EXCEPT !.stack = x[1], !.found = x[2]]]
       /\ UNCHANGED <<call, ret>>

\* find_prefix_node, init_keys_stack and the first chunk.
KeysStart(w, p) ==
  /\ Does("keys")
  /\ jobs[w] = Idle
  /\ LET t == Cover(nodes, p)
         path == IF p = <<>> THEN <<>> ELSE CoverPath(nodes, p)
         there == KeysUnder(LiveEntries(nodes), p)
         first == IF GetValue(nodes[t]) # Nil THEN {path} ELSE {}
         childs == {<<k[2], path \o <<k[1]>> >> : k \in Kids(nodes[t])}
         job == KeysJob(p, <<>>, {}, there, there)
     IN  IF t = Nil
         THEN KeysContinue(w, job, <<(<<>>), {}>>)
         ELSE \E stack \in SetToSeqs(childs) :
              \E x \in CollectKeysChunk(nodes, stack, first) : KeysContinue(w, job, x)
  /\ UNCHANGED <<nodes, tagged, now, panicked>>

\* Seeded bug: yield_now does not wake its task.
KeysStepNotWoken(w) ==
  /\ jobs[w].cmd = "keys" /\ jobs[w].stack = <<>>
  /\ UNCHANGED asyncVars

KeysStep(w) ==
  /\ ~panicked
  /\ jobs[w].cmd = "keys"
  /\ \E x \in CollectKeysChunk(nodes, jobs[w].stack, jobs[w].found) :
       KeysContinue(w, jobs[w], x)
  /\ UNCHANGED <<nodes, tagged, now, panicked>>

-----------------------------------------------------------------------------
(* deln_async.                                                             *)

\* The walk goes on with x = <<tree, stack, total>>, or recompresses the
\* parent the subtree hung from and answers.
UnlinkContinue(w, job, x) ==
  /\ \E T \in {IF x[2] = <<>> /\ job.parent # Root THEN Recompress(x[1], job.parent)
                                                   ELSE x[1]} :
       /\ Update(T)
       /\ \E live \in {LiveEntries(T)} :
            jobs' = [Observed(jobs, live) EXCEPT ![w] =
                       IF x[2] = <<>> THEN Idle
                       ELSE [job EXCEPT !.stack = x[2], !.total = x[3]]]
       /\ IF x[2] = <<>> THEN Reply("unlink", job.prefix, <<"Count", x[3]>>)
                         ELSE UNCHANGED <<call, ret>>
  /\ UNCHANGED <<now, panicked>>

\* find_and_cut_prefix: the tree without the links to what is below p, the
\* stack of the slots cut off, what is counted already, and the parent.
\* Without a prefix the root's value is counted and stays.
FindAndCut(T, p) ==
  IF p = <<>>
  THEN {<<[T EXCEPT ![Root].childs = <<>>], stack,
          IF GetValue(T[Root]) # Nil THEN 1 ELSE 0, Root>> :
          stack \in SetToSeqs(ChildIdxs(T[Root]))}
  ELSE {IF t = Nil THEN <<T, <<>>, 0, Root>>
        ELSE LET k == Walk(T, p)
             IN  <<RemoveChild(T, k[1], p[k[2] + 1]), <<t>>, 0, k[1]>> :
          t \in {Cover(T, p)}}

\* find_and_cut_prefix and the first chunk.
UnlinkStart(w, p) ==
  /\ Does("unlink")
  /\ jobs[w] = Idle
  /\ \E cut \in FindAndCut(nodes, p), due \in {Cardinality(KeysUnder(Entries(nodes), p))} :
     \E x \in FreeChunk(cut[1], cut[2], cut[3]) :
       UnlinkContinue(w, UnlinkJob(p, <<>>, cut[4], 0, due), x)

\* Seeded bug: every chunk looks for the prefix again.
UnlinkStepRecuts(w) ==
  LET p == jobs[w].prefix
      k == Walk(nodes, p)
  IN  /\ ~panicked
      /\ jobs[w].cmd = "unlink" /\ p # <<>> /\ Cover(nodes, p) # Nil
      /\ \E x \in FreeChunk(RemoveChild(nodes, k[1], p[k[2] + 1]),
                            Append(jobs[w].stack, Cover(nodes, p)), jobs[w].total) :
           UnlinkContinue(w, jobs[w], x)

UnlinkStep(w) ==
  /\ ~panicked
  /\ jobs[w].cmd = "unlink"
  /\ \E x \in FreeChunk(nodes, jobs[w].stack, jobs[w].total) :
       UnlinkContinue(w, jobs[w], x)

-----------------------------------------------------------------------------
\* The calls of other connections, and the evictor.
Others ==
  /\ Next
  /\ \E T \in {nodes'} : \E live \in {LiveEntries(T)} : jobs' = Observed(jobs, live)

AsyncNext ==
  \/ Others
  \/ \E w \in Workers, p \in PrefixArgs : KeysStart(w, p) \/ UnlinkStart(w, p)
  \/ \E w \in Workers : KeysStep(w) \/ UnlinkStep(w)

AsyncSpec == AsyncInit /\ [][AsyncNext]_asyncVars

\* yield_now wakes its own task: a walk is always polled again.
Fairness == \A w \in Workers : WF_asyncVars(KeysStep(w))

-----------------------------------------------------------------------------
Severed == UNION {Range(jobs[w].stack) : w \in {x \in Workers : jobs[x].cmd = "unlink"}}

\* What UNLINK has cut off and not freed yet stays apart from the tree the
\* others read and write, and with it makes up all that is allocated: no
\* interleaving of walks and writes leaks a node or shares one.
SeveredApart ==
  /\ Subtree(nodes, {Root}) \cap Subtree(nodes, Severed) = {}
  /\ Subtree(nodes, {Root}) \cup Subtree(nodes, Severed) = DOMAIN nodes
  /\ \A i \in DOMAIN nodes : ChildIdxs(nodes[i]) \subseteq DOMAIN nodes
  /\ \A v, w \in Workers :
       v # w /\ jobs[v].cmd = "unlink" /\ jobs[w].cmd = "unlink" =>
         Subtree(nodes, Range(jobs[v].stack)) \cap Subtree(nodes, Range(jobs[w].stack)) = {}

\* Once the prefix is cut off, the later chunks of UNLINK change no entry,
\* whatever was written between them ("Deletes all keys whose key starts
\* with prefix", doc of deln_async).
ChunksSpareEntries ==
  [][\A w \in Workers : UnlinkStep(w) =>
       \E T \in {nodes'} : Entries(T) = Entries(nodes)]_asyncVars

\* The first chunk already hides every key below the prefix.
UnlinkHidesPrefix ==
  [][\A w \in Workers, p \in PrefixArgs : UnlinkStart(w, p) =>
       \E T \in {nodes'} :
         Entries(T) = Restrict(Entries(nodes),
                               DOMAIN Entries(nodes) \ KeysUnder(Entries(nodes), p))]_asyncVars

\* UNLINK answers how many entries it took, none of them added or removed by
\* the writes between its chunks.
UnlinkCounts ==
  [][\A w \in Workers :
       /\ UnlinkStep(w) /\ jobs'[w] = Idle => ret' = <<"Count", jobs[w].due>>
       /\ \A p \in PrefixArgs :
            UnlinkStart(w, p) /\ jobs'[w] = Idle =>
              ret' = <<"Count", Cardinality(KeysUnder(Entries(nodes), p))>>]_asyncVars

\* KEYS answers every key that was there all the time.
KeysComplete ==
  [][\A w \in Workers :
       KeysStep(w) /\ jobs'[w] = Idle => jobs[w].always \subseteq ret'[2]]_asyncVars

\* KEYS answers no key that was never there.
KeysSound ==
  [][\A w \in Workers :
       KeysStep(w) /\ jobs'[w] = Idle => ret'[2] \subseteq jobs[w].ever]_asyncVars

\* No write between the chunks keeps a KEYS going for ever.
WalksEnd == \A w \in Workers : jobs[w].cmd = "keys" ~> jobs[w].cmd = "idle"
=============================================================================
