---------------------------- MODULE PubSubProofs ----------------------------
(***************************************************************************)
(* For every number of connections, channels, messages and commands, and   *)
(* whichever writes fail: the write half of a connection has one holder at *)
(* a time, the registry stays consistent, nothing written to a buffer is   *)
(* stranded, lost or doubled, and a connection that closes leaves nothing  *)
(* behind.  First the ownership of the write halves (Inv), then, on top of *)
(* it, the registry and the buffers (RegInv).                              *)
(***************************************************************************)
EXTENDS PubSub, FiniteSetTheorems, FunctionTheorems, SequenceTheorems, TLAPS

\* A main task m at rest, awaiting a write, or gone.
MainOwn(m, A) ==
  /\ m.pc = "read" => m.conn_state \in {"Normal", "PubSub"}
  /\ m.pc \in {"normal_write", "pubsub_write", "closed"} => m.conn_state = "None"
  /\ m.pc = "panicked" => m.conn_state = "Normal"
  /\ m.pc \in {"read", "normal_write", "pubsub_write", "closed", "panicked"}
  /\ m.conn_state = "PubSub" \/ m.pc = "pubsub_write" => m.sub_id \in DOMAIN A
  /\ m.conn_state = "Normal" \/ m.pc = "normal_write" => m.sub_id \notin DOMAIN A

Holding(m) == m.conn_state = "Normal" \/ m.pc \in {"normal_write", "pubsub_write"}

\* The fields a main task and a Conn have.
IsMain(m) ==
  m = [pc |-> m.pc, conn_state |-> m.conn_state, sub_id |-> m.sub_id,
       buffer |-> m.buffer, frames |-> m.frames, flush |-> m.flush, quit |-> m.quit]
IsConn(k) ==
  k = [write |-> k.write, io_buffer |-> k.io_buffer, swap_buffer |-> k.swap_buffer,
       channel_count |-> k.channel_count, canceled |-> k.canceled]

Shape(M, A) ==
  /\ M = [c \in Clients |-> M[c]]
  /\ A = [s \in DOMAIN A |-> A[s]]
  /\ \A c \in Clients : IsMain(M[c])
  /\ \A s \in DOMAIN A : IsConn(A[s])

\* The ownership of the write halves in the main tasks M, the arena A and the
\* tasks T, when n is the next SubId.  Beyond WriteHalfOwned it says that a
\* SubId belongs to one connection and that a Conn or a task with c's write
\* half is filed under c's SubId.
Own(M, A, T, n) ==
  /\ n \in Nat \ {0}
  /\ \A c \in Clients : MainOwn(M[c], A) /\ M[c].sub_id \in 0 .. n - 1
  /\ \A c, d \in Clients : M[c].sub_id = M[d].sub_id => c = d \/ M[c].sub_id = 0
  /\ DOMAIN A \subseteq 1 .. n - 1
  /\ \A s \in DOMAIN A : A[s].write # Nil =>
       /\ A[s].write \in Clients
       /\ M[A[s].write].sub_id = s
       /\ ~Holding(M[A[s].write])
       /\ \A t \in T : t.write # A[s].write
  /\ \A t \in T :
       /\ t.write \in Clients
       /\ M[t.write].sub_id = t.sub_id
       /\ ~Holding(M[t.write])
       /\ t.sub_id \in DOMAIN A \/ M[t.write].pc = "closed"
       /\ \A u \in T : u.write = t.write => u = t
  /\ \A c \in Clients :
       \/ Holding(M[c])
       \/ M[c].pc = "closed"
       \/ \E t \in T : t.write = c
       \/ M[c].sub_id \in DOMAIN A /\ (A[M[c].sub_id].write = c \/ A[M[c].sub_id].canceled)

Inv(M, A, T, n) == Shape(M, A) /\ Own(M, A, T, n)

LEMMA NilIsNoClient == Nil \notin Clients
  BY PubSubAssumption

LEMMA InitInv == Init => Inv(main, conn_arena, tasks, next_id)
  BY NilIsNoClient DEF Init, Inv, Shape, IsMain, IsConn, Own, MainOwn, Holding

LEMMA InvImplies == Inv(main, conn_arena, tasks, next_id) => WriteHalfOwned
  BY NilIsNoClient DEF Inv, Own, WriteHalfOwned, IsHeld, MainHolds, ConnHolds, TaskHolds, Holding

-----------------------------------------------------------------------------
\* The continuations: each is given a configuration in which the main task c
\* has local state m, and leaves one in which the halves are owned again.
LEMMA CloseInv ==
  ASSUME NEW c \in Clients, NEW m, NEW ar, NEW map, NEW ts, NEW n,
         main = [d \in Clients |-> main[d]],
         Inv([main EXCEPT ![c] = m], ar, ts, n), Close(c, m, ar, map, ts)
  PROVE  Inv(main', conn_arena', tasks', n)
  <1> USE NilIsNoClient
  <1>1. PICK W : W = [main EXCEPT ![c] = m]
    OBVIOUS
  <1>2. /\ Shape(W, ar) /\ Own(W, ar, ts, n)
        /\ W[c] = m /\ \A d \in Clients : d # c => W[d] = main[d]
    BY <1>1 DEF Inv
  <1>3. PICK r : r = [m EXCEPT !.pc = "closed", !.conn_state = "None", !.buffer = <<>>,
                               !.frames = <<>>, !.flush = {}, !.quit = FALSE]
    OBVIOUS
  <1>4. r = [pc |-> "closed", conn_state |-> "None", sub_id |-> m.sub_id,
             buffer |-> <<>>, frames |-> <<>>, flush |-> {}, quit |-> FALSE]
    <2>1. IsMain(m)
      BY <1>2 DEF Shape
    <2> QED BY <1>3, <2>1 DEF IsMain
  <1>5. IsMain(r) /\ r.pc = "closed" /\ r.conn_state = "None" /\ r.sub_id = m.sub_id
    BY <1>4 DEF IsMain
  <1>6. main' = [d \in Clients |-> IF d = c THEN r ELSE W[d]]
    BY <1>2, <1>3 DEF Close
  <1>7. DOMAIN conn_arena' \subseteq DOMAIN ar
        /\ (\A s \in DOMAIN conn_arena' : conn_arena'[s] = ar[s])
        /\ (\A s \in DOMAIN ar : s # m.sub_id => s \in DOMAIN conn_arena')
        /\ conn_arena' = [s \in DOMAIN conn_arena' |-> conn_arena'[s]]
        /\ tasks' = ts
    BY <1>2 DEF Close, Shape
  <1>8. Shape(main', conn_arena')
    BY <1>2, <1>5, <1>6, <1>7 DEF Shape
  <1>9. Own(main', conn_arena', tasks', n)
    BY <1>2, <1>5, <1>6, <1>7 DEF Own, MainOwn, Holding
  <1> QED BY <1>8, <1>9 DEF Inv

\* Buffers, frames, counts and the channels play no part in the ownership.
LEMMA SameInv ==
  ASSUME NEW M, NEW A, NEW T, NEW n, NEW M2, NEW A2,
         Inv(M, A, T, n), Shape(M2, A2), DOMAIN A2 = DOMAIN A,
         \A c \in Clients : /\ M2[c].pc = M[c].pc
                            /\ M2[c].conn_state = M[c].conn_state
                            /\ M2[c].sub_id = M[c].sub_id,
         \A s \in DOMAIN A : A2[s].write = A[s].write /\ A2[s].canceled = A[s].canceled
  PROVE  Inv(M2, A2, T, n)
  <1>1. Own(M2, A2, T, n)
    BY DEF Inv, Own, MainOwn, Holding
  <1> QED BY <1>1 DEF Inv

\* One main task in place of another.
LEMMA WithMain ==
  ASSUME NEW c \in Clients, NEW m, main = [d \in Clients |-> main[d]]
  PROVE  /\ [main EXCEPT ![c] = m] = [d \in Clients |-> IF d = c THEN m ELSE main[d]]
         /\ [main EXCEPT ![c] = m][c] = m
         /\ \A d \in Clients : d # c => [main EXCEPT ![c] = m][d] = main[d]
  OBVIOUS

\* What the operations on a Conn leave of its fields.
LEMMA TakenConn ==
  ASSUME NEW k, IsConn(k)
  PROVE  IsConn(Taken(k)) /\ Taken(k).write = Nil /\ Taken(k).canceled = k.canceled
  <1>1. PICK r : r = [k EXCEPT !.write = Nil, !.io_buffer = k.swap_buffer,
                               !.swap_buffer = Nil]
    OBVIOUS
  <1>2. r = [write |-> Nil, io_buffer |-> k.swap_buffer, swap_buffer |-> Nil,
             channel_count |-> k.channel_count, canceled |-> k.canceled]
    BY <1>1 DEF IsConn
  <1>3. Taken(k) = r
    BY <1>1 DEF Taken
  <1> QED BY <1>2, <1>3 DEF IsConn

LEMMA RestitutedConn ==
  ASSUME NEW k, IsConn(k), NEW c
  PROVE  /\ IsConn(Restituted(k, c)) /\ Restituted(k, c).write = c
         /\ Restituted(k, c).canceled = k.canceled
  <1>1. PICK r : r = [k EXCEPT !.write = c, !.swap_buffer = <<>>]
    OBVIOUS
  <1>2. r = [write |-> c, io_buffer |-> k.io_buffer, swap_buffer |-> <<>>,
             channel_count |-> k.channel_count, canceled |-> k.canceled]
    BY <1>1 DEF IsConn
  <1>3. Restituted(k, c) = r
    BY <1>1 DEF Restituted
  <1> QED BY <1>2, <1>3 DEF IsConn

LEMMA BufferedConn ==
  ASSUME NEW k, IsConn(k), NEW b
  PROVE  /\ IsConn([k EXCEPT !.io_buffer = b])
         /\ [k EXCEPT !.io_buffer = b].write = k.write
         /\ [k EXCEPT !.io_buffer = b].canceled = k.canceled
  BY DEF IsConn

LEMMA CountedConn ==
  ASSUME NEW k, IsConn(k), NEW b
  PROVE  /\ IsConn([k EXCEPT !.channel_count = b])
         /\ [k EXCEPT !.channel_count = b].write = k.write
         /\ [k EXCEPT !.channel_count = b].canceled = k.canceled
  BY DEF IsConn

LEMMA CanceledConn ==
  ASSUME NEW k, IsConn(k), NEW b
  PROVE  /\ IsConn([k EXCEPT !.canceled = b])
         /\ [k EXCEPT !.canceled = b].write = k.write
         /\ [k EXCEPT !.canceled = b].canceled = b
  BY DEF IsConn

LEMMA ReturnInv ==
  ASSUME NEW c \in Clients, NEW m, NEW ar, NEW map, NEW ts, NEW n,
         main = [d \in Clients |-> main[d]], m.pc = "read",
         Inv([main EXCEPT ![c] = m], ar, ts, n), Return(c, m, ar, map, ts)
  PROVE  Inv(main', conn_arena', tasks', n)
  <1>1. CASE m.quit
    BY <1>1, CloseInv DEF Return
  <1>2. CASE ~m.quit
    <2>1. IsMain(m)
      BY WithMain DEF Inv, Shape
    <2>2. [m EXCEPT !.pc = "read"] = m
      BY <2>1 DEF IsMain
    <2> QED BY <1>2, <2>2 DEF Return
  <1> QED BY <1>1, <1>2

LEMMA SendInv ==
  ASSUME NEW c \in Clients, NEW m, NEW ar, NEW map, NEW ts, NEW n,
         main = [d \in Clients |-> main[d]], m.pc = "read",
         Inv([main EXCEPT ![c] = m], ar, ts, n), Send(c, m, ar, map, ts)
  PROVE  Inv(main', conn_arena', tasks', n)
  <1> USE NilIsNoClient
  <1>1. PICK W : W = [main EXCEPT ![c] = m]
    OBVIOUS
  <1>2. /\ Shape(W, ar) /\ Own(W, ar, ts, n)
        /\ W[c] = m /\ \A d \in Clients : d # c => W[d] = main[d]
    BY <1>1, WithMain DEF Inv
  <1>3. IsMain(m)
    BY <1>2 DEF Shape
  <1>4. CASE SendNormal(c, m, ar, map, ts)
    <2>1. PICK r : r = [m EXCEPT !.pc = "normal_write", !.conn_state = "None",
                                 !.buffer = Append(@, Head(m.frames)), !.frames = Tail(@)]
      OBVIOUS
    <2>2. /\ IsMain(r) /\ r.pc = "normal_write" /\ r.conn_state = "None"
          /\ r.sub_id = m.sub_id
      BY <1>3, <2>1 DEF IsMain
    <2>3. main' = [d \in Clients |-> IF d = c THEN r ELSE W[d]]
      BY <1>2, <1>4, <2>1 DEF SendNormal
    <2>4. conn_arena' = ar /\ tasks' = ts /\ m.conn_state = "Normal"
      BY <1>4 DEF SendNormal
    <2>5. Shape(main', conn_arena')
      BY <1>2, <2>2, <2>3, <2>4 DEF Shape
    <2>6. Own(main', conn_arena', tasks', n)
      BY <1>2, <2>2, <2>3, <2>4 DEF Own, MainOwn, Holding
    <2> QED BY <2>5, <2>6 DEF Inv
  <1>5. CASE SendPubSub(c, m, ar, map, ts)
    <2>1. PICK r : r = [m EXCEPT !.pc = "pubsub_write", !.conn_state = "None",
                                 !.buffer = Append(ar[m.sub_id].io_buffer, Head(m.frames)),
                                 !.frames = Tail(@)]
      OBVIOUS
    <2>2. /\ IsMain(r) /\ r.pc = "pubsub_write" /\ r.conn_state = "None"
          /\ r.sub_id = m.sub_id
      BY <1>3, <2>1 DEF IsMain
    <2>3. main' = [d \in Clients |-> IF d = c THEN r ELSE W[d]]
      BY <1>2, <1>5, <2>1 DEF SendPubSub
    <2>4. /\ conn_arena' = [ar EXCEPT ![m.sub_id] = Taken(ar[m.sub_id])] /\ tasks' = ts
          /\ m.conn_state = "PubSub" /\ ar[m.sub_id].write # Nil
      BY <1>5 DEF SendPubSub, Writable
    <2>5. m.sub_id \in DOMAIN ar /\ m.sub_id # 0
      BY <1>2, <2>4 DEF Own, MainOwn
    <2>6. /\ IsConn(Taken(ar[m.sub_id])) /\ Taken(ar[m.sub_id]).write = Nil
          /\ Taken(ar[m.sub_id]).canceled = ar[m.sub_id].canceled
      BY <1>2, <2>5, TakenConn DEF Shape
    <2>7. /\ DOMAIN conn_arena' = DOMAIN ar
          /\ conn_arena'[m.sub_id] = Taken(ar[m.sub_id])
          /\ \A s \in DOMAIN ar : s # m.sub_id => conn_arena'[s] = ar[s]
          /\ conn_arena' = [s \in DOMAIN conn_arena' |-> conn_arena'[s]]
      BY <2>4, <2>5
    <2>8. Shape(main', conn_arena')
      BY <1>2, <2>2, <2>3, <2>6, <2>7 DEF Shape
    <2>9. ar[m.sub_id].write = c
      BY <1>2, <2>4, <2>5 DEF Own
    <2>10. Own(main', conn_arena', tasks', n)
      BY <1>2, <2>2, <2>3, <2>4, <2>5, <2>6, <2>7, <2>9, SMTT(30) DEF Own, MainOwn, Holding
    <2> QED BY <2>8, <2>10 DEF Inv
  <1>6. CASE SendQueued(c, m, ar, map, ts)
    <2>1. PICK r, ar2 : /\ r = [m EXCEPT !.frames = <<>>]
                        /\ ar2 = [ar EXCEPT ![m.sub_id].io_buffer = @ \o m.frames]
      OBVIOUS
    <2>2. IsMain(r) /\ r.pc = m.pc /\ r.conn_state = m.conn_state /\ r.sub_id = m.sub_id
      BY <1>3, <2>1 DEF IsMain
    <2>3. m.sub_id \in DOMAIN ar
      BY <1>2, <1>6 DEF Own, MainOwn, SendQueued
    <2>4. PICK k : k = [ar[m.sub_id] EXCEPT !.io_buffer = ar[m.sub_id].io_buffer \o m.frames]
      OBVIOUS
    <2>5. /\ IsConn(k) /\ k.write = ar[m.sub_id].write
          /\ k.canceled = ar[m.sub_id].canceled
      BY <1>2, <2>3, <2>4, BufferedConn DEF Shape
    <2>6. /\ DOMAIN ar2 = DOMAIN ar /\ ar2[m.sub_id] = k
          /\ \A s \in DOMAIN ar : s # m.sub_id => ar2[s] = ar[s]
          /\ ar2 = [s \in DOMAIN ar2 |-> ar2[s]]
      BY <2>1, <2>3, <2>4
    <2>7. PICK W2 : W2 = [main EXCEPT ![c] = r]
      OBVIOUS
    <2>8. W2 = [d \in Clients |-> IF d = c THEN r ELSE W[d]]
      BY <1>2, <2>7, WithMain
    <2>9. Shape(W2, ar2)
      BY <1>2, <2>2, <2>5, <2>6, <2>8 DEF Shape
    <2>10. Inv(W, ar, ts, n)
      BY <1>2 DEF Inv
    <2>11. Inv(W2, ar2, ts, n)
      BY <1>2, <2>2, <2>5, <2>6, <2>8, <2>9, <2>10, SameInv
    <2>12. Return(c, r, ar2, map, ts)
      BY <1>6, <2>1 DEF SendQueued
    <2> QED BY <2>2, <2>7, <2>11, <2>12, ReturnInv
  <1> QED BY <1>4, <1>5, <1>6 DEF Send

\* What FlushAndReturn of c makes of the main tasks, the arena and the tasks.
Triggered(c, W, ar, ts, ready, r, W2, ar2, ts2) ==
  /\ ready = {s \in W[c].flush \cap DOMAIN ar : Writable(ar[s])}
  /\ r = [W[c] EXCEPT !.flush = {}]
  /\ W2 = [d \in Clients |-> IF d = c THEN r ELSE W[d]]
  /\ ar2 = [s \in DOMAIN ar |-> IF s \in ready THEN Taken(ar[s]) ELSE ar[s]]
  /\ ts2 = ts \cup {WriteTask(s, ar[s].write, "spawned", ar[s].io_buffer) : s \in ready}

\* The write halves of the Conns in ready go to new tasks.
LEMMA TriggeredInv ==
  ASSUME NEW c \in Clients, NEW W, NEW ar, NEW ts, NEW n, NEW ready, NEW r, NEW W2,
         NEW ar2, NEW ts2,
         W[c].pc = "read", Inv(W, ar, ts, n),
         Triggered(c, W, ar, ts, ready, r, W2, ar2, ts2)
  PROVE  Inv(W2, ar2, ts2, n) /\ r.pc = "read"
  <1> USE NilIsNoClient
  <1>1. PICK m : m = W[c]
    OBVIOUS
  <1>2. Shape(W, ar) /\ Own(W, ar, ts, n) /\ W[c] = m
    BY <1>1 DEF Inv
  <1>3. ready = {s \in m.flush \cap DOMAIN ar : Writable(ar[s])}
    BY <1>1 DEF Triggered
  <1>4. PICK new : /\ r = [m EXCEPT !.flush = {}]
                   /\ ar2 = [s \in DOMAIN ar |-> IF s \in ready THEN Taken(ar[s]) ELSE ar[s]]
                   /\ new = {WriteTask(s, ar[s].write, "spawned", ar[s].io_buffer) : s \in ready}
    BY <1>1 DEF Triggered
  <1>5. ts2 = ts \cup new
    BY <1>4 DEF Triggered
  <1>6. IsMain(r) /\ r.pc = m.pc /\ r.conn_state = m.conn_state /\ r.sub_id = m.sub_id
    <2>1. IsMain(m)
      BY <1>2 DEF Shape
    <2> QED BY <1>4, <2>1 DEF IsMain
  <1>8. W2 = [d \in Clients |-> IF d = c THEN r ELSE W[d]]
    BY DEF Triggered
  <1>9. ready \subseteq DOMAIN ar /\ \A s \in ready : ar[s].write # Nil
    BY <1>3 DEF Writable
  <1>10. /\ DOMAIN ar2 = DOMAIN ar
         /\ \A s \in DOMAIN ar : /\ IsConn(ar2[s]) /\ ar2[s].canceled = ar[s].canceled
                                 /\ s \in ready => ar2[s].write = Nil
                                 /\ s \notin ready => ar2[s].write = ar[s].write
    BY <1>2, <1>4, TakenConn DEF Shape
  <1>11. /\ \A u \in new : u.sub_id \in ready /\ u.write = ar[u.sub_id].write
         /\ \A u, v \in new : u.sub_id = v.sub_id => u = v
         /\ \A s \in ready : \E u \in new : u.sub_id = s
    <2>1. \A s : /\ WriteTask(s, ar[s].write, "spawned", ar[s].io_buffer).sub_id = s
                 /\ WriteTask(s, ar[s].write, "spawned", ar[s].io_buffer).write = ar[s].write
      BY DEF WriteTask
    <2>2. \A u \in new : /\ u.sub_id \in ready /\ u.write = ar[u.sub_id].write
                         /\ u = WriteTask(u.sub_id, ar[u.sub_id].write, "spawned",
                                          ar[u.sub_id].io_buffer)
      BY <1>4, <2>1
    <2>3. \A s \in ready : \E u \in new : u.sub_id = s
      BY <1>4, <2>1
    <2> QED BY <2>2, <2>3
  <1>12. Shape(W2, ar2)
    BY <1>2, <1>4, <1>6, <1>8, <1>10 DEF Shape
  <1>13. Inv(W2, ar, ts, n)
    <2>1. Shape(W2, ar)
      BY <1>2, <1>6, <1>8 DEF Shape
    <2> QED BY <1>2, <1>6, <1>8, <2>1, SameInv DEF Inv
  <1>14. ASSUME NEW u \in new
         PROVE  /\ u.write \in Clients /\ W2[u.write].sub_id = u.sub_id
                /\ ~Holding(W2[u.write]) /\ \A t \in ts : t.write # u.write
                /\ u.sub_id \in DOMAIN ar
    BY <1>9, <1>11, <1>13 DEF Inv, Own
  <1>15. \A u, v \in new : u.write = v.write => u = v
    BY <1>11, <1>14
  <1>16. Own(W2, ar2, ts \cup new, n)
    <2>1. ASSUME NEW s \in DOMAIN ar2, ar2[s].write # Nil
          PROVE  /\ ar2[s].write \in Clients /\ W2[ar2[s].write].sub_id = s
                 /\ ~Holding(W2[ar2[s].write])
                 /\ \A t \in ts \cup new : t.write # ar2[s].write
      <3>1. s \in DOMAIN ar /\ s \notin ready /\ ar2[s].write = ar[s].write
        BY <1>10, <2>1
      <3> QED BY <1>11, <1>13, <1>14, <2>1, <3>1 DEF Inv, Own
    <2>2. ASSUME NEW t \in ts \cup new
          PROVE  /\ t.write \in Clients /\ W2[t.write].sub_id = t.sub_id
                 /\ ~Holding(W2[t.write])
                 /\ t.sub_id \in DOMAIN ar2 \/ W2[t.write].pc = "closed"
                 /\ \A u \in ts \cup new : u.write = t.write => u = t
      BY <1>10, <1>13, <1>14, <1>15 DEF Inv, Own
    <2>3. ASSUME NEW d \in Clients
          PROVE  \/ Holding(W2[d]) \/ W2[d].pc = "closed"
                 \/ \E t \in ts \cup new : t.write = d
                 \/ /\ W2[d].sub_id \in DOMAIN ar2
                    /\ ar2[W2[d].sub_id].write = d \/ ar2[W2[d].sub_id].canceled
      BY <1>10, <1>11, <1>13 DEF Inv, Own
    <2>4. \A d \in Clients : MainOwn(W2[d], ar2) /\ W2[d].sub_id \in 0 .. n - 1
      BY <1>10, <1>13 DEF Inv, Own, MainOwn
    <2> QED BY <1>10, <1>13, <2>1, <2>2, <2>3, <2>4 DEF Inv, Own
  <1> QED BY <1>1, <1>5, <1>6, <1>12, <1>16 DEF Inv

LEMMA FlushInv ==
  ASSUME NEW c \in Clients, NEW m, NEW ar, NEW map, NEW ts, NEW n,
         main = [d \in Clients |-> main[d]], m.pc = "read",
         Inv([main EXCEPT ![c] = m], ar, ts, n), FlushAndReturn(c, m, ar, map, ts)
  PROVE  Inv(main', conn_arena', tasks', n)
  <1>1. PICK W : W = [main EXCEPT ![c] = m]
    OBVIOUS
  <1>2. Inv(W, ar, ts, n) /\ W[c] = m /\ \A d \in Clients : d # c => W[d] = main[d]
    BY <1>1, WithMain
  <1>3. PICK ready, r, W2, ar2, ts2 : Triggered(c, W, ar, ts, ready, r, W2, ar2, ts2)
    BY DEF Triggered
  <1>4. Return(c, r, ar2, map, ts2)
    BY <1>2, <1>3 DEF FlushAndReturn, Triggered
  <1>5. Inv(W2, ar2, ts2, n) /\ r.pc = "read"
    BY <1>2, <1>3, TriggeredInv
  <1>6. W2 = [main EXCEPT ![c] = r]
    BY <1>2, <1>3, WithMain DEF Triggered
  <1> QED BY <1>4, <1>5, <1>6, ReturnInv

LEMMA ContinueInv ==
  ASSUME NEW c \in Clients, NEW m, NEW ar, NEW map, NEW ts, NEW n,
         main = [d \in Clients |-> main[d]], m.pc = "read",
         Inv([main EXCEPT ![c] = m], ar, ts, n), Continue(c, m, ar, map, ts)
  PROVE  Inv(main', conn_arena', tasks', n)
  BY SendInv, FlushInv DEF Continue

\* A task that has the half of a Conn gives it back, spawns its successor or
\* drops it.
LEMMA TaskEndsInv ==
  ASSUME NEW t \in tasks, NEW ar, NEW n, NEW M,
         Inv(M, ar, tasks, n), TaskEnds(t, ar, tasks \ {t})
  PROVE  Inv(M, conn_arena', tasks', n)
  <1> USE NilIsNoClient
  <1>1. /\ Shape(M, ar) /\ Own(M, ar, tasks, n)
    BY DEF Inv
  <1>2. CASE t.sub_id \in DOMAIN ar /\ ar[t.sub_id].io_buffer # <<>>
    <2>1. PICK u : u = WriteTask(t.sub_id, t.write, "spawned", <<>>)
      OBVIOUS
    <2>2. u.sub_id = t.sub_id /\ u.write = t.write
      BY <2>1 DEF WriteTask
    <2>3. tasks' = (tasks \ {t}) \cup {u} /\ conn_arena' = ar
      BY <1>2, <2>1 DEF TaskEnds
    <2>4. Own(M, conn_arena', tasks', n)
      BY <1>1, <2>2, <2>3 DEF Own
    <2> QED BY <1>1, <2>3, <2>4 DEF Inv
  <1>3. CASE t.sub_id \in DOMAIN ar /\ ar[t.sub_id].io_buffer = <<>>
    <2>1. PICK k : k = Restituted(ar[t.sub_id], t.write)
      OBVIOUS
    <2>2. IsConn(k) /\ k.write = t.write /\ k.canceled = ar[t.sub_id].canceled
      BY <1>1, <1>3, <2>1, RestitutedConn DEF Shape
    <2>3. tasks' = tasks \ {t} /\ conn_arena' = [ar EXCEPT ![t.sub_id] = k]
      BY <1>3, <2>1 DEF TaskEnds
    <2>4. /\ DOMAIN conn_arena' = DOMAIN ar /\ conn_arena'[t.sub_id] = k
          /\ \A s \in DOMAIN ar : s # t.sub_id => conn_arena'[s] = ar[s]
          /\ conn_arena' = [s \in DOMAIN conn_arena' |-> conn_arena'[s]]
      BY <1>3, <2>3
    <2>5. Shape(M, conn_arena')
      BY <1>1, <2>2, <2>4 DEF Shape
    <2>6. Own(M, conn_arena', tasks', n)
      BY <1>1, <1>3, <2>2, <2>3, <2>4 DEF Own, MainOwn
    <2> QED BY <2>5, <2>6 DEF Inv
  <1>4. CASE t.sub_id \notin DOMAIN ar
    <2>1. tasks' = tasks \ {t} /\ conn_arena' = ar
      BY <1>4 DEF TaskEnds
    <2>2. Own(M, conn_arena', tasks', n)
      BY <1>1, <1>4, <2>1 DEF Own
    <2> QED BY <1>1, <2>1, <2>2 DEF Inv
  <1> QED BY <1>2, <1>3, <1>4 DEF TaskEnds

-----------------------------------------------------------------------------
(* The actions.                                                            *)

CurrentInv == Inv(main, conn_arena, tasks, next_id)

\* A main task and an arena that differ from the present ones in fields that
\* play no part.
LEMMA TouchInv ==
  ASSUME CurrentInv, NEW c \in Clients, NEW m, NEW ar,
         IsMain(m), m.pc = main[c].pc, m.conn_state = main[c].conn_state,
         m.sub_id = main[c].sub_id,
         ar = [s \in DOMAIN conn_arena |-> ar[s]],
         \A s \in DOMAIN conn_arena :
           IsConn(ar[s]) /\ ar[s].write = conn_arena[s].write
                         /\ ar[s].canceled = conn_arena[s].canceled
  PROVE  Inv([main EXCEPT ![c] = m], ar, tasks, next_id)
  <1>1. PICK W : W = [main EXCEPT ![c] = m]
    OBVIOUS
  <1>2. main = [d \in Clients |-> main[d]]
    BY DEF CurrentInv, Inv, Shape
  <1>3. W = [d \in Clients |-> IF d = c THEN m ELSE main[d]]
    BY <1>1, <1>2, WithMain
  <1>4. DOMAIN ar = DOMAIN conn_arena
    OBVIOUS
  <1>5. Shape(W, ar)
    BY <1>3, <1>4 DEF CurrentInv, Inv, Shape
  <1>6. \A d \in Clients : /\ W[d].pc = main[d].pc
                           /\ W[d].conn_state = main[d].conn_state
                           /\ W[d].sub_id = main[d].sub_id
    BY <1>3
  <1>7. Inv(W, ar, tasks, next_id)
    BY <1>4, <1>5, <1>6, SameInv DEF CurrentInv
  <1> QED BY <1>1, <1>7

\* A command's frames are put into the local state of its main task.
LEMMA ReplyingMain ==
  ASSUME NEW c \in Clients, IsMain(main[c]), NEW n
  PROVE  /\ IsMain(Replying(c, n))
         /\ Replying(c, n).pc = main[c].pc
         /\ Replying(c, n).conn_state = main[c].conn_state
         /\ Replying(c, n).sub_id = main[c].sub_id
  <1>1. PICK m : m = main[c]
    OBVIOUS
  <1>2. PICK f : f = [i \in 1 .. n |-> Reply]
    OBVIOUS
  <1>3. PICK r : r = [m EXCEPT !.frames = f]
    OBVIOUS
  <1>4. r = [pc |-> m.pc, conn_state |-> m.conn_state, sub_id |-> m.sub_id,
             buffer |-> m.buffer, frames |-> f, flush |-> m.flush, quit |-> m.quit]
    BY <1>1, <1>3 DEF IsMain
  <1>5. Replying(c, n) = r
    BY <1>1, <1>2, <1>3 DEF Replying
  <1> QED BY <1>1, <1>4, <1>5 DEF IsMain

LEMMA PingInv ==
  ASSUME CurrentInv, NEW c \in Clients, Ping(c)
  PROVE  CurrentInv'
  <1>1. /\ main = [d \in Clients |-> main[d]] /\ IsMain(main[c])
        /\ conn_arena = [s \in DOMAIN conn_arena |-> conn_arena[s]]
        /\ \A s \in DOMAIN conn_arena : IsConn(conn_arena[s])
    BY DEF CurrentInv, Inv, Shape
  <1>2. PICK m : m = Replying(c, 1)
    OBVIOUS
  <1>3. /\ IsMain(m) /\ m.pc = main[c].pc /\ m.conn_state = main[c].conn_state
        /\ m.sub_id = main[c].sub_id
    BY <1>1, <1>2, ReplyingMain
  <1>4. Inv([main EXCEPT ![c] = m], conn_arena, tasks, next_id)
    BY <1>1, <1>3, TouchInv
  <1>5. Send(c, m, conn_arena, conn_map, tasks) /\ m.pc = "read" /\ next_id' = next_id
    BY <1>2, <1>3 DEF Ping, Reads
  <1>6. Inv(main', conn_arena', tasks', next_id)
    BY <1>1, <1>4, <1>5, SendInv
  <1> QED BY <1>5, <1>6 DEF CurrentInv

LEMMA QuitInv ==
  ASSUME CurrentInv, NEW c \in Clients, Quit(c)
  PROVE  CurrentInv'
  <1>1. /\ main = [d \in Clients |-> main[d]] /\ IsMain(main[c])
        /\ conn_arena = [s \in DOMAIN conn_arena |-> conn_arena[s]]
        /\ \A s \in DOMAIN conn_arena : IsConn(conn_arena[s])
    BY DEF CurrentInv, Inv, Shape
  <1>2. PICK r : r = Replying(c, 1)
    OBVIOUS
  <1>3. PICK m : m = [r EXCEPT !.quit = TRUE]
    OBVIOUS
  <1>4. /\ IsMain(r) /\ r.pc = main[c].pc /\ r.conn_state = main[c].conn_state
        /\ r.sub_id = main[c].sub_id
    BY <1>1, <1>2, ReplyingMain
  <1>5. IsMain(m) /\ m.pc = r.pc /\ m.conn_state = r.conn_state /\ m.sub_id = r.sub_id
    BY <1>3, <1>4 DEF IsMain
  <1>6. Inv([main EXCEPT ![c] = m], conn_arena, tasks, next_id)
    BY <1>1, <1>4, <1>5, TouchInv
  <1>7. Send(c, m, conn_arena, conn_map, tasks) /\ m.pc = "read" /\ next_id' = next_id
    BY <1>2, <1>3, <1>4, <1>5 DEF Quit, Reads
  <1>8. Inv(main', conn_arena', tasks', next_id)
    BY <1>1, <1>6, <1>7, SendInv
  <1> QED BY <1>7, <1>8 DEF CurrentInv

LEMMA PublishInv ==
  ASSUME CurrentInv, NEW c \in Clients, NEW ch \in Channels, Publish(c, ch)
  PROVE  CurrentInv'
  <1>1. /\ main = [d \in Clients |-> main[d]] /\ IsMain(main[c])
        /\ \A s \in DOMAIN conn_arena : IsConn(conn_arena[s])
    BY DEF CurrentInv, Inv, Shape
  <1>2. PICK r : r = Replying(c, 1)
    OBVIOUS
  <1>3. PICK subs : subs = DOMAIN conn_map[ch] \cap DOMAIN conn_arena
    OBVIOUS
  <1>4. PICK m : m = [r EXCEPT !.flush = subs]
    OBVIOUS
  <1>5. /\ IsMain(r) /\ r.pc = main[c].pc /\ r.conn_state = main[c].conn_state
        /\ r.sub_id = main[c].sub_id
    BY <1>1, <1>2, ReplyingMain
  <1>6. IsMain(m) /\ m.pc = r.pc /\ m.conn_state = r.conn_state /\ m.sub_id = r.sub_id
    BY <1>4, <1>5 DEF IsMain
  <1> DEFINE more(s) == [i \in 1 .. conn_map[ch][s] |-> published + 1]
             full(s) == conn_arena[s].io_buffer \o more(s)
  <1>7. PICK ar : ar = [s \in DOMAIN conn_arena |->
                          IF s \in subs THEN [conn_arena[s] EXCEPT !.io_buffer = full(s)]
                          ELSE conn_arena[s]]
    OBVIOUS
  <1>8. Send(c, m, ar, conn_map, tasks) /\ m.pc = "read" /\ next_id' = next_id
    BY <1>2, <1>3, <1>4, <1>5, <1>6, <1>7 DEF Publish, Reads
  <1> HIDE DEF full
  <1>9. \A s \in DOMAIN conn_arena :
          IsConn(ar[s]) /\ ar[s].write = conn_arena[s].write
                        /\ ar[s].canceled = conn_arena[s].canceled
    BY <1>1, <1>7, BufferedConn
  <1>10. ar = [s \in DOMAIN conn_arena |-> ar[s]]
    BY <1>7
  <1>11. Inv([main EXCEPT ![c] = m], ar, tasks, next_id)
    BY <1>5, <1>6, <1>9, <1>10, TouchInv
  <1>12. Inv(main', conn_arena', tasks', next_id)
    BY <1>1, <1>8, <1>11, SendInv
  <1> QED BY <1>8, <1>12 DEF CurrentInv

\* The configuration in which c has entered the registry as next_id.
LEMMA JoinInv ==
  ASSUME CurrentInv, NEW c \in Clients, NEW m, NEW k, NEW ar,
         main[c].pc = "read", main[c].conn_state = "Normal",
         IsMain(m), m.pc = "read", m.conn_state = "PubSub", m.sub_id = next_id,
         IsConn(k), k.write = c,
         ar = [s \in DOMAIN conn_arena \cup {next_id} |->
                 IF s = next_id THEN k ELSE conn_arena[s]]
  PROVE  Inv([main EXCEPT ![c] = m], ar, tasks, next_id + 1)
  <1> USE NilIsNoClient
  <1>1. /\ main = [d \in Clients |-> main[d]] /\ \A d \in Clients : IsMain(main[d])
        /\ \A s \in DOMAIN conn_arena : IsConn(conn_arena[s])
        /\ Own(main, conn_arena, tasks, next_id)
    BY DEF CurrentInv, Inv, Shape
  <1>2. next_id \in Nat \ {0} /\ next_id \notin DOMAIN conn_arena
        /\ \A d \in Clients : main[d].sub_id # next_id /\ main[d].sub_id \in 0 .. next_id - 1
    BY <1>1 DEF Own
  <1>3. PICK W : W = [main EXCEPT ![c] = m]
    OBVIOUS
  <1>4. W = [d \in Clients |-> IF d = c THEN m ELSE main[d]]
    BY <1>1, <1>3, WithMain
  <1>5. Shape(W, ar)
    BY <1>1, <1>4 DEF Shape
  <1>6. Holding(main[c]) /\ c # Nil
    BY DEF Holding
  <1>7. /\ \A s \in DOMAIN conn_arena : conn_arena[s].write # c
        /\ \A t \in tasks : t.write # c
    BY <1>1, <1>6 DEF Own
  <1>8. Own(W, ar, tasks, next_id + 1)
    BY <1>1, <1>2, <1>4, <1>7 DEF Own, MainOwn, Holding
  <1> QED BY <1>3, <1>5, <1>8 DEF Inv

LEMMA SubscribeFirstInv ==
  ASSUME CurrentInv, NEW c \in Clients, NEW ch \in Channels, SubscribeFirst(c, ch)
  PROVE  CurrentInv'
  <1>1. main = [d \in Clients |-> main[d]] /\ IsMain(main[c])
    BY DEF CurrentInv, Inv, Shape
  <1>2. main[c].pc = "read" /\ main[c].conn_state = "Normal" /\ next_id' = next_id + 1
    BY DEF SubscribeFirst, Reads
  <1>3. PICK r : r = Replying(c, 1)
    OBVIOUS
  <1>4. PICK m : m = [r EXCEPT !.conn_state = "PubSub", !.sub_id = next_id, !.buffer = <<>>]
    OBVIOUS
  <1>5. IsMain(r) /\ r.pc = "read"
    BY <1>1, <1>2, <1>3, ReplyingMain
  <1>6. IsMain(m) /\ m.pc = "read" /\ m.conn_state = "PubSub" /\ m.sub_id = next_id
    BY <1>4, <1>5 DEF IsMain
  <1>7. PICK k : k = NewConn(c, main[c].buffer)
    OBVIOUS
  <1>8. IsConn(k) /\ k.write = c
    BY <1>7 DEF IsConn, NewConn
  <1>9. PICK ar : ar = [s \in DOMAIN conn_arena \cup {next_id} |->
                          IF s = next_id THEN k ELSE conn_arena[s]]
    OBVIOUS
  <1>10. Send(c, m, ar, [conn_map EXCEPT ![ch] = Pushed(@, next_id)], tasks)
    BY <1>3, <1>4, <1>7, <1>9 DEF SubscribeFirst
  <1>11. Inv([main EXCEPT ![c] = m], ar, tasks, next_id + 1)
    BY <1>2, <1>6, <1>8, <1>9, JoinInv
  <1>12. Inv(main', conn_arena', tasks', next_id + 1)
    BY <1>1, <1>6, <1>10, <1>11, SendInv
  <1> QED BY <1>2, <1>12 DEF CurrentInv

LEMMA SubscribeMoreInv ==
  ASSUME CurrentInv, NEW c \in Clients, NEW ch \in Channels, SubscribeMore(c, ch)
  PROVE  CurrentInv'
  <1>1. /\ main = [d \in Clients |-> main[d]] /\ IsMain(main[c])
        /\ conn_arena = [s \in DOMAIN conn_arena |-> conn_arena[s]]
        /\ \A s \in DOMAIN conn_arena : IsConn(conn_arena[s])
    BY DEF CurrentInv, Inv, Shape
  <1>2. PICK m, s : m = Replying(c, 1) /\ s = main[c].sub_id
    OBVIOUS
  <1>3. /\ IsMain(m) /\ m.pc = main[c].pc /\ m.conn_state = main[c].conn_state
        /\ m.sub_id = main[c].sub_id
    BY <1>1, <1>2, ReplyingMain
  <1>4. PICK k : k = [conn_arena[s] EXCEPT !.channel_count = conn_arena[s].channel_count + 1]
    OBVIOUS
  <1>5. PICK ar : ar = [conn_arena EXCEPT ![s] = k]
    OBVIOUS
  <1>6. /\ Send(c, m, ar, [conn_map EXCEPT ![ch] = Pushed(@, s)], tasks)
        /\ m.pc = "read" /\ next_id' = next_id
    BY <1>2, <1>3, <1>4, <1>5 DEF SubscribeMore, Reads
  <1>7. \A x \in DOMAIN conn_arena :
          IsConn(ar[x]) /\ ar[x].write = conn_arena[x].write
                        /\ ar[x].canceled = conn_arena[x].canceled
    BY <1>1, <1>4, <1>5, CountedConn
  <1>8. ar = [x \in DOMAIN conn_arena |-> ar[x]]
    BY <1>1, <1>5
  <1>9. Inv([main EXCEPT ![c] = m], ar, tasks, next_id)
    BY <1>3, <1>7, <1>8, TouchInv
  <1>10. Inv(main', conn_arena', tasks', next_id)
    BY <1>1, <1>6, <1>9, SendInv
  <1> QED BY <1>6, <1>10 DEF CurrentInv

\* The configuration in which c has left the registry with its write half.
LEMMA LeaveInv ==
  ASSUME CurrentInv, NEW c \in Clients, NEW s, NEW m, NEW ar,
         main[c].pc = "read", main[c].conn_state = "PubSub", s = main[c].sub_id,
         conn_arena[s].write # Nil,
         IsMain(m), m.pc = "read", m.conn_state = "Normal", m.sub_id = s,
         ar = [x \in DOMAIN conn_arena \ {s} |-> conn_arena[x]]
  PROVE  /\ Inv([main EXCEPT ![c] = m], ar, tasks, next_id)
         /\ s \in DOMAIN conn_arena /\ conn_arena[s].write = c /\ \A t \in tasks : t.write # c
         /\ \A d \in Clients : d # c => main[d].sub_id # s
  <1> USE NilIsNoClient
  <1>1. /\ main = [d \in Clients |-> main[d]] /\ \A d \in Clients : IsMain(main[d])
        /\ \A x \in DOMAIN conn_arena : IsConn(conn_arena[x])
        /\ Own(main, conn_arena, tasks, next_id)
    BY DEF CurrentInv, Inv, Shape
  <1>2. s \in DOMAIN conn_arena /\ s # 0
    BY <1>1 DEF Own, MainOwn
  <1>3. PICK W : W = [main EXCEPT ![c] = m]
    OBVIOUS
  <1>4. W = [d \in Clients |-> IF d = c THEN m ELSE main[d]]
    BY <1>1, <1>3, WithMain
  <1>5. conn_arena[s].write = c /\ \A t \in tasks : t.write # c
    <2>1. /\ conn_arena[s].write \in Clients
          /\ main[conn_arena[s].write].sub_id = main[c].sub_id
          /\ \A t \in tasks : t.write # conn_arena[s].write
      BY <1>1, <1>2 DEF Own
    <2> QED BY <1>1, <1>2, <2>1 DEF Own
  <1>6. /\ DOMAIN ar = DOMAIN conn_arena \ {s}
        /\ \A x \in DOMAIN ar : ar[x] = conn_arena[x]
        /\ ar = [x \in DOMAIN ar |-> ar[x]]
    OBVIOUS
  <1>7. Shape(W, ar)
    BY <1>1, <1>4, <1>6 DEF Shape
  <1>8. \A x \in DOMAIN ar : ar[x].write # c
    BY <1>1, <1>6 DEF Own
  <1>9. \A d \in Clients : d # c => main[d].sub_id # s
    BY <1>1, <1>2 DEF Own
  <1>10. \A t \in tasks : t.sub_id # s
    BY <1>1, <1>5, <1>9 DEF Own
  <1>11. Own(W, ar, tasks, next_id)
    BY <1>1, <1>2, <1>4, <1>5, <1>6, <1>8, <1>9, <1>10, SMTT(30) DEF Own, MainOwn, Holding
  <1> QED BY <1>2, <1>3, <1>5, <1>7, <1>9, <1>11 DEF Inv

LEMMA UnsubscribeInv ==
  ASSUME CurrentInv, NEW c \in Clients, NEW channels, Unsubscribe(c, channels)
  PROVE  CurrentInv'
  <1> USE NilIsNoClient
  <1>1. /\ main = [d \in Clients |-> main[d]] /\ \A d \in Clients : IsMain(main[d])
        /\ conn_arena = [s \in DOMAIN conn_arena |-> conn_arena[s]]
        /\ \A s \in DOMAIN conn_arena : IsConn(conn_arena[s])
        /\ Own(main, conn_arena, tasks, next_id)
    BY DEF CurrentInv, Inv, Shape
  <1>2. main[c].pc = "read" /\ main[c].conn_state = "PubSub" /\ next_id' = next_id
    BY DEF Unsubscribe, Reads
  <1>3. PICK s : s = main[c].sub_id
    OBVIOUS
  <1>4. s \in DOMAIN conn_arena /\ s # 0
    BY <1>1, <1>2, <1>3 DEF Own, MainOwn
  <1>5. PICK n, remaining, map :
          \/ /\ conn_arena[s].write # Nil
             /\ LET m == [Replying(c, n) EXCEPT !.conn_state = "Normal",
                                                !.buffer = conn_arena[s].io_buffer]
                    ar == [x \in DOMAIN conn_arena \ {s} |-> conn_arena[x]]
                IN  Send(c, m, ar, map, tasks) \/ Return(c, m, ar, map, tasks)
          \/ LET m == Replying(c, n)
                 ar == [conn_arena EXCEPT ![s].channel_count = remaining]
             IN  Send(c, m, ar, map, tasks) \/ Return(c, m, ar, map, tasks)
    BY <1>3 DEF Unsubscribe
  <1>6. PICK r : r = Replying(c, n)
    OBVIOUS
  <1>7. /\ IsMain(r) /\ r.pc = "read" /\ r.conn_state = "PubSub" /\ r.sub_id = s
    BY <1>1, <1>2, <1>3, <1>6, ReplyingMain
  <1>8. PICK m1, ar1 :
          /\ m1 = [r EXCEPT !.conn_state = "Normal", !.buffer = conn_arena[s].io_buffer]
          /\ ar1 = [x \in DOMAIN conn_arena \ {s} |-> conn_arena[x]]
    OBVIOUS
  <1>9. CASE conn_arena[s].write # Nil
             /\ (Send(c, m1, ar1, map, tasks) \/ Return(c, m1, ar1, map, tasks))
    <2>1. IsMain(m1) /\ m1.pc = "read" /\ m1.conn_state = "Normal" /\ m1.sub_id = s
      BY <1>7, <1>8 DEF IsMain
    <2>2. Inv([main EXCEPT ![c] = m1], ar1, tasks, next_id)
      BY <1>2, <1>3, <1>8, <1>9, <2>1, LeaveInv
    <2> QED BY <1>1, <1>2, <1>9, <2>1, <2>2, SendInv, ReturnInv DEF CurrentInv
  <1>10. PICK k, ar2 : /\ k = [conn_arena[s] EXCEPT !.channel_count = remaining]
                       /\ ar2 = [conn_arena EXCEPT ![s] = k]
    OBVIOUS
  <1>11. CASE Send(c, r, ar2, map, tasks) \/ Return(c, r, ar2, map, tasks)
    <2>1. \A x \in DOMAIN conn_arena :
            IsConn(ar2[x]) /\ ar2[x].write = conn_arena[x].write
                           /\ ar2[x].canceled = conn_arena[x].canceled
      BY <1>1, <1>10, CountedConn
    <2>2. ar2 = [x \in DOMAIN conn_arena |-> ar2[x]]
      BY <1>1, <1>10
    <2>3. Inv([main EXCEPT ![c] = r], ar2, tasks, next_id)
      BY <1>2, <1>3, <1>7, <2>1, <2>2, TouchInv
    <2> QED BY <1>1, <1>2, <1>7, <1>11, <2>3, SendInv, ReturnInv DEF CurrentInv
  <1> QED BY <1>5, <1>6, <1>8, <1>9, <1>10, <1>11

LEMMA PanicInv ==
  ASSUME CurrentInv, NEW c \in Clients, UnsubscribeNormal(c)
  PROVE  CurrentInv'
  <1>1. /\ main = [d \in Clients |-> main[d]] /\ \A d \in Clients : IsMain(main[d])
        /\ Shape(main, conn_arena) /\ Own(main, conn_arena, tasks, next_id)
    BY DEF CurrentInv, Inv, Shape
  <1>2. PICK r : r = [main[c] EXCEPT !.pc = "panicked"]
    OBVIOUS
  <1>3. /\ main[c].conn_state = "Normal" /\ main' = [main EXCEPT ![c] = r]
        /\ conn_arena' = conn_arena /\ tasks' = tasks /\ next_id' = next_id
    BY <1>2 DEF UnsubscribeNormal
  <1>4. /\ IsMain(r) /\ r.pc = "panicked" /\ r.conn_state = "Normal"
        /\ r.sub_id = main[c].sub_id
    <2>1. PICK m : m = main[c]
      OBVIOUS
    <2>2. r = [pc |-> "panicked", conn_state |-> m.conn_state, sub_id |-> m.sub_id,
               buffer |-> m.buffer, frames |-> m.frames, flush |-> m.flush,
               quit |-> m.quit]
      BY <1>1, <1>2, <2>1 DEF IsMain
    <2> QED BY <1>3, <2>1, <2>2 DEF IsMain
  <1>5. main' = [d \in Clients |-> IF d = c THEN r ELSE main[d]]
    BY <1>1, <1>3, WithMain
  <1>6. Shape(main', conn_arena)
    BY <1>1, <1>4, <1>5 DEF Shape
  <1>7. Own(main', conn_arena, tasks, next_id)
    BY <1>1, <1>3, <1>4, <1>5 DEF Own, MainOwn, Holding
  <1> QED BY <1>3, <1>6, <1>7 DEF CurrentInv, Inv

\* The handler returns from a read or from a failed write: in each case the
\* configuration given to Close is owned.
LEMMA EndInv ==
  ASSUME CurrentInv, NEW c \in Clients, ReadEnds(c) \/ Canceled(c) \/ NormalFailed(c)
  PROVE  CurrentInv'
  <1>1. /\ main = [d \in Clients |-> main[d]] /\ next_id' = next_id
        /\ Close(c, main[c], conn_arena, conn_map, tasks)
    BY DEF CurrentInv, Inv, Shape, ReadEnds, Canceled, NormalFailed
  <1>2. [main EXCEPT ![c] = main[c]] = main
    BY <1>1
  <1> QED BY <1>1, <1>2, CloseInv DEF CurrentInv

\* The configuration in which the Conn of c is canceled.
LEMMA CancelInv ==
  ASSUME CurrentInv, NEW c \in Clients, NEW s, NEW k, NEW ar,
         main[c].pc = "pubsub_write", s = main[c].sub_id,
         IsConn(k), k.write = conn_arena[s].write, k.canceled,
         ar = [conn_arena EXCEPT ![s] = k]
  PROVE  Inv([main EXCEPT ![c] = main[c]], ar, tasks, next_id) /\ s \in DOMAIN conn_arena
  <1>1. /\ main = [d \in Clients |-> main[d]]
        /\ conn_arena = [x \in DOMAIN conn_arena |-> conn_arena[x]]
        /\ Shape(main, conn_arena) /\ Own(main, conn_arena, tasks, next_id)
    BY DEF CurrentInv, Inv, Shape
  <1>2. [main EXCEPT ![c] = main[c]] = main
    BY <1>1
  <1>3. s \in DOMAIN conn_arena
    BY <1>1 DEF Own, MainOwn
  <1>4. /\ DOMAIN ar = DOMAIN conn_arena /\ ar[s] = k
        /\ \A x \in DOMAIN conn_arena : x # s => ar[x] = conn_arena[x]
        /\ ar = [x \in DOMAIN ar |-> ar[x]]
    BY <1>1, <1>3
  <1>5. Shape(main, ar)
    BY <1>1, <1>4 DEF Shape
  <1>6. Own(main, ar, tasks, next_id)
    BY <1>1, <1>4 DEF Own, MainOwn
  <1> QED BY <1>2, <1>3, <1>5, <1>6 DEF Inv

LEMMA PubSubFailedInv ==
  ASSUME CurrentInv, NEW c \in Clients, PubSubFailed(c)
  PROVE  CurrentInv'
  <1>1. /\ main = [d \in Clients |-> main[d]] /\ next_id' = next_id
        /\ \A s \in DOMAIN conn_arena : IsConn(conn_arena[s])
        /\ Own(main, conn_arena, tasks, next_id) /\ main[c].pc = "pubsub_write"
    BY DEF CurrentInv, Inv, Shape, PubSubFailed
  <1>2. PICK s : s = main[c].sub_id
    OBVIOUS
  <1>3. PICK k, ar : /\ k = [conn_arena[s] EXCEPT !.canceled = TRUE]
                     /\ ar = [conn_arena EXCEPT ![s] = k]
    OBVIOUS
  <1>4. Close(c, main[c], ar, conn_map, tasks)
    BY <1>2, <1>3 DEF PubSubFailed
  <1>5. s \in DOMAIN conn_arena
    BY <1>1, <1>2 DEF Own, MainOwn
  <1>6. IsConn(k) /\ k.write = conn_arena[s].write /\ k.canceled = TRUE
    BY <1>1, <1>3, <1>5, CanceledConn
  <1>7. Inv([main EXCEPT ![c] = main[c]], ar, tasks, next_id)
    BY <1>1, <1>2, <1>3, <1>6, CancelInv
  <1> QED BY <1>1, <1>4, <1>7, CloseInv DEF CurrentInv

\* The configuration in which c has written, while Normal.
LEMMA WrittenInv ==
  ASSUME CurrentInv, NEW c \in Clients, NEW m, main[c].pc = "normal_write",
         IsMain(m), m.pc = "read", m.conn_state = "Normal", m.sub_id = main[c].sub_id
  PROVE  Inv([main EXCEPT ![c] = m], conn_arena, tasks, next_id)
  <1>1. /\ main = [d \in Clients |-> main[d]]
        /\ Shape(main, conn_arena) /\ Own(main, conn_arena, tasks, next_id)
    BY DEF CurrentInv, Inv, Shape
  <1>2. PICK W : W = [main EXCEPT ![c] = m]
    OBVIOUS
  <1>3. W = [d \in Clients |-> IF d = c THEN m ELSE main[d]]
    BY <1>1, <1>2, WithMain
  <1>4. Shape(W, conn_arena)
    BY <1>1, <1>3 DEF Shape
  <1>5. Own(W, conn_arena, tasks, next_id)
    BY <1>1, <1>3 DEF Own, MainOwn, Holding
  <1> QED BY <1>2, <1>4, <1>5 DEF Inv

LEMMA NormalWrittenInv ==
  ASSUME CurrentInv, NEW c \in Clients, NormalWritten(c)
  PROVE  CurrentInv'
  <1>1. main = [d \in Clients |-> main[d]] /\ next_id' = next_id /\ IsMain(main[c])
    BY DEF CurrentInv, Inv, Shape, NormalWritten
  <1>2. PICK m0 : m0 = main[c]
    OBVIOUS
  <1>3. PICK m : m = [m0 EXCEPT !.pc = "read", !.conn_state = "Normal", !.buffer = <<>>]
    OBVIOUS
  <1>4. IsMain(m) /\ m.pc = "read" /\ m.conn_state = "Normal" /\ m.sub_id = main[c].sub_id
    BY <1>1, <1>2, <1>3 DEF IsMain
  <1>5. main[c].pc = "normal_write" /\ Continue(c, m, conn_arena, conn_map, tasks)
    BY <1>2, <1>3 DEF NormalWritten
  <1>6. Inv([main EXCEPT ![c] = m], conn_arena, tasks, next_id)
    BY <1>4, <1>5, WrittenInv
  <1> QED BY <1>1, <1>4, <1>5, <1>6, ContinueInv DEF CurrentInv

\* The configurations in which c has written and hands its write half to a
\* new task u, or back to its Conn k.
LEMMA HandedInv ==
  ASSUME CurrentInv, NEW c \in Clients, NEW s, NEW m, NEW u, NEW k, NEW ts, NEW ar,
         main[c].pc = "pubsub_write", s = main[c].sub_id,
         IsMain(m), m.pc = "read", m.conn_state = "PubSub", m.sub_id = s,
         u.sub_id = s, u.write = c, ts = tasks \cup {u},
         IsConn(k), k.write = c, k.canceled = conn_arena[s].canceled,
         ar = [conn_arena EXCEPT ![s] = k]
  PROVE  /\ Inv([main EXCEPT ![c] = m], conn_arena, ts, next_id)
         /\ Inv([main EXCEPT ![c] = m], ar, tasks, next_id)
         /\ s \in DOMAIN conn_arena /\ conn_arena[s].write = Nil
         /\ \A t \in tasks : t.write # c
         /\ \A d \in Clients : d # c => main[d].sub_id # s
  <1> USE NilIsNoClient
  <1>1. /\ main = [d \in Clients |-> main[d]]
        /\ conn_arena = [x \in DOMAIN conn_arena |-> conn_arena[x]]
        /\ Shape(main, conn_arena) /\ Own(main, conn_arena, tasks, next_id)
    BY DEF CurrentInv, Inv, Shape
  <1>2. PICK W : W = [main EXCEPT ![c] = m]
    OBVIOUS
  <1>3. W = [d \in Clients |-> IF d = c THEN m ELSE main[d]]
    BY <1>1, <1>2, WithMain
  <1>4. s \in DOMAIN conn_arena /\ s # 0
    BY <1>1 DEF Own, MainOwn
  <1>5. /\ \A x \in DOMAIN conn_arena : conn_arena[x].write # c
        /\ \A t \in tasks : t.write # c
        /\ c # Nil
    BY <1>1 DEF Own, Holding
  <1>6. conn_arena[s].write = Nil
    BY <1>1, <1>4, <1>5 DEF Own
  <1>7. \A d \in Clients : d # c => main[d].sub_id # s
    BY <1>1, <1>4 DEF Own
  <1>8. Inv(W, conn_arena, ts, next_id)
    <2>1. Shape(W, conn_arena)
      BY <1>1, <1>3 DEF Shape
    <2>2. Own(W, conn_arena, ts, next_id)
      BY <1>1, <1>3, <1>4, <1>5 DEF Own, MainOwn, Holding
    <2> QED BY <2>1, <2>2 DEF Inv
  <1>9. Inv(W, ar, tasks, next_id)
    <2>1. /\ DOMAIN ar = DOMAIN conn_arena /\ ar[s] = k
          /\ \A x \in DOMAIN conn_arena : x # s => ar[x] = conn_arena[x]
          /\ ar = [x \in DOMAIN ar |-> ar[x]]
      BY <1>1, <1>4
    <2>2. Shape(W, ar)
      BY <1>1, <1>3, <2>1 DEF Shape
    <2>3. Own(W, ar, tasks, next_id)
      BY <1>1, <1>3, <1>4, <1>5, <2>1, SMTT(30) DEF Own, MainOwn, Holding
    <2> QED BY <2>2, <2>3 DEF Inv
  <1> QED BY <1>2, <1>4, <1>5, <1>6, <1>7, <1>8, <1>9

LEMMA PubSubWrittenInv ==
  ASSUME CurrentInv, NEW c \in Clients, PubSubWritten(c)
  PROVE  CurrentInv'
  <1>1. /\ main = [d \in Clients |-> main[d]] /\ next_id' = next_id /\ IsMain(main[c])
        /\ \A s \in DOMAIN conn_arena : IsConn(conn_arena[s])
        /\ Own(main, conn_arena, tasks, next_id) /\ main[c].pc = "pubsub_write"
    BY DEF CurrentInv, Inv, Shape, PubSubWritten
  <1>2. PICK m0, s : m0 = main[c] /\ s = main[c].sub_id
    OBVIOUS
  <1>3. PICK m : m = [m0 EXCEPT !.pc = "read", !.conn_state = "PubSub", !.buffer = <<>>]
    OBVIOUS
  <1>4. IsMain(m) /\ m.pc = "read" /\ m.conn_state = "PubSub" /\ m.sub_id = s
    BY <1>1, <1>2, <1>3 DEF IsMain
  <1>5. PICK u, ts : u = WriteTask(s, c, "spawned", <<>>) /\ ts = tasks \cup {u}
    OBVIOUS
  <1>6. PICK k, ar : /\ k = Restituted(conn_arena[s], c)
                     /\ ar = [conn_arena EXCEPT ![s] = k]
    OBVIOUS
  <1>7. Continue(c, m, conn_arena, conn_map, ts) \/ Continue(c, m, ar, conn_map, tasks)
    BY <1>2, <1>3, <1>5, <1>6 DEF PubSubWritten
  <1>8. u.sub_id = s /\ u.write = c
    BY <1>5 DEF WriteTask
  <1>9. IsConn(k) /\ k.write = c /\ k.canceled = conn_arena[s].canceled
    <2>1. s \in DOMAIN conn_arena
      BY <1>1, <1>2 DEF Own, MainOwn
    <2> QED BY <1>1, <1>6, <2>1, RestitutedConn
  <1>10. /\ Inv([main EXCEPT ![c] = m], conn_arena, ts, next_id)
         /\ Inv([main EXCEPT ![c] = m], ar, tasks, next_id)
    BY <1>1, <1>2, <1>4, <1>5, <1>6, <1>8, <1>9, HandedInv
  <1> QED BY <1>1, <1>4, <1>7, <1>10, ContinueInv DEF CurrentInv

LEMMA TaskStartInv ==
  ASSUME CurrentInv, NEW t \in tasks, TaskStart(t)
  PROVE  CurrentInv'
  <1> USE NilIsNoClient
  <1>1. /\ main' = main /\ next_id' = next_id
        /\ conn_arena = [s \in DOMAIN conn_arena |-> conn_arena[s]]
        /\ \A s \in DOMAIN conn_arena : IsConn(conn_arena[s])
        /\ Shape(main, conn_arena) /\ Own(main, conn_arena, tasks, next_id)
    BY DEF CurrentInv, Inv, Shape, TaskStart
  <1>2. CASE t.sub_id \notin DOMAIN conn_arena
    <2>1. tasks' = tasks \ {t} /\ conn_arena' = conn_arena
      BY <1>2 DEF TaskStart
    <2>2. Own(main, conn_arena, tasks', next_id)
      BY <1>1, <1>2, <2>1 DEF Own
    <2> QED BY <1>1, <2>1, <2>2 DEF CurrentInv, Inv
  <1>3. CASE t.sub_id \in DOMAIN conn_arena
    <2>1. PICK s : s = t.sub_id
      OBVIOUS
    <2>2. PICK k, ar : /\ k = [conn_arena[s] EXCEPT !.io_buffer = t.buffer]
                       /\ ar = [conn_arena EXCEPT ![s] = k]
      OBVIOUS
    <2>3. IsConn(k) /\ k.write = conn_arena[s].write /\ k.canceled = conn_arena[s].canceled
      BY <1>1, <1>3, <2>1, <2>2, BufferedConn
    <2>4. /\ DOMAIN ar = DOMAIN conn_arena /\ ar[s] = k
          /\ \A x \in DOMAIN conn_arena : x # s => ar[x] = conn_arena[x]
          /\ ar = [x \in DOMAIN ar |-> ar[x]]
      BY <1>1, <1>3, <2>1, <2>2
    <2>5. Shape(main, ar)
      BY <1>1, <2>3, <2>4 DEF Shape
    <2>6. Inv(main, ar, tasks, next_id)
      BY <2>3, <2>4, <2>5, SameInv DEF CurrentInv
    <2>7. PICK u : u = WriteTask(s, t.write, "writing", conn_arena[s].io_buffer)
      OBVIOUS
    <2>8. CASE tasks' = (tasks \ {t}) \cup {u} /\ conn_arena' = ar
      <3>1. u.sub_id = t.sub_id /\ u.write = t.write
        BY <2>1, <2>7 DEF WriteTask
      <3>2. Own(main, ar, tasks', next_id)
        BY <2>6, <2>8, <3>1 DEF Inv, Own
      <3> QED BY <1>1, <2>5, <2>8, <3>2 DEF CurrentInv, Inv
    <2>9. CASE TaskEnds(t, ar, tasks \ {t})
      BY <1>1, <2>6, <2>9, TaskEndsInv DEF CurrentInv
    <2> QED BY <1>3, <2>1, <2>2, <2>7, <2>8, <2>9 DEF TaskStart
  <1> QED BY <1>2, <1>3

LEMMA TaskWrittenInv ==
  ASSUME CurrentInv, NEW t \in tasks, TaskWritten(t)
  PROVE  CurrentInv'
  <1>1. main' = main /\ next_id' = next_id /\ TaskEnds(t, conn_arena, tasks \ {t})
    BY DEF TaskWritten
  <1> QED BY <1>1, TaskEndsInv DEF CurrentInv

LEMMA TaskFailedInv ==
  ASSUME CurrentInv, NEW t \in tasks, TaskFailed(t)
  PROVE  CurrentInv'
  <1> USE NilIsNoClient
  <1>1. /\ main' = main /\ next_id' = next_id /\ tasks' = tasks \ {t}
        /\ \A s \in DOMAIN conn_arena : IsConn(conn_arena[s])
        /\ Shape(main, conn_arena) /\ Own(main, conn_arena, tasks, next_id)
    BY DEF CurrentInv, Inv, Shape, TaskFailed
  <1> DEFINE failed == TRUE
  <1>2. conn_arena' = [s \in DOMAIN conn_arena |->
                         IF s = t.sub_id THEN [conn_arena[s] EXCEPT !.canceled = failed]
                                         ELSE conn_arena[s]]
    BY DEF TaskFailed
  <1> HIDE DEF failed
  <1>3. \A s \in DOMAIN conn_arena :
          /\ IsConn(conn_arena'[s]) /\ conn_arena'[s].write = conn_arena[s].write
          /\ IF s = t.sub_id THEN conn_arena'[s].canceled = failed
                             ELSE conn_arena'[s].canceled = conn_arena[s].canceled
    BY <1>1, <1>2, CanceledConn
  <1>4. /\ DOMAIN conn_arena' = DOMAIN conn_arena
        /\ conn_arena' = [s \in DOMAIN conn_arena' |-> conn_arena'[s]]
    BY <1>2
  <1>5. Shape(main, conn_arena')
    BY <1>1, <1>3, <1>4 DEF Shape
  <1>6. Own(main, conn_arena', tasks', next_id)
    <2>1. \A s \in DOMAIN conn_arena : conn_arena[s].canceled => conn_arena'[s].canceled
      BY <1>3 DEF failed
    <2>2. t.sub_id \in DOMAIN conn_arena => conn_arena'[t.sub_id].canceled
      BY <1>3 DEF failed
    <2> QED BY <1>1, <1>3, <1>4, <2>1, <2>2 DEF Own, MainOwn
  <1> QED BY <1>1, <1>5, <1>6 DEF CurrentInv, Inv

LEMMA NextInv == CurrentInv /\ [Next]_vars => CurrentInv'
  <1> SUFFICES ASSUME CurrentInv, [Next]_vars PROVE CurrentInv'
    OBVIOUS
  <1>1. CASE UNCHANGED vars
    BY <1>1 DEF vars, CurrentInv, Inv, Shape, Own
  <1>2. ASSUME NEW c \in Clients, Command(c) PROVE CurrentInv'
    BY <1>2, PingInv, QuitInv, PanicInv, EndInv, SubscribeFirstInv, SubscribeMoreInv,
       PublishInv, UnsubscribeInv DEF Command
  <1>3. ASSUME NEW c \in Clients, Canceled(c) \/ WriteEnds(c) PROVE CurrentInv'
    BY <1>3, EndInv, NormalWrittenInv, PubSubWrittenInv, PubSubFailedInv DEF WriteEnds
  <1>4. ASSUME NEW t \in tasks, TaskStep(t) PROVE CurrentInv'
    BY <1>4, TaskStartInv, TaskWrittenInv, TaskFailedInv DEF TaskStep
  <1> QED BY <1>1, <1>2, <1>3, <1>4 DEF Next

\* Whatever the clients send and whichever writes fail, a connection's write
\* half has one holder, and an open connection loses it only together with a
\* cancelation its main task will see (get_conn_writer, restitute_conn_writer
\* and write_task of utils/mod.rs).
THEOREM WriteHalfIsOwned == Spec => []WriteHalfOwned
  <1>1. Init => CurrentInv
    BY InitInv DEF CurrentInv
  <1>2. CurrentInv => WriteHalfOwned
    BY InvImplies DEF CurrentInv
  <1> QED BY <1>1, <1>2, NextInv, PTL DEF Spec

-----------------------------------------------------------------------------
(* The registry and the buffers.                                           *)

\* The channels of map that list s.
ListedIn(map, s) == {ch \in Channels : s \in DOMAIN map[ch]}

MapShape(map) ==
  /\ map = [ch \in Channels |-> map[ch]]
  /\ \A ch \in Channels : \A s \in DOMAIN map[ch] : map[ch][s] \in Nat

\* The buffers of the main tasks, of the Conns and of the tasks: the swap
\* buffer is at home exactly with the write half, and a main task in PubSub
\* state has left its buffer to its Conn.
MainBuffers(m) ==
  /\ m.buffer \in Seq(Nat) /\ m.frames \in Seq({Reply})
  /\ m.conn_state = "PubSub" => m.buffer = <<>>
ConnBuffers(k) ==
  /\ k.io_buffer \in Seq(Nat)
  /\ k.swap_buffer = IF k.write = Nil THEN Nil ELSE <<>>
Buffers(M, A, T) ==
  /\ \A c \in Clients : MainBuffers(M[c])
  /\ \A s \in DOMAIN A : ConnBuffers(A[s])
  /\ \A t \in T : t.buffer \in Seq(Nat)

\* While no awaited send fails, a Conn has a connection that will remove it.
Filed(M, A) ==
  ~SendMayFail => \A s \in DOMAIN A : \E c \in Clients : M[c].sub_id = s /\ M[c].pc # "closed"

\* Somebody is about to look at what is in the io_buffer of s.
Attended(M, A, T, s) ==
  \/ A[s].canceled
  \/ \E t \in T : t.sub_id = s
  \/ \E c \in Clients : (M[c].sub_id = s /\ M[c].pc = "pubsub_write") \/ s \in M[c].flush
Unstranded(M, A, T) ==
  ~SendMayFail => \A s \in DOMAIN A : A[s].io_buffer # <<>> => Attended(M, A, T, s)

\* The map and the arena agree, as long as the clients are disciplined.
Listing(M, A, map) ==
  Disciplined =>
    /\ \A c \in Clients :
         M[c].conn_state = "PubSub" \/ M[c].pc = "pubsub_write" =>
           A[M[c].sub_id].channel_count = Cardinality(ListedIn(map, M[c].sub_id))
    /\ \A ch \in Channels : DOMAIN map[ch] \subseteq DOMAIN A

HeldIn(c, m, A, T) ==
  Holding(m) \/ (\E s \in DOMAIN A : A[s].write = c) \/ (\E t \in T : t.write = c)

\* The copies of message x in the io_buffer of s.
ConnCopies(A, s, x) == IF s \in DOMAIN A THEN Copies(A[s].io_buffer, x) ELSE 0

\* What connection c was sent is what it received and what is queued, when its
\* main task is m, the sequence acc was put into its buffers and del received.
Balance(c, m, A, T, acc, del) ==
  m.pc # "closed" /\ HeldIn(c, m, A, T) =>
    \A x \in Messages :
      Copies(acc, x) = Copies(del, x) + (Copies(m.buffer, x) + TaskCopies(T, c, x)
                                           + ConnCopies(A, m.sub_id, x))
Balanced(M, A, T, acc, del) ==
  \A c \in Clients : /\ acc[c] \in Seq(Nat) /\ del[c] \in Seq(Nat)
                     /\ Balance(c, M[c], A, T, acc[c], del[c])

Reg(M, A, T, map, acc, del) ==
  /\ MapShape(map)
  /\ Buffers(M, A, T)
  /\ Filed(M, A)
  /\ Unstranded(M, A, T)
  /\ Listing(M, A, map)
  /\ Balanced(M, A, T, acc, del)

\* A publisher remembers whom to flush only while its reply is written.
Idle(M, D) == \A d \in D : M[d].flush # {} => M[d].pc = "normal_write"

RegInv ==
  /\ CurrentInv
  /\ Reg(main, conn_arena, tasks, conn_map, accepted, delivered)
  /\ Idle(main, Clients)
  /\ published \in Nat
  /\ accepted = [c \in Clients |-> accepted[c]]
  /\ delivered = [c \in Clients |-> delivered[c]]

-----------------------------------------------------------------------------
(* Counting the copies of a message.                                       *)

LEMMA CopiesNat ==
  ASSUME NEW b \in Seq(Nat), NEW x
  PROVE  IsFiniteSet({i \in DOMAIN b : b[i] = x}) /\ Copies(b, x) \in Nat
  <1>1. IsFiniteSet(1 .. Len(b)) /\ DOMAIN b = 1 .. Len(b)
    BY FS_Interval
  <1>2. IsFiniteSet({i \in DOMAIN b : b[i] = x})
    BY <1>1, FS_Subset
  <1> QED BY <1>2, FS_CardinalityType DEF Copies

LEMMA CopiesEmpty == \A x : Copies(<<>>, x) = 0
  <1>1. ASSUME NEW x PROVE {i \in DOMAIN <<>> : <<>>[i] = x} = {}
    OBVIOUS
  <1> QED BY <1>1, FS_EmptySet DEF Copies

LEMMA CopiesConcat ==
  ASSUME NEW a \in Seq(Nat), NEW b \in Seq(Nat), NEW x
  PROVE  Copies(a \o b, x) = Copies(a, x) + Copies(b, x)
  <1> DEFINE I == {i \in DOMAIN a : a[i] = x}
             J == {i \in DOMAIN b : b[i] = x}
             K == {i \in DOMAIN (a \o b) : (a \o b)[i] = x}
             L == {i \in K : i > Len(a)}
             f == [j \in J |-> Len(a) + j]
  <1>1. IsFiniteSet(I) /\ IsFiniteSet(J) /\ Cardinality(I) \in Nat /\ Cardinality(J) \in Nat
    BY CopiesNat DEF Copies
  <1>2. /\ a \o b \in Seq(Nat) /\ DOMAIN (a \o b) = 1 .. Len(a) + Len(b)
        /\ DOMAIN a = 1 .. Len(a) /\ DOMAIN b = 1 .. Len(b)
        /\ \A i \in 1 .. Len(a) : (a \o b)[i] = a[i]
        /\ \A i \in 1 .. Len(b) : (a \o b)[Len(a) + i] = b[i]
        /\ Len(a) \in Nat /\ Len(b) \in Nat
    OBVIOUS
  <1>3. \A i \in DOMAIN (a \o b) : i > Len(a) => (a \o b)[i] = b[i - Len(a)] /\ i - Len(a) \in DOMAIN b
    BY <1>2
  <1>4. K = I \cup L
    BY <1>2
  <1>5. I \cap L = {}
    BY <1>2
  <1>6. f \in Bijection(J, L)
    <2>1. f \in [J -> L]
      BY <1>2
    <2>2. \A i, j \in J : f[i] = f[j] => i = j
      BY <1>2
    <2>3. \A i \in L : \E j \in J : f[j] = i
      <3>1. ASSUME NEW i \in L PROVE i - Len(a) \in J /\ f[i - Len(a)] = i
        BY <1>2, <1>3
      <3> QED BY <3>1
    <2> QED BY <2>1, <2>2, <2>3, Fun_IsBij
  <1>7. IsFiniteSet(L) /\ Cardinality(L) = Cardinality(J)
    <2>1. ExistsBijection(J, L)
      BY <1>6 DEF ExistsBijection
    <2> QED BY <1>1, <2>1, FS_Bijection
  <1> HIDE DEF I, J, K, L, f
  <1>8. Cardinality(K) = Cardinality(I) + Cardinality(J)
    <2>1. Cardinality(I \cup L) = Cardinality(I) + Cardinality(L) - Cardinality(I \cap L)
      BY <1>1, <1>7, FS_Union
    <2>2. Cardinality(I \cap L) = 0
      BY <1>5, FS_EmptySet
    <2> QED BY <1>1, <1>4, <1>7, <2>1, <2>2
  <1> QED BY <1>8 DEF Copies, I, J, K

\* Replies are not messages.
LEMMA CopiesOfReplies ==
  ASSUME NEW b \in Seq({Reply}), NEW x \in Messages
  PROVE  Copies(b, x) = 0
  <1>1. \A i \in DOMAIN b : b[i] # x
    BY DEF Messages, Reply
  <1>2. {i \in DOMAIN b : b[i] = x} = {}
    BY <1>1
  <1> QED BY <1>2, FS_EmptySet DEF Copies

LEMMA RepliesAreFrames == Seq({Reply}) \subseteq Seq(Nat)
  BY DEF Reply

\* What the tasks of one write half hold.
LEMMA TaskCopiesSame ==
  ASSUME NEW T, NEW U, NEW c, NEW x,
         \A t : t \in T /\ t.write = c <=> t \in U /\ t.write = c
  PROVE  TaskCopies(T, c, x) = TaskCopies(U, c, x)
  <1>1. {u \in T : u.write = c} = {u \in U : u.write = c}
    OBVIOUS
  <1> QED BY <1>1 DEF TaskCopies

LEMMA TaskCopiesNone ==
  ASSUME NEW T, NEW c, NEW x, \A t \in T : t.write # c
  PROVE  TaskCopies(T, c, x) = 0
  <1>1. {u \in T : u.write = c} = {}
    OBVIOUS
  <1> DEFINE P(t) == {<<t, i>> : i \in {j \in DOMAIN t.buffer : t.buffer[j] = x}}
  <1>2. UNION {P(t) : t \in {u \in T : u.write = c}} = {}
    BY <1>1
  <1>3. TaskCopies(T, c, x) = Cardinality(UNION {P(t) : t \in {u \in T : u.write = c}})
    BY DEF TaskCopies
  <1> QED BY <1>2, <1>3, FS_EmptySet

LEMMA TaskCopiesOne ==
  ASSUME NEW T, NEW t \in T, NEW x, t.buffer \in Seq(Nat),
         \A u \in T : u.write = t.write => u = t
  PROVE  TaskCopies(T, t.write, x) = Copies(t.buffer, x)
  <1> DEFINE J == {j \in DOMAIN t.buffer : t.buffer[j] = x}
             P(u) == {<<u, i>> : i \in {j \in DOMAIN u.buffer : u.buffer[j] = x}}
             f == [j \in J |-> <<t, j>>]
  <1>1. {u \in T : u.write = t.write} = {t}
    OBVIOUS
  <1>2. UNION {P(u) : u \in {u \in T : u.write = t.write}} = P(t)
    <2>1. {P(u) : u \in {u \in T : u.write = t.write}} = {P(t)}
      BY <1>1
    <2> HIDE DEF P
    <2> QED BY <2>1
  <1>3. TaskCopies(T, t.write, x) = Cardinality(P(t))
    BY <1>2 DEF TaskCopies
  <1>4. f \in Bijection(J, P(t))
    <2>1. f \in [J -> P(t)]
      OBVIOUS
    <2>2. \A i, j \in J : f[i] = f[j] => i = j
      OBVIOUS
    <2>3. \A y \in P(t) : \E j \in J : f[j] = y
      OBVIOUS
    <2> HIDE DEF f, P, J
    <2> QED BY <2>1, <2>2, <2>3, Fun_IsBij
  <1>5. IsFiniteSet(J)
    BY CopiesNat
  <1> HIDE DEF f, P, J
  <1>6. Cardinality(P(t)) = Cardinality(J)
    <2>1. ExistsBijection(J, P(t))
      BY <1>4 DEF ExistsBijection
    <2> QED BY <1>5, <2>1, FS_Bijection
  <1> QED BY <1>3, <1>6 DEF Copies, J

-----------------------------------------------------------------------------
(* What a step leaves alone.                                               *)

\* The balance of connection c, whose main task is m before and m2 after.
LEMMA SameBalance ==
  ASSUME NEW c, NEW m, NEW A, NEW T, NEW m2, NEW A2, NEW T2, NEW acc, NEW del,
         Balance(c, m, A, T, acc, del),
         m2.pc # "closed" /\ HeldIn(c, m2, A2, T2) => m.pc # "closed" /\ HeldIn(c, m, A, T),
         \A x \in Messages :
           Copies(m2.buffer, x) + TaskCopies(T2, c, x) + ConnCopies(A2, m2.sub_id, x)
             = Copies(m.buffer, x) + TaskCopies(T, c, x) + ConnCopies(A, m.sub_id, x)
  PROVE  Balance(c, m2, A2, T2, acc, del)
  BY DEF Balance

\* A connection whose buffers nobody touches.
LEMMA OtherBalance ==
  ASSUME NEW c, NEW m, NEW A, NEW T, NEW A2, NEW T2, NEW acc, NEW del,
         Balance(c, m, A, T, acc, del),
         HeldIn(c, m, A2, T2) => HeldIn(c, m, A, T),
         m.sub_id \in DOMAIN A <=> m.sub_id \in DOMAIN A2,
         m.sub_id \in DOMAIN A => A2[m.sub_id].io_buffer = A[m.sub_id].io_buffer,
         \A t : t \in T2 /\ t.write = c <=> t \in T /\ t.write = c
  PROVE  Balance(c, m, A2, T2, acc, del)
  <1>1. \A x : TaskCopies(T2, c, x) = TaskCopies(T, c, x)
    BY TaskCopiesSame
  <1>2. \A x : ConnCopies(A2, m.sub_id, x) = ConnCopies(A, m.sub_id, x)
    BY DEF ConnCopies
  <1> QED BY <1>1, <1>2 DEF Balance

\* A step that concerns one connection c: its main task was m and is r, and
\* it may change the Conn of its SubId and the tasks with its write half.
Local(c, M, A, T, r, M2, A2, T2) ==
  /\ M2 = [d \in Clients |-> IF d = c THEN r ELSE M[d]]
  /\ r.sub_id = M[c].sub_id /\ r.flush = M[c].flush /\ MainBuffers(r)
  /\ M[c].pc # "closed" => r.pc # "closed"
  /\ DOMAIN A2 = DOMAIN A
  /\ \A s \in DOMAIN A : s # r.sub_id => A2[s] = A[s]
  /\ r.sub_id \in DOMAIN A => ConnBuffers(A2[r.sub_id]) /\ A2[r.sub_id].write \in {Nil, c}
  /\ \A t : t.write # c => (t \in T2 <=> t \in T)
  /\ \A t \in T2 : t.buffer \in Seq(Nat)

LEMMA LocalReg ==
  ASSUME NEW c \in Clients, NEW M, NEW A, NEW T, NEW n, NEW map, NEW acc, NEW del,
         NEW r, NEW M2, NEW A2, NEW T2, NEW map2, NEW del2,
         Own(M, A, T, n), Reg(M, A, T, map, acc, del),
         Local(c, M, A, T, r, M2, A2, T2),
         MapShape(map2), Listing(M2, A2, map2),
         \A d \in Clients : d # c => del2[d] = del[d],
         del2[c] \in Seq(Nat),
         ~SendMayFail /\ r.sub_id \in DOMAIN A /\ A2[r.sub_id].io_buffer # <<>> =>
           Attended(M2, A2, T2, r.sub_id),
         Balance(c, r, A2, T2, acc[c], del2[c])
  PROVE  Reg(M2, A2, T2, map2, acc, del2)
  <1> USE NilIsNoClient
  <1>1. \A d \in Clients : d # c => M[d].sub_id \notin DOMAIN A \/ M[d].sub_id # r.sub_id
    BY DEF Own, Local
  <1>2. Buffers(M2, A2, T2)
    BY DEF Reg, Buffers, Local
  <1>3. Filed(M2, A2)
    BY DEF Reg, Filed, Local
  <1>4. Unstranded(M2, A2, T2)
    <2>1. ASSUME ~SendMayFail, NEW s \in DOMAIN A, s # r.sub_id, A2[s].io_buffer # <<>>
          PROVE  Attended(M2, A2, T2, s)
      <3>1. Attended(M, A, T, s) /\ A2[s] = A[s]
        BY <2>1 DEF Reg, Unstranded, Local
      <3>2. \A t \in T : t.sub_id = s => t \in T2
        BY <2>1 DEF Own, Local
      <3> QED BY <2>1, <3>1, <3>2 DEF Attended, Local
    <2> QED BY <2>1 DEF Unstranded, Local
  <1>5. ASSUME NEW d \in Clients, d # c
        PROVE  M2[d] = M[d] /\ Balance(d, M[d], A2, T2, acc[d], del2[d])
    <2>1. M2[d] = M[d] /\ del2[d] = del[d] /\ Balance(d, M[d], A, T, acc[d], del[d])
      BY <1>5 DEF Local, Reg, Balanced
    <2>2. HeldIn(d, M[d], A2, T2) => HeldIn(d, M[d], A, T)
      BY <1>5 DEF HeldIn, Local
    <2>3. M[d].sub_id \in DOMAIN A <=> M[d].sub_id \in DOMAIN A2
      BY DEF Local
    <2>4. M[d].sub_id \in DOMAIN A => A2[M[d].sub_id].io_buffer = A[M[d].sub_id].io_buffer
      BY <1>1, <1>5 DEF Local
    <2>5. \A t : t \in T2 /\ t.write = d <=> t \in T /\ t.write = d
      BY <1>5 DEF Local
    <2> QED BY <2>1, <2>2, <2>3, <2>4, <2>5, OtherBalance
  <1>6. M2[c] = r /\ \A d \in Clients : acc[d] \in Seq(Nat) /\ del[d] \in Seq(Nat)
    BY DEF Local, Reg, Balanced
  <1>7. Balanced(M2, A2, T2, acc, del2)
    BY <1>5, <1>6 DEF Balanced
  <1> QED BY <1>2, <1>3, <1>4, <1>7 DEF Reg

\* The map stays, and so does the count of c's Conn.
LEMMA SameListing ==
  ASSUME NEW c \in Clients, NEW M, NEW A, NEW T, NEW n, NEW map,
         NEW r, NEW M2, NEW A2, NEW T2,
         Own(M, A, T, n), Listing(M, A, map), Local(c, M, A, T, r, M2, A2, T2),
         r.sub_id \in DOMAIN A => A2[r.sub_id].channel_count = A[r.sub_id].channel_count,
         r.conn_state = "PubSub" \/ r.pc = "pubsub_write" =>
           M[c].conn_state = "PubSub" \/ M[c].pc = "pubsub_write"
  PROVE  Listing(M2, A2, map)
  <1>1. ASSUME Disciplined, NEW d \in Clients,
               M2[d].conn_state = "PubSub" \/ M2[d].pc = "pubsub_write"
        PROVE  A2[M2[d].sub_id].channel_count = Cardinality(ListedIn(map, M2[d].sub_id))
    <2>1. /\ M2[d].sub_id = M[d].sub_id
          /\ M[d].conn_state = "PubSub" \/ M[d].pc = "pubsub_write"
      BY <1>1 DEF Local
    <2>2. M[d].sub_id \in DOMAIN A
      BY <2>1 DEF Own, MainOwn
    <2>3. A2[M[d].sub_id].channel_count = A[M[d].sub_id].channel_count
      BY <2>2 DEF Local
    <2> QED BY <1>1, <2>1, <2>3 DEF Listing
  <1>2. Disciplined => \A ch \in Channels : DOMAIN map[ch] \subseteq DOMAIN A2
    BY DEF Listing, Local
  <1> QED BY <1>1, <1>2 DEF Listing

-----------------------------------------------------------------------------
(* The continuations.                                                      *)

LEMMA CloseEffect ==
  ASSUME NEW c \in Clients, NEW m, NEW ar, NEW map, NEW ts, IsMain(m),
         main = [d \in Clients |-> main[d]], Close(c, m, ar, map, ts)
  PROVE  \E r : /\ r = [pc |-> "closed", conn_state |-> "None", sub_id |-> m.sub_id,
                         buffer |-> <<>>, frames |-> <<>>, flush |-> {}, quit |-> FALSE]
                /\ main' = [d \in Clients |-> IF d = c THEN r ELSE main[d]]
                /\ tasks' = ts
  <1>1. PICK r : r = [m EXCEPT !.pc = "closed", !.conn_state = "None", !.buffer = <<>>,
                               !.frames = <<>>, !.flush = {}, !.quit = FALSE]
    OBVIOUS
  <1>2. r = [pc |-> "closed", conn_state |-> "None", sub_id |-> m.sub_id,
             buffer |-> <<>>, frames |-> <<>>, flush |-> {}, quit |-> FALSE]
    BY <1>1 DEF IsMain
  <1>3. main' = [main EXCEPT ![c] = r] /\ tasks' = ts
    BY <1>1 DEF Close
  <1>4. main' = [d \in Clients |-> IF d = c THEN r ELSE main[d]]
    BY <1>3
  <1> QED BY <1>2, <1>3, <1>4

\* A handler that returns takes its Conn and its channels along.
LEMMA CloseReg ==
  ASSUME NEW c \in Clients, NEW m, NEW ar, NEW map, NEW ts, NEW n, NEW acc, NEW del,
         main = [d \in Clients |-> main[d]],
         Inv([main EXCEPT ![c] = m], ar, ts, n),
         Reg([main EXCEPT ![c] = m], ar, ts, map, acc, del),
         Idle(main, Clients \ {c}),
         SendMayFail \/ (m.pc = "read" /\ m.flush = {}),
         Close(c, m, ar, map, ts)
  PROVE  Reg(main', conn_arena', tasks', conn_map', acc, del) /\ Idle(main', Clients)
  <1>1. PICK W : W = [main EXCEPT ![c] = m]
    OBVIOUS
  <1>2. /\ Shape(W, ar) /\ Own(W, ar, ts, n) /\ Reg(W, ar, ts, map, acc, del)
        /\ W[c] = m /\ \A d \in Clients : d # c => W[d] = main[d]
    BY <1>1, WithMain DEF Inv
  <1>3. IsMain(m) /\ ar = [s \in DOMAIN ar |-> ar[s]]
    BY <1>2 DEF Shape
  <1>4. PICK r : /\ r = [pc |-> "closed", conn_state |-> "None", sub_id |-> m.sub_id,
                         buffer |-> <<>>, frames |-> <<>>, flush |-> {}, quit |-> FALSE]
                 /\ main' = [d \in Clients |-> IF d = c THEN r ELSE main[d]]
                 /\ tasks' = ts
    BY <1>3, CloseEffect
  <1>5. main' = [d \in Clients |-> IF d = c THEN r ELSE W[d]]
    BY <1>2, <1>4
  <1>6. /\ DOMAIN conn_arena' \subseteq DOMAIN ar
        /\ \A s \in DOMAIN conn_arena' : conn_arena'[s] = ar[s]
        /\ \A s \in DOMAIN ar : s # m.sub_id => s \in DOMAIN conn_arena'
        /\ m.conn_state = "PubSub" => m.sub_id \notin DOMAIN conn_arena'
    BY DEF Close
  <1>7. \A d \in Clients : d # c =>
          /\ W[d].sub_id \in DOMAIN ar <=> W[d].sub_id \in DOMAIN conn_arena'
          /\ W[d].sub_id \in DOMAIN ar => W[d].sub_id # m.sub_id
    BY <1>2, <1>6 DEF Own
  <1>8. Buffers(main', conn_arena', tasks')
    <2>1. MainBuffers(r)
      BY <1>4 DEF MainBuffers
    <2> QED BY <1>2, <1>4, <1>5, <1>6, <2>1 DEF Reg, Buffers
  <1>9. MapShape(conn_map') /\ Listing(main', conn_arena', conn_map')
    <2>1. CASE m.conn_state = "PubSub"
      <3>1. conn_map' = [ch \in Channels |-> [x \in DOMAIN map[ch] \ {m.sub_id} |-> map[ch][x]]]
        BY <2>1 DEF Close, Unlisted
      <3>2. MapShape(conn_map')
        BY <1>2, <3>1 DEF Reg, MapShape
      <3>3. \A s : s # m.sub_id => ListedIn(conn_map', s) = ListedIn(map, s)
        BY <3>1 DEF ListedIn
      <3>4. ASSUME Disciplined, NEW d \in Clients,
                   main'[d].conn_state = "PubSub" \/ main'[d].pc = "pubsub_write"
            PROVE  conn_arena'[main'[d].sub_id].channel_count
                     = Cardinality(ListedIn(conn_map', main'[d].sub_id))
        <4>1. d # c /\ main'[d] = W[d]
          BY <1>4, <1>5, <3>4
        <4>2. W[d].sub_id \in DOMAIN ar
          BY <1>2, <3>4, <4>1 DEF Own, MainOwn
        <4>3. /\ conn_arena'[W[d].sub_id] = ar[W[d].sub_id]
              /\ ListedIn(conn_map', W[d].sub_id) = ListedIn(map, W[d].sub_id)
          BY <1>6, <1>7, <3>3, <4>1, <4>2
        <4> QED BY <1>2, <3>4, <4>1, <4>3 DEF Reg, Listing
      <3>5. Disciplined => \A ch \in Channels : DOMAIN conn_map'[ch] \subseteq DOMAIN conn_arena'
        BY <1>2, <1>6, <3>1 DEF Reg, Listing
      <3>6. Listing(main', conn_arena', conn_map')
        BY <3>4, <3>5 DEF Listing
      <3> QED BY <3>2, <3>6
    <2>2. CASE m.conn_state # "PubSub"
      <3>1. conn_arena' = ar /\ conn_map' = map
        BY <2>2 DEF Close
      <3>2. Listing(main', conn_arena', conn_map')
        BY <1>2, <1>4, <1>5, <3>1 DEF Reg, Listing
      <3> QED BY <1>2, <3>1, <3>2 DEF Reg
    <2> QED BY <2>1, <2>2
  <1>11. ~SendMayFail => m.sub_id \notin DOMAIN conn_arena' /\ m.pc = "read" /\ m.flush = {}
    BY <1>2, <1>6 DEF Own, MainOwn
  <1>12. Filed(main', conn_arena')
    BY <1>2, <1>5, <1>6, <1>11 DEF Reg, Filed
  <1>13. Unstranded(main', conn_arena', tasks')
    BY <1>2, <1>4, <1>5, <1>6, <1>11 DEF Reg, Unstranded, Attended
  <1>14. Balanced(main', conn_arena', tasks', acc, del)
    <2>1. ASSUME NEW d \in Clients PROVE Balance(d, main'[d], conn_arena', tasks', acc[d], del[d])
      <3>1. CASE d = c
        BY <1>4, <1>5, <3>1 DEF Balance
      <3>2. CASE d # c
        <4>1. main'[d] = W[d] /\ Balance(d, W[d], ar, ts, acc[d], del[d])
          BY <1>2, <1>5, <3>2 DEF Reg, Balanced
        <4>2. HeldIn(d, W[d], conn_arena', tasks') => HeldIn(d, W[d], ar, ts)
          BY <1>4, <1>6 DEF HeldIn
        <4>3. W[d].sub_id \in DOMAIN ar =>
                conn_arena'[W[d].sub_id].io_buffer = ar[W[d].sub_id].io_buffer
          BY <1>6, <1>7, <3>2
        <4> QED BY <1>4, <1>7, <3>2, <4>1, <4>2, <4>3, OtherBalance
      <3> QED BY <3>1, <3>2
    <2> QED BY <1>2, <2>1 DEF Reg, Balanced
  <1>15. Idle(main', Clients)
    BY <1>2, <1>4, <1>5 DEF Idle
  <1> QED BY <1>8, <1>9, <1>12, <1>13, <1>14, <1>15 DEF Reg

LEMMA ReturnReg ==
  ASSUME NEW c \in Clients, NEW m, NEW ar, NEW map, NEW ts, NEW n, NEW acc, NEW del,
         main = [d \in Clients |-> main[d]],
         Inv([main EXCEPT ![c] = m], ar, ts, n),
         Reg([main EXCEPT ![c] = m], ar, ts, map, acc, del),
         Idle(main, Clients \ {c}), m.pc = "read", m.flush = {},
         Return(c, m, ar, map, ts)
  PROVE  Reg(main', conn_arena', tasks', conn_map', acc, del) /\ Idle(main', Clients)
  <1>1. CASE m.quit
    BY <1>1, CloseReg DEF Return
  <1>2. CASE ~m.quit
    <2>1. IsMain(m)
      BY WithMain DEF Inv, Shape
    <2>2. [m EXCEPT !.pc = "read"] = m
      BY <2>1 DEF IsMain
    <2>3. /\ main' = [main EXCEPT ![c] = m]
          /\ conn_arena' = ar /\ conn_map' = map /\ tasks' = ts
      BY <1>2, <2>2 DEF Return
    <2>4. Idle(main', Clients)
      BY <2>3, WithMain DEF Idle
    <2> QED BY <2>3, <2>4
  <1> QED BY <1>1, <1>2

\* The frame that is sent is a reply.
LEMMA AppendReply ==
  ASSUME NEW b \in Seq(Nat), NEW f \in Seq({Reply}), f # <<>>
  PROVE  /\ Append(b, Head(f)) \in Seq(Nat) /\ Tail(f) \in Seq({Reply})
         /\ \A x \in Messages : Copies(Append(b, Head(f)), x) = Copies(b, x)
  <1>1. Head(f) = Reply /\ Tail(f) \in Seq({Reply})
    OBVIOUS
  <1>2. Append(b, Head(f)) = b \o <<Reply>> /\ <<Reply>> \in Seq({Reply})
    BY <1>1 DEF Reply
  <1>3. <<Reply>> \in Seq(Nat)
    BY DEF Reply
  <1>4. ASSUME NEW x \in Messages PROVE Copies(b \o <<Reply>>, x) = Copies(b, x)
    <2>1. Copies(b \o <<Reply>>, x) = Copies(b, x) + Copies(<<Reply>>, x)
      BY <1>3, CopiesConcat
    <2>2. Copies(<<Reply>>, x) = 0
      BY <1>2, CopiesOfReplies
    <2>3. Copies(b, x) \in Nat
      BY CopiesNat
    <2> QED BY <2>1, <2>2, <2>3
  <1>5. PICK a : a = b \o <<Reply>>
    OBVIOUS
  <1>6. Append(b, Head(f)) = a /\ a \in Seq(Nat)
    BY <1>2, <1>3, <1>5, SMTT(30)
  <1>7. \A x \in Messages : Copies(a, x) = Copies(b, x)
    BY <1>4, <1>5
  <1> QED BY <1>1, <1>6, <1>7

LEMMA SendNormalReg ==
  ASSUME NEW c \in Clients, NEW m, NEW ar, NEW map, NEW ts, NEW n, NEW acc, NEW del,
         main = [d \in Clients |-> main[d]],
         Inv([main EXCEPT ![c] = m], ar, ts, n),
         Reg([main EXCEPT ![c] = m], ar, ts, map, acc, del),
         Idle(main, Clients \ {c}), m.pc = "read", m.frames # <<>>,
         SendNormal(c, m, ar, map, ts)
  PROVE  Reg(main', conn_arena', tasks', conn_map', acc, del) /\ Idle(main', Clients)
  <1>1. PICK W : W = [main EXCEPT ![c] = m]
    OBVIOUS
  <1>2. /\ Shape(W, ar) /\ Own(W, ar, ts, n) /\ Reg(W, ar, ts, map, acc, del)
        /\ W[c] = m /\ \A d \in Clients : d # c => W[d] = main[d]
    BY <1>1, WithMain DEF Inv
  <1>3. /\ IsMain(m) /\ MainBuffers(m) /\ MapShape(map)
        /\ Balance(c, m, ar, ts, acc[c], del[c]) /\ del[c] \in Seq(Nat)
    BY <1>2 DEF Shape, Reg, Buffers, Balanced
  <1>4. PICK r : r = [m EXCEPT !.pc = "normal_write", !.conn_state = "None",
                               !.buffer = Append(@, Head(m.frames)), !.frames = Tail(@)]
    OBVIOUS
  <1>5. r = [pc |-> "normal_write", conn_state |-> "None", sub_id |-> m.sub_id,
             buffer |-> Append(m.buffer, Head(m.frames)), frames |-> Tail(m.frames),
             flush |-> m.flush, quit |-> m.quit]
    BY <1>3, <1>4 DEF IsMain
  <1>6. /\ m.conn_state = "Normal" /\ main' = [main EXCEPT ![c] = r]
        /\ conn_arena' = ar /\ conn_map' = map /\ tasks' = ts
    BY <1>4 DEF SendNormal
  <1>7. main' = [d \in Clients |-> IF d = c THEN r ELSE W[d]]
    BY <1>2, <1>6, WithMain
  <1>8. /\ MainBuffers(r)
        /\ \A x \in Messages : Copies(r.buffer, x) = Copies(m.buffer, x)
    BY <1>3, <1>5, AppendReply DEF MainBuffers
  <1>9. m.sub_id \notin DOMAIN ar
    BY <1>2, <1>6 DEF Own, MainOwn
  <1>10. Local(c, W, ar, ts, r, main', conn_arena', tasks')
    BY <1>2, <1>5, <1>6, <1>7, <1>8, <1>9 DEF Local, Reg, Buffers
  <1>11. Listing(main', conn_arena', conn_map')
    <2>1. Listing(W, ar, map)
      BY <1>2 DEF Reg
    <2>2. r.conn_state = "None" /\ r.pc = "normal_write" /\ r.sub_id = m.sub_id
      BY <1>5
    <2>3. Listing(main', conn_arena', map)
      BY <1>2, <1>9, <1>10, <2>1, <2>2, SameListing
    <2> QED BY <1>6, <2>3
  <1>12. Balance(c, r, conn_arena', tasks', acc[c], del[c])
    <2>1. HeldIn(c, m, ar, ts)
      BY <1>6 DEF HeldIn, Holding
    <2> QED BY <1>3, <1>5, <1>6, <1>8, <2>1 DEF Balance
  <1>13. Reg(main', conn_arena', tasks', conn_map', acc, del)
    BY <1>2, <1>3, <1>5, <1>6, <1>9, <1>10, <1>11, <1>12, LocalReg
  <1>14. Idle(main', Clients)
    BY <1>2, <1>5, <1>7 DEF Idle
  <1> QED BY <1>13, <1>14

\* The fields of a Conn after each operation on it.
LEMMA TakenFields ==
  ASSUME NEW k, IsConn(k)
  PROVE  Taken(k) = [write |-> Nil, io_buffer |-> k.swap_buffer, swap_buffer |-> Nil,
                     channel_count |-> k.channel_count, canceled |-> k.canceled]
  <1>1. PICK r : r = [k EXCEPT !.write = Nil, !.io_buffer = k.swap_buffer,
                               !.swap_buffer = Nil]
    OBVIOUS
  <1>2. r = [write |-> Nil, io_buffer |-> k.swap_buffer, swap_buffer |-> Nil,
             channel_count |-> k.channel_count, canceled |-> k.canceled]
    BY <1>1 DEF IsConn
  <1> QED BY <1>1, <1>2 DEF Taken

LEMMA RestitutedFields ==
  ASSUME NEW k, IsConn(k), NEW c
  PROVE  Restituted(k, c) = [write |-> c, io_buffer |-> k.io_buffer, swap_buffer |-> <<>>,
                             channel_count |-> k.channel_count, canceled |-> k.canceled]
  <1>1. PICK r : r = [k EXCEPT !.write = c, !.swap_buffer = <<>>]
    OBVIOUS
  <1>2. r = [write |-> c, io_buffer |-> k.io_buffer, swap_buffer |-> <<>>,
             channel_count |-> k.channel_count, canceled |-> k.canceled]
    BY <1>1 DEF IsConn
  <1> QED BY <1>1, <1>2 DEF Restituted

LEMMA BufferedFields ==
  ASSUME NEW k, IsConn(k), NEW b
  PROVE  [k EXCEPT !.io_buffer = b]
           = [write |-> k.write, io_buffer |-> b, swap_buffer |-> k.swap_buffer,
              channel_count |-> k.channel_count, canceled |-> k.canceled]
  BY DEF IsConn

LEMMA SendPubSubReg ==
  ASSUME NEW c \in Clients, NEW m, NEW ar, NEW map, NEW ts, NEW n, NEW acc, NEW del,
         main = [d \in Clients |-> main[d]],
         Inv([main EXCEPT ![c] = m], ar, ts, n),
         Reg([main EXCEPT ![c] = m], ar, ts, map, acc, del),
         Idle(main, Clients \ {c}), m.pc = "read", m.frames # <<>>,
         m.flush # {} => m.conn_state = "Normal",
         SendPubSub(c, m, ar, map, ts)
  PROVE  Reg(main', conn_arena', tasks', conn_map', acc, del) /\ Idle(main', Clients)
  <1> USE NilIsNoClient
  <1>1. PICK W : W = [main EXCEPT ![c] = m]
    OBVIOUS
  <1>2. /\ Shape(W, ar) /\ Own(W, ar, ts, n) /\ Reg(W, ar, ts, map, acc, del)
        /\ W[c] = m /\ \A d \in Clients : d # c => W[d] = main[d]
    BY <1>1, WithMain DEF Inv
  <1>3. /\ IsMain(m) /\ MainBuffers(m) /\ MapShape(map) /\ Listing(W, ar, map)
        /\ Balance(c, m, ar, ts, acc[c], del[c]) /\ del[c] \in Seq(Nat)
    BY <1>2 DEF Shape, Reg, Buffers, Balanced
  <1>4. PICK s, k : s = m.sub_id /\ k = ar[m.sub_id]
    OBVIOUS
  <1>5. /\ m.conn_state = "PubSub" /\ k.write # Nil
        /\ conn_arena' = [ar EXCEPT ![s] = Taken(k)] /\ conn_map' = map /\ tasks' = ts
    BY <1>4 DEF SendPubSub, Writable
  <1>6. s \in DOMAIN ar /\ m.flush = {} /\ m.buffer = <<>>
    BY <1>2, <1>3, <1>4, <1>5 DEF Own, MainOwn, MainBuffers
  <1>7. k.write = c /\ \A t \in ts : t.write # c
    <2>1. /\ k.write \in Clients /\ W[k.write].sub_id = s /\ \A t \in ts : t.write # k.write
      BY <1>2, <1>4, <1>5, <1>6 DEF Own
    <2> QED BY <1>2, <1>4, <1>6, <2>1 DEF Own
  <1>8. IsConn(k) /\ k.io_buffer \in Seq(Nat) /\ k.swap_buffer = <<>>
    BY <1>2, <1>4, <1>5, <1>6 DEF Shape, Reg, Buffers, ConnBuffers
  <1>9. PICK r : r = [m EXCEPT !.pc = "pubsub_write", !.conn_state = "None",
                               !.buffer = Append(k.io_buffer, Head(m.frames)), !.frames = Tail(@)]
    OBVIOUS
  <1>10. r = [pc |-> "pubsub_write", conn_state |-> "None", sub_id |-> s,
              buffer |-> Append(k.io_buffer, Head(m.frames)), frames |-> Tail(m.frames),
              flush |-> {}, quit |-> m.quit]
    BY <1>3, <1>4, <1>6, <1>9 DEF IsMain
  <1>11. main' = [main EXCEPT ![c] = r]
    BY <1>4, <1>9 DEF SendPubSub
  <1>12. main' = [d \in Clients |-> IF d = c THEN r ELSE W[d]]
    BY <1>2, <1>11, WithMain
  <1>13. /\ MainBuffers(r)
         /\ \A x \in Messages : Copies(r.buffer, x) = Copies(k.io_buffer, x)
    BY <1>3, <1>8, <1>10, AppendReply DEF MainBuffers
  <1>14. PICK k2 : k2 = Taken(k)
    OBVIOUS
  <1>15. /\ k2.write = Nil /\ k2.io_buffer = <<>> /\ k2.swap_buffer = Nil
         /\ k2.channel_count = k.channel_count
    BY <1>8, <1>14, TakenFields
  <1>16. /\ DOMAIN conn_arena' = DOMAIN ar /\ conn_arena'[s] = k2
         /\ \A x \in DOMAIN ar : x # s => conn_arena'[x] = ar[x]
    BY <1>5, <1>6, <1>14
  <1>17. ConnBuffers(k2)
    BY <1>15 DEF ConnBuffers
  <1>18. r.sub_id = s /\ r.flush = {} /\ r.pc = "pubsub_write"
    BY <1>10
  <1>19. Local(c, W, ar, ts, r, main', conn_arena', tasks')
    <2>1. \A t \in ts : t.buffer \in Seq(Nat)
      BY <1>2 DEF Reg, Buffers
    <2> QED BY <1>2, <1>4, <1>5, <1>6, <1>12, <1>13, <1>15, <1>16, <1>17, <1>18, <2>1 DEF Local
  <1>20. Listing(main', conn_arena', conn_map')
    <2>1. /\ conn_arena'[r.sub_id].channel_count = ar[r.sub_id].channel_count
          /\ W[c].conn_state = "PubSub" /\ Own(W, ar, ts, n)
      BY <1>2, <1>4, <1>5, <1>15, <1>16, <1>18
    <2>2. Listing(main', conn_arena', map)
      BY <1>3, <1>19, <2>1, SameListing
    <2> QED BY <1>5, <2>2
  <1>21. Balance(c, r, conn_arena', tasks', acc[c], del[c])
    <2>1. HeldIn(c, m, ar, ts) /\ m.pc # "closed"
      BY <1>4, <1>6, <1>7 DEF HeldIn
    <2>2. ASSUME NEW x \in Messages
          PROVE  Copies(r.buffer, x) + TaskCopies(tasks', c, x) + ConnCopies(conn_arena', r.sub_id, x)
                   = Copies(m.buffer, x) + TaskCopies(ts, c, x) + ConnCopies(ar, m.sub_id, x)
      <3>1. ConnCopies(conn_arena', r.sub_id, x) = 0 /\ Copies(m.buffer, x) = 0
        BY <1>6, <1>15, <1>16, <1>18, CopiesEmpty DEF ConnCopies
      <3>2. ConnCopies(ar, m.sub_id, x) = Copies(k.io_buffer, x)
        BY <1>4, <1>6 DEF ConnCopies
      <3>3. Copies(k.io_buffer, x) \in Nat /\ TaskCopies(ts, c, x) = 0
        BY <1>7, <1>8, CopiesNat, TaskCopiesNone
      <3> QED BY <1>5, <1>13, <3>1, <3>2, <3>3
    <2> QED BY <1>3, <2>1, <2>2, SameBalance
  <1>22. Reg(main', conn_arena', tasks', conn_map', acc, del)
    <2>1. conn_arena'[r.sub_id].io_buffer = <<>> /\ MapShape(conn_map')
      BY <1>3, <1>5, <1>15, <1>16, <1>18
    <2> QED BY <1>2, <1>3, <1>19, <1>20, <1>21, <2>1, LocalReg
  <1>23. Idle(main', Clients)
    BY <1>2, <1>12, <1>18 DEF Idle
  <1> QED BY <1>22, <1>23

LEMMA SendQueuedReg ==
  ASSUME NEW c \in Clients, NEW m, NEW ar, NEW map, NEW ts, NEW n, NEW acc, NEW del,
         main = [d \in Clients |-> main[d]],
         Inv([main EXCEPT ![c] = m], ar, ts, n),
         Reg([main EXCEPT ![c] = m], ar, ts, map, acc, del),
         Idle(main, Clients \ {c}), m.pc = "read",
         m.flush # {} => m.conn_state = "Normal",
         SendQueued(c, m, ar, map, ts)
  PROVE  Reg(main', conn_arena', tasks', conn_map', acc, del) /\ Idle(main', Clients)
  <1> USE NilIsNoClient
  <1>1. PICK W : W = [main EXCEPT ![c] = m]
    OBVIOUS
  <1>2. /\ Shape(W, ar) /\ Own(W, ar, ts, n) /\ Reg(W, ar, ts, map, acc, del)
        /\ W[c] = m /\ \A d \in Clients : d # c => W[d] = main[d]
    BY <1>1, WithMain DEF Inv
  <1>3. /\ IsMain(m) /\ MainBuffers(m) /\ MapShape(map) /\ Listing(W, ar, map)
        /\ Balance(c, m, ar, ts, acc[c], del[c]) /\ del[c] \in Seq(Nat)
    BY <1>2 DEF Shape, Reg, Buffers, Balanced
  <1>4. PICK s, k : s = m.sub_id /\ k = ar[m.sub_id]
    OBVIOUS
  <1>5. m.conn_state = "PubSub" /\ ~Writable(k)
    BY <1>4 DEF SendQueued
  <1>6. s \in DOMAIN ar /\ m.flush = {} /\ m.buffer = <<>>
    BY <1>2, <1>3, <1>4, <1>5 DEF Own, MainOwn, MainBuffers
  <1>7. IsConn(k) /\ ConnBuffers(k) /\ k.io_buffer \in Seq(Nat) /\ k.write = Nil
    <2>1. IsConn(k) /\ ConnBuffers(k)
      BY <1>2, <1>4, <1>6 DEF Shape, Reg, Buffers
    <2>2. k.write = Nil
      BY <1>5, <2>1, PubSubAssumption DEF ConnBuffers, Writable
    <2> QED BY <2>1, <2>2 DEF ConnBuffers
  <1>8. PICK r, b : r = [m EXCEPT !.frames = <<>>] /\ b = k.io_buffer \o m.frames
    OBVIOUS
  <1>9. r = [pc |-> "read", conn_state |-> "PubSub", sub_id |-> s, buffer |-> <<>>,
             frames |-> <<>>, flush |-> {}, quit |-> m.quit]
    BY <1>3, <1>4, <1>5, <1>6, <1>8 DEF IsMain
  <1>10. IsMain(r) /\ MainBuffers(r) /\ r.flush = {} /\ r.pc = "read" /\ r.sub_id = s
         /\ r.conn_state = "PubSub" /\ r.buffer = <<>>
    BY <1>9 DEF IsMain, MainBuffers
  <1>11. b \in Seq(Nat) /\ \A x \in Messages : Copies(b, x) = Copies(k.io_buffer, x)
    <2>1. m.frames \in Seq({Reply}) /\ m.frames \in Seq(Nat)
      BY <1>3, RepliesAreFrames DEF MainBuffers
    <2>2. ASSUME NEW x \in Messages PROVE Copies(b, x) = Copies(k.io_buffer, x)
      <3>1. Copies(b, x) = Copies(k.io_buffer, x) + Copies(m.frames, x)
        BY <1>7, <1>8, <2>1, CopiesConcat
      <3>2. Copies(m.frames, x) = 0 /\ Copies(k.io_buffer, x) \in Nat
        BY <1>7, <2>1, CopiesOfReplies, CopiesNat
      <3> QED BY <3>1, <3>2
    <2> QED BY <1>7, <1>8, <2>1, <2>2
  <1>12. PICK k2 : k2 = [k EXCEPT !.io_buffer = b]
    OBVIOUS
  <1>13. /\ k2.write = Nil /\ k2.io_buffer = b /\ k2.swap_buffer = k.swap_buffer
         /\ k2.channel_count = k.channel_count /\ k2.canceled = k.canceled /\ IsConn(k2)
    BY <1>7, <1>12, BufferedFields DEF IsConn
  <1>14. PICK ar2 : ar2 = [ar EXCEPT ![s] = k2]
    OBVIOUS
  <1>15. Return(c, r, ar2, map, ts)
    BY <1>4, <1>8, <1>12, <1>14 DEF SendQueued
  <1>16. /\ DOMAIN ar2 = DOMAIN ar /\ ar2[s] = k2
         /\ \A x \in DOMAIN ar : x # s => ar2[x] = ar[x]
         /\ ar2 = [x \in DOMAIN ar2 |-> ar2[x]]
    BY <1>6, <1>14
  <1>17. PICK W2 : W2 = [main EXCEPT ![c] = r]
    OBVIOUS
  <1>18. W2 = [d \in Clients |-> IF d = c THEN r ELSE W[d]]
    BY <1>2, <1>17, WithMain
  <1>19. Inv(W2, ar2, ts, n)
    <2>1. Shape(W2, ar2)
      BY <1>2, <1>10, <1>13, <1>16, <1>18 DEF Shape
    <2> QED BY <1>2, <1>4, <1>5, <1>7, <1>10, <1>13, <1>16, <1>18, <2>1, SameInv DEF Inv
  <1>20. ConnBuffers(k2)
    BY <1>7, <1>11, <1>13 DEF ConnBuffers
  <1>21. Local(c, W, ar, ts, r, W2, ar2, ts)
    <2>1. \A t \in ts : t.buffer \in Seq(Nat)
      BY <1>2 DEF Reg, Buffers
    <2> QED BY <1>2, <1>4, <1>6, <1>10, <1>13, <1>16, <1>18, <1>20, <2>1 DEF Local
  <1>22. Listing(W2, ar2, map)
    <2>1. /\ ar2[r.sub_id].channel_count = ar[r.sub_id].channel_count
          /\ W[c].conn_state = "PubSub" /\ Own(W, ar, ts, n)
      BY <1>2, <1>4, <1>5, <1>10, <1>13, <1>16
    <2> QED BY <1>3, <1>21, <2>1, SameListing
  <1>23. Attended(W2, ar2, ts, r.sub_id)
    <2>1. ~Holding(m) /\ m.pc # "closed"
      BY <1>5 DEF Holding
    <2>2. (\E t \in ts : t.write = c) \/ k.canceled
      BY <1>2, <1>4, <1>7, <2>1 DEF Own
    <2>3. \A t \in ts : t.write = c => t.sub_id = s
      BY <1>2, <1>4 DEF Own
    <2> QED BY <1>10, <1>13, <1>16, <2>2, <2>3 DEF Attended
  <1>24. Balance(c, r, ar2, ts, acc[c], del[c])
    <2>1. HeldIn(c, r, ar2, ts) => HeldIn(c, m, ar, ts) /\ m.pc # "closed"
      BY <1>4, <1>5, <1>6, <1>7, <1>10, <1>13, <1>16 DEF HeldIn, Holding
    <2>2. \A x \in Messages : ConnCopies(ar2, r.sub_id, x) = ConnCopies(ar, m.sub_id, x)
      BY <1>4, <1>6, <1>10, <1>11, <1>13, <1>16 DEF ConnCopies
    <2> QED BY <1>3, <1>6, <1>10, <2>1, <2>2, SameBalance
  <1>25. Reg(W2, ar2, ts, map, acc, del)
    BY <1>2, <1>3, <1>21, <1>22, <1>23, <1>24, LocalReg
  <1> QED BY <1>10, <1>15, <1>17, <1>19, <1>25, ReturnReg

LEMMA SendReg ==
  ASSUME NEW c \in Clients, NEW m, NEW ar, NEW map, NEW ts, NEW n, NEW acc, NEW del,
         main = [d \in Clients |-> main[d]],
         Inv([main EXCEPT ![c] = m], ar, ts, n),
         Reg([main EXCEPT ![c] = m], ar, ts, map, acc, del),
         Idle(main, Clients \ {c}), m.pc = "read", m.frames # <<>>,
         m.flush # {} => m.conn_state = "Normal",
         Send(c, m, ar, map, ts)
  PROVE  Reg(main', conn_arena', tasks', conn_map', acc, del) /\ Idle(main', Clients)
  BY SendNormalReg, SendPubSubReg, SendQueuedReg DEF Send

LEMMA FlushReg ==
  ASSUME NEW c \in Clients, NEW m, NEW ar, NEW map, NEW ts, NEW n, NEW acc, NEW del,
         main = [d \in Clients |-> main[d]],
         Inv([main EXCEPT ![c] = m], ar, ts, n),
         Reg([main EXCEPT ![c] = m], ar, ts, map, acc, del),
         Idle(main, Clients \ {c}), m.pc = "read",
         FlushAndReturn(c, m, ar, map, ts)
  PROVE  Reg(main', conn_arena', tasks', conn_map', acc, del) /\ Idle(main', Clients)
  <1> USE NilIsNoClient
  <1>1. PICK W : W = [main EXCEPT ![c] = m]
    OBVIOUS
  <1>2. /\ Shape(W, ar) /\ Own(W, ar, ts, n) /\ Reg(W, ar, ts, map, acc, del)
        /\ W[c] = m /\ \A d \in Clients : d # c => W[d] = main[d]
    BY <1>1, WithMain DEF Inv
  <1>3. PICK ready, r, W2, ar2, ts2 : Triggered(c, W, ar, ts, ready, r, W2, ar2, ts2)
    BY DEF Triggered
  <1>4. Return(c, r, ar2, map, ts2)
    BY <1>2, <1>3 DEF FlushAndReturn, Triggered
  <1>5. Inv(W2, ar2, ts2, n) /\ r.pc = "read"
    BY <1>2, <1>3, TriggeredInv DEF Inv
  <1>6. W2 = [main EXCEPT ![c] = r]
    BY <1>2, <1>3, WithMain DEF Triggered
  <1>7. W2 = [d \in Clients |-> IF d = c THEN r ELSE W[d]]
    BY <1>3 DEF Triggered
  <1>8. /\ r.flush = {} /\ r.pc = m.pc /\ r.conn_state = m.conn_state /\ r.sub_id = m.sub_id
        /\ r.buffer = m.buffer /\ r.frames = m.frames
    <2>1. IsMain(m)
      BY <1>2 DEF Shape
    <2>2. r = [m EXCEPT !.flush = {}]
      BY <1>2, <1>3 DEF Triggered
    <2> QED BY <2>1, <2>2 DEF IsMain
  <1>9. \A d \in Clients : /\ W2[d].pc = W[d].pc /\ W2[d].conn_state = W[d].conn_state
                           /\ W2[d].sub_id = W[d].sub_id /\ W2[d].buffer = W[d].buffer
                           /\ W2[d].frames = W[d].frames
    BY <1>2, <1>7, <1>8
  <1>10. /\ ready \subseteq DOMAIN ar /\ \A s \in ready : ar[s].write # Nil
         /\ \A s \in m.flush \cap DOMAIN ar : s \notin ready => ar[s].write = Nil
    <2>1. \A s \in DOMAIN ar : ConnBuffers(ar[s])
      BY <1>2 DEF Reg, Buffers
    <2> QED BY <1>2, <1>3, <2>1, PubSubAssumption DEF Triggered, Writable, ConnBuffers
  <1>11. \A s \in ready : /\ ar2[s].write = Nil /\ ar2[s].io_buffer = <<>>
                          /\ ar2[s].swap_buffer = Nil
                          /\ ar2[s].channel_count = ar[s].channel_count
    <2>1. ASSUME NEW s \in ready
          PROVE  ar2[s] = Taken(ar[s]) /\ IsConn(ar[s]) /\ ar[s].swap_buffer = <<>>
      BY <1>2, <1>3, <1>10 DEF Triggered, Shape, Reg, Buffers, ConnBuffers
    <2> QED BY <2>1, TakenFields
  <1>12. DOMAIN ar2 = DOMAIN ar /\ \A s \in DOMAIN ar : s \notin ready => ar2[s] = ar[s]
    BY <1>3 DEF Triggered
  <1>13. PICK new : /\ new = {WriteTask(s, ar[s].write, "spawned", ar[s].io_buffer) : s \in ready}
                    /\ ts2 = ts \cup new
    BY <1>3 DEF Triggered
  <1>14. /\ \A u \in new : /\ u.sub_id \in ready /\ u.write = ar[u.sub_id].write
                            /\ u.buffer = ar[u.sub_id].io_buffer
         /\ \A s \in ready : \E u \in new : u.sub_id = s
    <2>2. \A s, w, b : /\ WriteTask(s, w, "spawned", b).sub_id = s
                       /\ WriteTask(s, w, "spawned", b).write = w
                       /\ WriteTask(s, w, "spawned", b).buffer = b
      BY DEF WriteTask
    <2> QED BY <1>13, <2>2
  <1>15. Buffers(W2, ar2, ts2)
    <2>1. \A d \in Clients : MainBuffers(W2[d])
      BY <1>2, <1>9 DEF Reg, Buffers, MainBuffers
    <2>2. ASSUME NEW s \in DOMAIN ar2 PROVE ConnBuffers(ar2[s])
      <3>1. CASE s \in ready
        <4>1. PICK k : k = ar2[s]
          OBVIOUS
        <4>2. k.write = Nil /\ k.io_buffer = <<>> /\ k.swap_buffer = Nil
          BY <1>11, <3>1, <4>1
        <4>3. ConnBuffers(k)
          BY <4>2 DEF ConnBuffers
        <4> QED BY <4>1, <4>3
      <3>2. CASE s \notin ready
        BY <1>2, <1>12, <3>2 DEF Reg, Buffers
      <3> QED BY <3>1, <3>2
    <2>3. \A t \in ts2 : t.buffer \in Seq(Nat)
      <3>1. ASSUME NEW u \in new PROVE u.buffer \in Seq(Nat)
        <4>1. u.sub_id \in DOMAIN ar /\ u.buffer = ar[u.sub_id].io_buffer
          BY <1>10, <1>14
        <4> QED BY <1>2, <4>1 DEF Reg, Buffers, ConnBuffers
      <3>2. \A t \in ts : t.buffer \in Seq(Nat)
        BY <1>2 DEF Reg, Buffers
      <3> QED BY <1>13, <3>1, <3>2
    <2> QED BY <2>1, <2>2, <2>3 DEF Buffers
  <1>16. Filed(W2, ar2)
    BY <1>2, <1>9, <1>12 DEF Reg, Filed
  <1>17. Unstranded(W2, ar2, ts2)
    <2>1. ASSUME ~SendMayFail, NEW s \in DOMAIN ar2, ar2[s].io_buffer # <<>>
          PROVE  Attended(W2, ar2, ts2, s)
      <3>1. s \notin ready /\ s \in DOMAIN ar /\ ar2[s] = ar[s]
        BY <1>11, <1>12, <2>1
      <3>2. Attended(W, ar, ts, s)
        BY <1>2, <2>1, <3>1 DEF Reg, Unstranded
      <3>3. CASE s \in m.flush
        <4>1. ar[s].write = Nil
          BY <1>10, <3>1, <3>3
        <4>2. PICK d \in Clients : W[d].sub_id = s /\ W[d].pc # "closed"
          BY <1>2, <2>1, <3>1 DEF Reg, Filed
        <4>3. Holding(W[d]) => W[d].pc = "pubsub_write"
          BY <1>2, <3>1, <4>2 DEF Own, MainOwn, Holding
        <4>4. \/ W[d].pc = "pubsub_write" \/ ar[s].canceled
              \/ \E t \in ts : t.write = d
          BY <1>2, <4>1, <4>2, <4>3 DEF Own
        <4>5. \A t \in ts : t.write = d => t.sub_id = s
          BY <1>2, <4>2 DEF Own
        <4> QED BY <1>9, <1>13, <3>1, <4>2, <4>4, <4>5 DEF Attended
      <3>4. CASE s \notin m.flush
        BY <1>2, <1>7, <1>9, <1>13, <3>1, <3>2, <3>4 DEF Attended
      <3> QED BY <3>3, <3>4
    <2> QED BY <2>1 DEF Unstranded
  <1>18. Listing(W2, ar2, map)
    <2>1. \A s \in DOMAIN ar : ar2[s].channel_count = ar[s].channel_count
      BY <1>11, <1>12
    <2>2. \A d \in Clients : W[d].conn_state = "PubSub" \/ W[d].pc = "pubsub_write" =>
            W[d].sub_id \in DOMAIN ar
      BY <1>2 DEF Own, MainOwn
    <2>3. Listing(W, ar, map)
      BY <1>2 DEF Reg
    <2> QED BY <1>9, <1>12, <2>1, <2>2, <2>3 DEF Listing
  <1>19. ASSUME NEW d \in Clients PROVE Balance(d, W2[d], ar2, ts2, acc[d], del[d])
    <2>1. Balance(d, W[d], ar, ts, acc[d], del[d])
      BY <1>2 DEF Reg, Balanced
    <2>2. \A u \in new : u.write \in Clients /\ W[u.write].sub_id = u.sub_id
                         /\ \A t \in ts : t.write # u.write
      BY <1>2, <1>10, <1>14 DEF Own
    <2>3. HeldIn(d, W2[d], ar2, ts2) => HeldIn(d, W[d], ar, ts)
      <3>1. \A s \in DOMAIN ar2 : ar2[s].write = d => ar[s].write = d
        BY <1>11, <1>12
      <3>2. Holding(W2[d]) => Holding(W[d])
        BY <1>9 DEF Holding
      <3> QED BY <1>10, <1>12, <1>14, <1>13, <3>1, <3>2, SMTT(30) DEF HeldIn
    <2>4. CASE W[d].sub_id \in ready
      <3>1. PICK u \in new : u.sub_id = W[d].sub_id
        BY <1>14, <2>4
      <3>2. u.write = d
        BY <1>2, <1>10, <2>2, <2>4, <3>1 DEF Own
      <3>3. (\A t \in ts : t.write # d) /\ \A v \in ts2 : v.write = u.write => v = u
        <4>1. Own(W2, ar2, ts2, n)
          BY <1>5 DEF Inv
        <4>2. u \in ts2
          BY <1>13
        <4>3. \A v \in ts2 : v.write = u.write => v = u
          BY <4>1, <4>2 DEF Own
        <4> QED BY <2>2, <3>2, <4>3
      <3>4. u.buffer = ar[W[d].sub_id].io_buffer /\ u.buffer \in Seq(Nat)
        BY <1>14, <1>15, <1>13, <3>1 DEF Buffers
      <3>5. ASSUME NEW x \in Messages
            PROVE  /\ TaskCopies(ts2, d, x) = Copies(u.buffer, x)
                   /\ TaskCopies(ts, d, x) = 0
                   /\ ConnCopies(ar2, W2[d].sub_id, x) = 0
                   /\ ConnCopies(ar, W[d].sub_id, x) = Copies(u.buffer, x)
                   /\ Copies(u.buffer, x) \in Nat
        <4>1. TaskCopies(ts2, u.write, x) = Copies(u.buffer, x)
          <5>1. u \in ts2
            BY <1>13
          <5> QED BY <3>3, <3>4, <5>1, TaskCopiesOne
        <4>2. TaskCopies(ts, d, x) = 0
          BY <3>3, TaskCopiesNone
        <4>3. ConnCopies(ar2, W2[d].sub_id, x) = 0
          BY <1>9, <1>10, <1>11, <1>12, <2>4, CopiesEmpty DEF ConnCopies
        <4>4. ConnCopies(ar, W[d].sub_id, x) = Copies(u.buffer, x)
          BY <1>10, <2>4, <3>4 DEF ConnCopies
        <4> QED BY <3>2, <3>4, <4>1, <4>2, <4>3, <4>4, CopiesNat
      <3>6. ASSUME NEW x \in Messages
            PROVE  Copies(W2[d].buffer, x) + TaskCopies(ts2, d, x) + ConnCopies(ar2, W2[d].sub_id, x)
                     = Copies(W[d].buffer, x) + TaskCopies(ts, d, x) + ConnCopies(ar, W[d].sub_id, x)
        <4>1. Copies(W[d].buffer, x) \in Nat
          BY <1>2, CopiesNat DEF Reg, Buffers, MainBuffers
        <4>2. W2[d].buffer = W[d].buffer
          BY <1>9
        <4> QED BY <3>5, <4>1, <4>2
      <3>7. W2[d].pc = W[d].pc
        BY <1>9
      <3> QED BY <2>1, <2>3, <3>6, <3>7, SameBalance
    <2>5. CASE W[d].sub_id \notin ready
      <3>1. \A u \in new : u.write # d
        BY <1>14, <2>2, <2>5
      <3>2. \A x : TaskCopies(ts2, d, x) = TaskCopies(ts, d, x)
        BY <1>13, <3>1, TaskCopiesSame
      <3>3. \A x : ConnCopies(ar2, W2[d].sub_id, x) = ConnCopies(ar, W[d].sub_id, x)
        BY <1>9, <1>12, <2>5 DEF ConnCopies
      <3>4. W2[d].pc = W[d].pc /\ W2[d].buffer = W[d].buffer
        BY <1>9
      <3>5. \A x \in Messages :
              Copies(W2[d].buffer, x) + TaskCopies(ts2, d, x) + ConnCopies(ar2, W2[d].sub_id, x)
                = Copies(W[d].buffer, x) + TaskCopies(ts, d, x) + ConnCopies(ar, W[d].sub_id, x)
        BY <3>2, <3>3, <3>4
      <3> QED BY <2>1, <2>3, <3>4, <3>5, SameBalance
    <2> QED BY <2>4, <2>5
  <1>20. Reg(W2, ar2, ts2, map, acc, del)
    BY <1>2, <1>15, <1>16, <1>17, <1>18, <1>19 DEF Reg, Balanced
  <1> QED BY <1>4, <1>5, <1>6, <1>8, <1>20, ReturnReg

LEMMA ContinueReg ==
  ASSUME NEW c \in Clients, NEW m, NEW ar, NEW map, NEW ts, NEW n, NEW acc, NEW del,
         main = [d \in Clients |-> main[d]],
         Inv([main EXCEPT ![c] = m], ar, ts, n),
         Reg([main EXCEPT ![c] = m], ar, ts, map, acc, del),
         Idle(main, Clients \ {c}), m.pc = "read",
         m.flush # {} => m.conn_state = "Normal",
         Continue(c, m, ar, map, ts)
  PROVE  Reg(main', conn_arena', tasks', conn_map', acc, del) /\ Idle(main', Clients)
  BY SendReg, FlushReg DEF Continue

-----------------------------------------------------------------------------
(* The steps of a task.                                                    *)

\* A step of task t concerns the Conn s and the connection c whose write half
\* t has.  What the task held, what the Conn holds and what was received add
\* up as before.
TaskChange(t, s, c, A2, T2, del2) ==
  /\ s = t.sub_id /\ c = t.write
  /\ DOMAIN A2 = DOMAIN conn_arena
  /\ \A x \in DOMAIN conn_arena : x # s => A2[x] = conn_arena[x]
  /\ s \in DOMAIN conn_arena =>
       /\ ConnBuffers(A2[s]) /\ A2[s].write \in {Nil, c}
       /\ A2[s].channel_count = conn_arena[s].channel_count
       /\ A2[s].io_buffer # <<>> => A2[s].canceled \/ \E v \in T2 : v.sub_id = s
  /\ \A v : v.write # c => (v \in T2 <=> v \in tasks)
  /\ \A v \in T2 : v.buffer \in Seq(Nat)
  /\ \A d \in Clients : d # c => del2[d] = delivered[d]
  /\ del2[c] \in Seq(Nat)
  /\ s \in DOMAIN conn_arena /\ HeldIn(c, main[c], A2, T2) =>
       \A x \in Messages :
         /\ TaskCopies(T2, c, x) \in Nat
         /\ Copies(del2[c], x) + TaskCopies(T2, c, x) + Copies(A2[s].io_buffer, x)
              = Copies(delivered[c], x) + Copies(t.buffer, x)
                  + Copies(conn_arena[s].io_buffer, x)

LEMMA TaskLocal ==
  ASSUME RegInv, NEW t \in tasks, NEW s, NEW c, NEW A2, NEW T2, NEW del2,
         TaskChange(t, s, c, A2, T2, del2)
  PROVE  Reg(main, A2, T2, conn_map, accepted, del2)
  <1>1. /\ Own(main, conn_arena, tasks, next_id) /\ Shape(main, conn_arena)
        /\ Reg(main, conn_arena, tasks, conn_map, accepted, delivered)
    BY DEF RegInv, CurrentInv, Inv
  <1>2. /\ c \in Clients /\ main[c].sub_id = s
        /\ s \in DOMAIN conn_arena \/ main[c].pc = "closed"
        /\ \A v \in tasks : v.write = t.write => v = t
        /\ s = t.sub_id /\ c = t.write
    BY <1>1 DEF Own, TaskChange
  <1>3. main = [d \in Clients |-> IF d = c THEN main[c] ELSE main[d]]
    BY <1>1 DEF Shape
  <1>4. /\ MapShape(conn_map) /\ Listing(main, conn_arena, conn_map)
        /\ MainBuffers(main[c]) /\ t.buffer \in Seq(Nat)
        /\ Balance(c, main[c], conn_arena, tasks, accepted[c], delivered[c])
        /\ delivered[c] \in Seq(Nat)
    BY <1>1, <1>2 DEF Reg, Buffers, Balanced
  <1>5. Local(c, main, conn_arena, tasks, main[c], main, A2, T2)
    BY <1>2, <1>3, <1>4 DEF Local, TaskChange
  <1>6. Listing(main, A2, conn_map)
    BY <1>1, <1>2, <1>4, <1>5, SameListing DEF TaskChange
  <1>7. Balance(c, main[c], A2, T2, accepted[c], del2[c])
    <2>1. ASSUME main[c].pc # "closed", HeldIn(c, main[c], A2, T2), NEW x \in Messages
          PROVE  Copies(accepted[c], x)
                   = Copies(del2[c], x) + (Copies(main[c].buffer, x) + TaskCopies(T2, c, x)
                                             + ConnCopies(A2, main[c].sub_id, x))
      <3>1. s \in DOMAIN conn_arena /\ HeldIn(c, main[c], conn_arena, tasks)
        BY <1>2, <2>1 DEF HeldIn
      <3>2. TaskCopies(tasks, c, x) = Copies(t.buffer, x)
        <4>1. TaskCopies(tasks, t.write, x) = Copies(t.buffer, x)
          BY <1>2, <1>4, TaskCopiesOne
        <4> QED BY <1>2, <4>1
      <3>3. /\ ConnCopies(A2, main[c].sub_id, x) = Copies(A2[s].io_buffer, x)
            /\ ConnCopies(conn_arena, main[c].sub_id, x) = Copies(conn_arena[s].io_buffer, x)
        BY <1>2, <3>1 DEF ConnCopies, TaskChange
      <3>4. Copies(accepted[c], x)
              = Copies(delivered[c], x) + (Copies(main[c].buffer, x) + Copies(t.buffer, x)
                                             + Copies(conn_arena[s].io_buffer, x))
        BY <1>4, <2>1, <3>1, <3>2, <3>3 DEF Balance
      <3>5. Copies(del2[c], x) + TaskCopies(T2, c, x) + Copies(A2[s].io_buffer, x)
              = Copies(delivered[c], x) + Copies(t.buffer, x) + Copies(conn_arena[s].io_buffer, x)
        BY <2>1, <3>1 DEF TaskChange
      <3>6. /\ Copies(del2[c], x) \in Nat /\ Copies(delivered[c], x) \in Nat
            /\ Copies(main[c].buffer, x) \in Nat /\ Copies(t.buffer, x) \in Nat
        BY <1>4, CopiesNat DEF MainBuffers, TaskChange
      <3>7. Copies(conn_arena[s].io_buffer, x) \in Nat /\ Copies(A2[s].io_buffer, x) \in Nat
        BY <1>1, <3>1, CopiesNat DEF Reg, Buffers, ConnBuffers, TaskChange
      <3>8. TaskCopies(T2, c, x) \in Nat
        BY <2>1, <3>1 DEF TaskChange
      <3> QED BY <3>3, <3>4, <3>5, <3>6, <3>7, <3>8
    <2> QED BY <2>1 DEF Balance
  <1>8. main[c].sub_id \in DOMAIN conn_arena /\ A2[main[c].sub_id].io_buffer # <<>> =>
          Attended(main, A2, T2, main[c].sub_id)
    BY <1>2 DEF Attended, TaskChange
  <1>9. PICK m : m = main[c]
    OBVIOUS
  <1>10. /\ Local(c, main, conn_arena, tasks, m, main, A2, T2)
         /\ Balance(c, m, A2, T2, accepted[c], del2[c])
         /\ m.sub_id \in DOMAIN conn_arena /\ A2[m.sub_id].io_buffer # <<>> =>
              Attended(main, A2, T2, m.sub_id)
    BY <1>5, <1>7, <1>8, <1>9
  <1>11. /\ c \in Clients /\ MapShape(conn_map) /\ del2[c] \in Seq(Nat)
         /\ \A d \in Clients : d # c => del2[d] = delivered[d]
    BY <1>2, <1>4 DEF TaskChange
  <1> QED BY <1>1, <1>6, <1>10, <1>11, LocalReg

\* The tasks when u takes the place of t.
Replaced(t, u) == (tasks \ {t}) \cup {u}

LEMMA Successor ==
  ASSUME RegInv, NEW t \in tasks, NEW u, u.write = t.write, u.sub_id = t.sub_id,
         u.buffer \in Seq(Nat)
  PROVE  /\ \A v : v.write # t.write => (v \in Replaced(t, u) <=> v \in tasks)
         /\ \A v \in Replaced(t, u) : v.buffer \in Seq(Nat)
         /\ \E v \in Replaced(t, u) : v.sub_id = t.sub_id
         /\ \A x : TaskCopies(Replaced(t, u), t.write, x) = Copies(u.buffer, x)
  <1>1. \A v \in tasks : v.buffer \in Seq(Nat) /\ (v.write = t.write => v = t)
    BY DEF RegInv, CurrentInv, Inv, Own, Reg, Buffers
  <1>2. u \in Replaced(t, u) /\ \A v \in Replaced(t, u) : v.write = u.write => v = u
    BY <1>1 DEF Replaced
  <1>3. \A x : TaskCopies(Replaced(t, u), u.write, x) = Copies(u.buffer, x)
    BY <1>2, TaskCopiesOne
  <1>4. /\ \A v : v.write # t.write => (v \in Replaced(t, u) <=> v \in tasks)
        /\ \A v \in Replaced(t, u) : v.buffer \in Seq(Nat)
    BY <1>1 DEF Replaced
  <1> QED BY <1>2, <1>3, <1>4

LEMMA NoSuccessor ==
  ASSUME RegInv, NEW t \in tasks, NEW T2, T2 = tasks \ {t}
  PROVE  /\ \A v : v.write # t.write => (v \in T2 <=> v \in tasks)
         /\ \A v \in T2 : v.buffer \in Seq(Nat) /\ v.write # t.write
         /\ \A x : TaskCopies(T2, t.write, x) = 0
  <1>1. \A v \in tasks : v.buffer \in Seq(Nat) /\ (v.write = t.write => v = t)
    BY DEF RegInv, CurrentInv, Inv, Own, Reg, Buffers
  <1>2. \A v \in T2 : v.write # t.write
    BY <1>1
  <1>3. \A x : TaskCopies(T2, t.write, x) = 0
    BY <1>2, TaskCopiesNone
  <1> QED BY <1>1, <1>2, <1>3

\* What holds of a task whose Conn is still there.
LEMMA TaskConn ==
  ASSUME RegInv, NEW t \in tasks
  PROVE  /\ t.write \in Clients /\ main[t.write].sub_id = t.sub_id
         /\ t.buffer \in Seq(Nat) /\ delivered[t.write] \in Seq(Nat)
         /\ ~Holding(main[t.write])
         /\ \A x \in DOMAIN conn_arena : conn_arena[x].write # t.write
         /\ t.sub_id \in DOMAIN conn_arena =>
              /\ IsConn(conn_arena[t.sub_id]) /\ ConnBuffers(conn_arena[t.sub_id])
              /\ conn_arena[t.sub_id].io_buffer \in Seq(Nat)
              /\ conn_arena[t.sub_id].write = Nil
              /\ conn_arena[t.sub_id].swap_buffer = Nil
  <1> USE NilIsNoClient
  <1>1. /\ Own(main, conn_arena, tasks, next_id) /\ Shape(main, conn_arena)
        /\ Buffers(main, conn_arena, tasks)
        /\ Balanced(main, conn_arena, tasks, accepted, delivered)
    BY DEF RegInv, CurrentInv, Inv, Reg
  <1>2. /\ t.write \in Clients /\ main[t.write].sub_id = t.sub_id /\ ~Holding(main[t.write])
        /\ \A x \in DOMAIN conn_arena : conn_arena[x].write # t.write
    BY <1>1 DEF Own
  <1>3. t.buffer \in Seq(Nat) /\ delivered[t.write] \in Seq(Nat)
    BY <1>1, <1>2 DEF Buffers, Balanced
  <1>4. ASSUME t.sub_id \in DOMAIN conn_arena
        PROVE  /\ IsConn(conn_arena[t.sub_id]) /\ ConnBuffers(conn_arena[t.sub_id])
               /\ conn_arena[t.sub_id].write = Nil
    <2>1. t.sub_id # 0
      BY <1>1, <1>4 DEF Own
    <2>2. conn_arena[t.sub_id].write # Nil =>
            /\ conn_arena[t.sub_id].write \in Clients
            /\ main[conn_arena[t.sub_id].write].sub_id = t.sub_id
      BY <1>1, <1>4 DEF Own
    <2>3. conn_arena[t.sub_id].write = Nil
      BY <1>1, <1>2, <1>4, <2>1, <2>2 DEF Own
    <2> QED BY <1>1, <1>4, <2>3 DEF Shape, Buffers
  <1> QED BY <1>2, <1>3, <1>4 DEF ConnBuffers

LEMMA TaskStartReg ==
  ASSUME RegInv, NEW t \in tasks, TaskStart(t)
  PROVE  Reg(main, conn_arena', tasks', conn_map, accepted, delivered)
  <1>1. PICK s, c : s = t.sub_id /\ c = t.write
    OBVIOUS
  <1>2. /\ c \in Clients /\ main[c].sub_id = s
        /\ t.buffer \in Seq(Nat) /\ delivered[c] \in Seq(Nat) /\ t.pc = "spawned"
    BY <1>1, TaskConn DEF TaskStart
  <1>3. CASE s \notin DOMAIN conn_arena
    <2>1. tasks' = tasks \ {t} /\ conn_arena' = conn_arena
      BY <1>1, <1>3 DEF TaskStart
    <2>2. TaskChange(t, s, c, conn_arena', tasks', delivered)
      BY <1>1, <1>2, <1>3, <2>1, NoSuccessor DEF TaskChange
    <2> QED BY <2>2, TaskLocal
  <1>4. CASE s \in DOMAIN conn_arena
    <2>1. PICK k : k = conn_arena[s]
      OBVIOUS
    <2>2. /\ IsConn(k) /\ k.io_buffer \in Seq(Nat) /\ k.write = Nil /\ k.swap_buffer = Nil
      BY <1>1, <1>4, <2>1, TaskConn
    <2>3. PICK k2, ar : k2 = [k EXCEPT !.io_buffer = t.buffer] /\ ar = [conn_arena EXCEPT ![s] = k2]
      OBVIOUS
    <2>4. /\ k2.write = Nil /\ k2.io_buffer = t.buffer /\ k2.swap_buffer = Nil
          /\ k2.channel_count = k.channel_count /\ k2.canceled = k.canceled
          /\ ConnBuffers(k2) /\ IsConn(k2)
      BY <1>2, <2>2, <2>3, BufferedFields DEF ConnBuffers, IsConn
    <2>5. /\ DOMAIN ar = DOMAIN conn_arena /\ ar[s] = k2
          /\ \A x \in DOMAIN conn_arena : x # s => ar[x] = conn_arena[x]
      BY <1>4, <2>3
    <2>6. CASE k.io_buffer # <<>>
      <3>1. PICK u : u = WriteTask(s, c, "writing", k.io_buffer)
        OBVIOUS
      <3>2. tasks' = (tasks \ {t}) \cup {u} /\ conn_arena' = ar
        BY <1>1, <1>4, <2>1, <2>3, <2>6, <3>1 DEF TaskStart
      <3>3. /\ \A v : v.write # c => (v \in tasks' <=> v \in tasks)
            /\ \A v \in tasks' : v.buffer \in Seq(Nat)
            /\ \E v \in tasks' : v.sub_id = s
            /\ \A x : TaskCopies(tasks', c, x) = Copies(k.io_buffer, x)
        <4>1. u.write = t.write /\ u.sub_id = t.sub_id /\ u.buffer = k.io_buffer
          BY <1>1, <3>1 DEF WriteTask
        <4>2. tasks' = Replaced(t, u)
          BY <3>2 DEF Replaced
        <4>3. u.buffer \in Seq(Nat)
          BY <2>2, <4>1
        <4>4. /\ \A v : v.write # t.write => (v \in Replaced(t, u) <=> v \in tasks)
              /\ \A v \in Replaced(t, u) : v.buffer \in Seq(Nat)
              /\ \E v \in Replaced(t, u) : v.sub_id = t.sub_id
              /\ \A x : TaskCopies(Replaced(t, u), t.write, x) = Copies(u.buffer, x)
          BY <4>1, <4>3, Successor
        <4> QED BY <1>1, <4>1, <4>2, <4>4
      <3>4. \A x : Copies(k.io_buffer, x) \in Nat /\ Copies(t.buffer, x) \in Nat
                   /\ Copies(delivered[c], x) \in Nat
        BY <1>2, <2>2, CopiesNat
      <3>5. \A x : /\ TaskCopies(tasks', c, x) \in Nat
                   /\ Copies(delivered[c], x) + TaskCopies(tasks', c, x) + Copies(k2.io_buffer, x)
                        = Copies(delivered[c], x) + Copies(t.buffer, x) + Copies(k.io_buffer, x)
        BY <2>4, <3>3, <3>4
      <3>6. TaskChange(t, s, c, conn_arena', tasks', delivered)
        BY <1>1, <1>2, <2>1, <2>4, <2>5, <3>2, <3>3, <3>5 DEF TaskChange
      <3> QED BY <3>6, TaskLocal
    <2>7. CASE k.io_buffer = <<>> /\ t.buffer # <<>>
      <3>1. PICK u : u = WriteTask(s, c, "spawned", <<>>)
        OBVIOUS
      <3>2. tasks' = (tasks \ {t}) \cup {u} /\ conn_arena' = ar
        BY <1>1, <1>4, <2>1, <2>3, <2>4, <2>5, <2>7, <3>1 DEF TaskStart, TaskEnds
      <3>3. /\ \A v : v.write # c => (v \in tasks' <=> v \in tasks)
            /\ \A v \in tasks' : v.buffer \in Seq(Nat)
            /\ \E v \in tasks' : v.sub_id = s
            /\ \A x : TaskCopies(tasks', c, x) = Copies(<<>>, x)
        <4>1. u.write = t.write /\ u.sub_id = t.sub_id /\ u.buffer = <<>> /\ <<>> \in Seq(Nat)
          BY <1>1, <3>1 DEF WriteTask
        <4>2. tasks' = Replaced(t, u)
          BY <3>2 DEF Replaced
        <4>3. u.buffer \in Seq(Nat)
          BY <4>1
        <4>4. /\ \A v : v.write # t.write => (v \in Replaced(t, u) <=> v \in tasks)
              /\ \A v \in Replaced(t, u) : v.buffer \in Seq(Nat)
              /\ \E v \in Replaced(t, u) : v.sub_id = t.sub_id
              /\ \A x : TaskCopies(Replaced(t, u), t.write, x) = Copies(u.buffer, x)
          BY <4>1, <4>3, Successor
        <4> QED BY <1>1, <4>1, <4>2, <4>4
      <3>4. \A x : Copies(<<>>, x) = 0 /\ Copies(t.buffer, x) \in Nat
                   /\ Copies(delivered[c], x) \in Nat
        BY <1>2, CopiesNat, CopiesEmpty
      <3>5. \A x : /\ TaskCopies(tasks', c, x) \in Nat
                   /\ Copies(delivered[c], x) + TaskCopies(tasks', c, x) + Copies(k2.io_buffer, x)
                        = Copies(delivered[c], x) + Copies(t.buffer, x) + Copies(k.io_buffer, x)
        BY <2>4, <2>7, <3>3, <3>4
      <3>6. TaskChange(t, s, c, conn_arena', tasks', delivered)
        BY <1>1, <1>2, <2>1, <2>4, <2>5, <3>2, <3>3, <3>5 DEF TaskChange
      <3> QED BY <3>6, TaskLocal
    <2>8. CASE k.io_buffer = <<>> /\ t.buffer = <<>>
      <3>1. PICK k3 : k3 = Restituted(k2, c)
        OBVIOUS
      <3>2. /\ k3.write = c /\ k3.io_buffer = <<>> /\ k3.swap_buffer = <<>>
            /\ k3.channel_count = k.channel_count
        BY <2>4, <2>8, <3>1, RestitutedFields
      <3>3. ConnBuffers(k3)
        BY <1>2, <3>2, NilIsNoClient DEF ConnBuffers
      <3>4. tasks' = tasks \ {t} /\ conn_arena' = [ar EXCEPT ![s] = k3]
        BY <1>1, <1>4, <2>1, <2>3, <2>4, <2>5, <2>8, <3>1 DEF TaskStart, TaskEnds
      <3>5. /\ DOMAIN conn_arena' = DOMAIN conn_arena /\ conn_arena'[s] = k3
            /\ \A x \in DOMAIN conn_arena : x # s => conn_arena'[x] = conn_arena[x]
        BY <1>4, <2>3, <3>4
      <3>6. /\ \A v : v.write # c => (v \in tasks' <=> v \in tasks)
            /\ \A v \in tasks' : v.buffer \in Seq(Nat)
            /\ \A x : TaskCopies(tasks', c, x) = 0
        BY <1>1, <3>4, NoSuccessor
      <3>7. \A x : Copies(<<>>, x) = 0 /\ Copies(delivered[c], x) \in Nat
        BY <1>2, CopiesNat, CopiesEmpty
      <3>8. TaskChange(t, s, c, conn_arena', tasks', delivered)
        BY <1>1, <1>2, <2>1, <2>8, <3>2, <3>3, <3>5, <3>6, <3>7 DEF TaskChange
      <3> QED BY <3>8, TaskLocal
    <2> QED BY <2>6, <2>7, <2>8
  <1> QED BY <1>3, <1>4

\* One connection received what was in a buffer.
Gets(f, g, c, b) ==
  /\ f[c] \in Seq(Nat) /\ f = [d \in Clients |-> f[d]]
  /\ g = [f EXCEPT ![c] = f[c] \o b]
Got(f, g, c, b) ==
  /\ g[c] = f[c] \o b /\ g[c] \in Seq(Nat)
  /\ \A d \in Clients : d # c => g[d] = f[d]
  /\ g = [d \in Clients |-> g[d]]
  /\ \A x : /\ Copies(g[c], x) = Copies(f[c], x) + Copies(b, x)
             /\ Copies(f[c], x) \in Nat /\ Copies(b, x) \in Nat

LEMMA ReceivedEffect ==
  ASSUME NEW f, NEW g, NEW c \in Clients, NEW b \in Seq(Nat), Gets(f, g, c, b)
  PROVE  Got(f, g, c, b)
  <1>1. PICK a, e : a = f[c] /\ e = a \o b
    OBVIOUS
  <1>2. e \in Seq(Nat) /\ a \in Seq(Nat)
    BY <1>1 DEF Gets
  <1>3. g[c] = e /\ (\A d \in Clients : d # c => g[d] = f[d]) /\ g = [d \in Clients |-> g[d]]
    BY <1>1 DEF Gets
  <1>4. \A x : Copies(e, x) = Copies(a, x) + Copies(b, x)
    BY <1>1, <1>2, CopiesConcat
  <1>5. \A x : Copies(a, x) \in Nat /\ Copies(b, x) \in Nat
    BY <1>2, CopiesNat
  <1> QED BY <1>1, <1>2, <1>3, <1>4, <1>5 DEF Got

LEMMA TaskWrittenReg ==
  ASSUME RegInv, NEW t \in tasks, TaskWritten(t)
  PROVE  /\ Reg(main, conn_arena', tasks', conn_map, accepted, delivered')
         /\ delivered' = [d \in Clients |-> delivered'[d]]
  <1>1. PICK s, c : s = t.sub_id /\ c = t.write
    OBVIOUS
  <1>2. /\ c \in Clients /\ main[c].sub_id = s
        /\ t.buffer \in Seq(Nat) /\ delivered[c] \in Seq(Nat)
    BY <1>1, TaskConn
  <1>3. /\ delivered = [d \in Clients |-> delivered[d]]
        /\ delivered' = [delivered EXCEPT ![c] = delivered[c] \o t.buffer]
    BY <1>1 DEF TaskWritten, Received, RegInv
  <1>4. /\ delivered'[c] = delivered[c] \o t.buffer /\ delivered'[c] \in Seq(Nat)
        /\ \A d \in Clients : d # c => delivered'[d] = delivered[d]
        /\ delivered' = [d \in Clients |-> delivered'[d]]
        /\ \A x : /\ Copies(delivered'[c], x) = Copies(delivered[c], x) + Copies(t.buffer, x)
                   /\ Copies(delivered[c], x) \in Nat /\ Copies(t.buffer, x) \in Nat
    <2>1. Gets(delivered, delivered', c, t.buffer)
      BY <1>2, <1>3 DEF Gets
    <2>2. Got(delivered, delivered', c, t.buffer)
      BY <1>2, <2>1, ReceivedEffect
    <2> QED BY <2>2 DEF Got
  <1>6. TaskEnds(t, conn_arena, tasks \ {t})
    BY DEF TaskWritten
  <1>7. TaskChange(t, s, c, conn_arena', tasks', delivered')
    <2>1. CASE s \notin DOMAIN conn_arena
      <3>1. tasks' = tasks \ {t} /\ conn_arena' = conn_arena
        BY <1>1, <1>6, <2>1 DEF TaskEnds
      <3> QED BY <1>1, <1>4, <2>1, <3>1, NoSuccessor DEF TaskChange
    <2>2. CASE s \in DOMAIN conn_arena
      <3>1. PICK k : k = conn_arena[s]
        OBVIOUS
      <3>2. /\ IsConn(k) /\ ConnBuffers(k) /\ k.io_buffer \in Seq(Nat)
            /\ k.write = Nil /\ k.swap_buffer = Nil
        BY <1>1, <2>2, <3>1, TaskConn
      <3>3. \A x : Copies(<<>>, x) = 0 /\ Copies(k.io_buffer, x) \in Nat
        BY <3>2, CopiesNat, CopiesEmpty
      <3>4. CASE k.io_buffer # <<>>
        <4>1. PICK u : u = WriteTask(s, c, "spawned", <<>>)
          OBVIOUS
        <4>2. tasks' = Replaced(t, u) /\ conn_arena' = conn_arena
          BY <1>1, <1>6, <2>2, <3>1, <3>4, <4>1 DEF TaskEnds, Replaced
        <4>3. u.write = t.write /\ u.sub_id = t.sub_id /\ u.buffer = <<>> /\ u.buffer \in Seq(Nat)
          BY <1>1, <4>1 DEF WriteTask
        <4>4. /\ \A v : v.write # t.write => (v \in Replaced(t, u) <=> v \in tasks)
              /\ \A v \in Replaced(t, u) : v.buffer \in Seq(Nat)
              /\ \E v \in Replaced(t, u) : v.sub_id = t.sub_id
              /\ \A x : TaskCopies(Replaced(t, u), t.write, x) = Copies(u.buffer, x)
          BY <4>3, Successor
        <4>5. /\ \A v : v.write # c => (v \in tasks' <=> v \in tasks)
              /\ \A v \in tasks' : v.buffer \in Seq(Nat)
              /\ \E v \in tasks' : v.sub_id = s
              /\ \A x : TaskCopies(tasks', c, x) = 0
          BY <1>1, <3>3, <4>2, <4>3, <4>4
        <4>6. \A x : Copies(delivered'[c], x) + TaskCopies(tasks', c, x) + Copies(k.io_buffer, x)
                       = Copies(delivered[c], x) + Copies(t.buffer, x) + Copies(k.io_buffer, x)
          BY <1>4, <3>3, <4>5
        <4> QED BY <1>1, <1>4, <3>1, <3>2, <4>2, <4>5, <4>6 DEF TaskChange
      <3>5. CASE k.io_buffer = <<>>
        <4>1. PICK k2 : k2 = Restituted(k, c)
          OBVIOUS
        <4>2. /\ k2.write = c /\ k2.io_buffer = <<>> /\ k2.swap_buffer = <<>>
              /\ k2.channel_count = k.channel_count
          BY <3>2, <3>5, <4>1, RestitutedFields
        <4>3. ConnBuffers(k2)
          BY <1>2, <4>2, NilIsNoClient DEF ConnBuffers
        <4>4. tasks' = tasks \ {t} /\ conn_arena' = [conn_arena EXCEPT ![s] = k2]
          BY <1>1, <1>6, <2>2, <3>1, <3>5, <4>1 DEF TaskEnds
        <4>5. /\ DOMAIN conn_arena' = DOMAIN conn_arena /\ conn_arena'[s] = k2
              /\ \A x \in DOMAIN conn_arena : x # s => conn_arena'[x] = conn_arena[x]
          BY <2>2, <4>4
        <4>6. /\ \A v : v.write # c => (v \in tasks' <=> v \in tasks)
              /\ \A v \in tasks' : v.buffer \in Seq(Nat)
              /\ \A x : TaskCopies(tasks', c, x) = 0
          BY <1>1, <4>4, NoSuccessor
        <4>7. \A x : Copies(delivered'[c], x) + TaskCopies(tasks', c, x) + Copies(k2.io_buffer, x)
                       = Copies(delivered[c], x) + Copies(t.buffer, x) + Copies(k.io_buffer, x)
          BY <1>4, <3>3, <3>5, <4>2, <4>6
        <4> QED BY <1>1, <1>4, <3>1, <4>2, <4>3, <4>5, <4>6, <4>7 DEF TaskChange
      <3> QED BY <3>4, <3>5
    <2> QED BY <2>1, <2>2
  <1> QED BY <1>4, <1>7, TaskLocal

LEMMA TaskFailedReg ==
  ASSUME RegInv, NEW t \in tasks, TaskFailed(t)
  PROVE  Reg(main, conn_arena', tasks', conn_map, accepted, delivered)
  <1>1. PICK s, c : s = t.sub_id /\ c = t.write
    OBVIOUS
  <1>2. /\ c \in Clients /\ delivered[c] \in Seq(Nat) /\ ~Holding(main[c])
        /\ \A x \in DOMAIN conn_arena : conn_arena[x].write # c
        /\ s \in DOMAIN conn_arena => conn_arena[s].write = Nil
    BY <1>1, TaskConn
  <1>3. /\ \A x \in DOMAIN conn_arena : IsConn(conn_arena[x]) /\ ConnBuffers(conn_arena[x])
        /\ Shape(main, conn_arena)
    BY DEF RegInv, CurrentInv, Inv, Shape, Reg, Buffers
  <1> DEFINE failed == TRUE
  <1>4. conn_arena' = [x \in DOMAIN conn_arena |->
                         IF x = s THEN [conn_arena[x] EXCEPT !.canceled = failed] ELSE conn_arena[x]]
        /\ tasks' = tasks \ {t}
    BY <1>1 DEF TaskFailed
  <1> HIDE DEF failed
  <1>5. /\ DOMAIN conn_arena' = DOMAIN conn_arena
        /\ \A x \in DOMAIN conn_arena : x # s => conn_arena'[x] = conn_arena[x]
    BY <1>4
  <1>6. ASSUME s \in DOMAIN conn_arena
        PROVE  /\ ConnBuffers(conn_arena'[s]) /\ conn_arena'[s].write = Nil
               /\ conn_arena'[s].canceled
               /\ conn_arena'[s].channel_count = conn_arena[s].channel_count
    <2>1. PICK k, k2 : k = conn_arena[s] /\ k2 = [k EXCEPT !.canceled = failed]
      OBVIOUS
    <2>2. k2 = [write |-> k.write, io_buffer |-> k.io_buffer, swap_buffer |-> k.swap_buffer,
                channel_count |-> k.channel_count, canceled |-> failed]
      BY <1>3, <1>6, <2>1 DEF IsConn
    <2>3. conn_arena'[s] = k2
      BY <1>4, <1>6, <2>1
    <2> QED BY <1>2, <1>3, <1>6, <2>1, <2>2, <2>3 DEF ConnBuffers, failed
  <1>9. /\ \A v : v.write # c => (v \in tasks' <=> v \in tasks)
        /\ \A v \in tasks' : v.buffer \in Seq(Nat) /\ v.write # c
    BY <1>1, <1>4, NoSuccessor
  <1>10. ~HeldIn(c, main[c], conn_arena', tasks')
    <2>1. \A x \in DOMAIN conn_arena : conn_arena'[x].write # c
      BY <1>2, <1>5, <1>6, NilIsNoClient
    <2> QED BY <1>2, <1>5, <1>9, <2>1 DEF HeldIn
  <1>11. TaskChange(t, s, c, conn_arena', tasks', delivered)
    BY <1>1, <1>2, <1>5, <1>6, <1>9, <1>10 DEF TaskChange
  <1> QED BY <1>11, TaskLocal

-----------------------------------------------------------------------------
(* The commands.                                                           *)

\* The local state of a main task while a command's frames wait in it.
LEMMA ReplyingFields ==
  ASSUME NEW c \in Clients, IsMain(main[c]), NEW n \in Nat
  PROVE  \E f \in Seq({Reply}) :
           /\ n # 0 => f # <<>>
           /\ Replying(c, n) = [pc |-> main[c].pc, conn_state |-> main[c].conn_state,
                                sub_id |-> main[c].sub_id, buffer |-> main[c].buffer,
                                frames |-> f, flush |-> main[c].flush, quit |-> main[c].quit]
  <1>1. PICK m, f : m = main[c] /\ f = [i \in 1 .. n |-> Reply]
    OBVIOUS
  <1>2. f \in Seq({Reply}) /\ Len(f) = n
    BY <1>1
  <1>3. n # 0 => f # <<>>
    BY <1>2
  <1>4. PICK r : r = [m EXCEPT !.frames = f]
    OBVIOUS
  <1>5. r = [pc |-> m.pc, conn_state |-> m.conn_state, sub_id |-> m.sub_id,
             buffer |-> m.buffer, frames |-> f, flush |-> m.flush, quit |-> m.quit]
    BY <1>1, <1>4 DEF IsMain
  <1>6. Replying(c, n) = r
    BY <1>1, <1>4 DEF Replying
  <1> QED BY <1>1, <1>2, <1>3, <1>5, <1>6

\* The configuration a command hands to its continuation differs from the
\* present one in the frames of main task c, and in the count of its Conn.
Entered(c, m, ar) ==
  /\ main[c].pc = "read" /\ IsMain(m)
  /\ m.pc = "read" /\ m.conn_state = main[c].conn_state /\ m.sub_id = main[c].sub_id
  /\ m.buffer = main[c].buffer /\ m.flush = main[c].flush /\ m.frames \in Seq({Reply})
  /\ DOMAIN ar = DOMAIN conn_arena
  /\ \A s \in DOMAIN conn_arena : s # m.sub_id => ar[s] = conn_arena[s]
  /\ m.sub_id \in DOMAIN conn_arena =>
       /\ ar[m.sub_id].write = conn_arena[m.sub_id].write
       /\ ar[m.sub_id].io_buffer = conn_arena[m.sub_id].io_buffer
       /\ ar[m.sub_id].swap_buffer = conn_arena[m.sub_id].swap_buffer
       /\ ar[m.sub_id].canceled = conn_arena[m.sub_id].canceled

LEMMA EnterReg ==
  ASSUME RegInv, NEW c \in Clients, NEW m, NEW ar, NEW map, NEW W,
         W = [main EXCEPT ![c] = m],
         Entered(c, m, ar), MapShape(map), Listing(W, ar, map)
  PROVE  /\ Reg(W, ar, tasks, map, accepted, delivered)
         /\ Idle(main, Clients \ {c}) /\ m.flush = {}
  <1> USE NilIsNoClient
  <1>1. /\ Own(main, conn_arena, tasks, next_id) /\ Shape(main, conn_arena)
        /\ Reg(main, conn_arena, tasks, conn_map, accepted, delivered)
        /\ Idle(main, Clients)
    BY DEF RegInv, CurrentInv, Inv
  <1>2. W = [d \in Clients |-> IF d = c THEN m ELSE main[d]]
    BY <1>1, WithMain DEF Shape
  <1>3. Idle(main, Clients \ {c}) /\ m.flush = {}
    BY <1>1 DEF Idle, Entered
  <1>4. /\ MainBuffers(main[c]) /\ delivered[c] \in Seq(Nat)
        /\ Balance(c, main[c], conn_arena, tasks, accepted[c], delivered[c])
        /\ \A s \in DOMAIN conn_arena : ConnBuffers(conn_arena[s])
        /\ \A t \in tasks : t.buffer \in Seq(Nat)
    BY <1>1 DEF Reg, Buffers, Balanced
  <1>5. MainBuffers(m)
    BY <1>4 DEF MainBuffers, Entered
  <1>6. m.sub_id \in DOMAIN conn_arena =>
          ConnBuffers(ar[m.sub_id]) /\ ar[m.sub_id].write \in {Nil, c}
    <2>1. ASSUME m.sub_id \in DOMAIN conn_arena
          PROVE  conn_arena[m.sub_id].write \in {Nil, c}
      BY <1>1, <2>1 DEF Own, Entered
    <2> QED BY <1>4, <2>1 DEF ConnBuffers, Entered
  <1>7. Local(c, main, conn_arena, tasks, m, W, ar, tasks)
    BY <1>2, <1>4, <1>5, <1>6 DEF Local, Entered
  <1>8. Balance(c, m, ar, tasks, accepted[c], delivered[c])
    <2>1. HeldIn(c, m, ar, tasks) => HeldIn(c, main[c], conn_arena, tasks) /\ main[c].pc # "closed"
      BY DEF HeldIn, Holding, Entered
    <2>2. \A x : ConnCopies(ar, m.sub_id, x) = ConnCopies(conn_arena, main[c].sub_id, x)
      BY DEF ConnCopies, Entered
    <2>3. m.buffer = main[c].buffer
      BY DEF Entered
    <2> QED BY <1>4, <2>1, <2>2, <2>3 DEF Balance
  <1>9. ~SendMayFail /\ m.sub_id \in DOMAIN conn_arena /\ ar[m.sub_id].io_buffer # <<>> =>
          Attended(W, ar, tasks, m.sub_id)
    <2>1. ASSUME ~SendMayFail, m.sub_id \in DOMAIN conn_arena, ar[m.sub_id].io_buffer # <<>>
          PROVE  Attended(W, ar, tasks, m.sub_id)
      <3>1. Attended(main, conn_arena, tasks, m.sub_id)
        BY <1>1, <2>1 DEF Reg, Unstranded, Entered
      <3> QED BY <1>2, <2>1, <3>1 DEF Attended, Entered
    <2> QED BY <2>1
  <1>10. Reg(W, ar, tasks, map, accepted, delivered)
    BY <1>1, <1>4, <1>7, <1>8, <1>9, LocalReg
  <1> QED BY <1>3, <1>10

LEMMA PingReg ==
  ASSUME RegInv, NEW c \in Clients, Ping(c) \/ Quit(c)
  PROVE  Reg(main', conn_arena', tasks', conn_map', accepted, delivered) /\ Idle(main', Clients)
  <1>1. /\ main = [d \in Clients |-> main[d]] /\ IsMain(main[c])
        /\ Own(main, conn_arena, tasks, next_id) /\ Shape(main, conn_arena)
        /\ Listing(main, conn_arena, conn_map) /\ MapShape(conn_map)
    BY DEF RegInv, CurrentInv, Inv, Shape, Reg
  <1>2. PICK r, f : /\ r = Replying(c, 1) /\ f \in Seq({Reply}) /\ f # <<>>
                    /\ r = [pc |-> main[c].pc, conn_state |-> main[c].conn_state,
                            sub_id |-> main[c].sub_id, buffer |-> main[c].buffer,
                            frames |-> f, flush |-> main[c].flush, quit |-> main[c].quit]
    BY <1>1, ReplyingFields
  <1> DEFINE yes == TRUE
  <1>3. PICK q : q = [r EXCEPT !.quit = yes]
    OBVIOUS
  <1> HIDE DEF yes
  <1>4. q = [pc |-> main[c].pc, conn_state |-> main[c].conn_state,
             sub_id |-> main[c].sub_id, buffer |-> main[c].buffer,
             frames |-> f, flush |-> main[c].flush, quit |-> yes]
    BY <1>2, <1>3
  <1>5. PICK m : m \in {r, q} /\ Send(c, m, conn_arena, conn_map, tasks)
    BY <1>2, <1>3 DEF Ping, Quit, yes
  <1>6. /\ m.pc = main[c].pc /\ m.conn_state = main[c].conn_state /\ m.sub_id = main[c].sub_id
        /\ m.buffer = main[c].buffer /\ m.flush = main[c].flush /\ m.frames = f /\ IsMain(m)
    BY <1>2, <1>4, <1>5 DEF IsMain
  <1>7. main[c].pc = "read"
    BY DEF Ping, Quit, Reads
  <1>8. Entered(c, m, conn_arena)
    BY <1>2, <1>6, <1>7 DEF Entered
  <1>9. PICK W : W = [main EXCEPT ![c] = m]
    OBVIOUS
  <1>10. W = [d \in Clients |-> IF d = c THEN m ELSE main[d]]
    BY <1>1, <1>9, WithMain
  <1>11. Listing(W, conn_arena, conn_map)
    BY <1>1, <1>6, <1>10 DEF Listing
  <1>12. Reg(W, conn_arena, tasks, conn_map, accepted, delivered)
         /\ Idle(main, Clients \ {c}) /\ m.flush = {}
    BY <1>1, <1>8, <1>9, <1>11, EnterReg
  <1>13. Inv(W, conn_arena, tasks, next_id)
    BY <1>1, <1>6, <1>9, TouchInv DEF RegInv, Shape
  <1> QED BY <1>1, <1>2, <1>5, <1>6, <1>7, <1>9, <1>12, <1>13, SendReg

\* One more entry of s under channel ch.
PushedIn(map, map2, ch, s) == map2 = [map EXCEPT ![ch] = Pushed(map[ch], s)]

LEMMA PushedMap ==
  ASSUME NEW map, NEW map2, NEW ch \in Channels, NEW s, MapShape(map),
         PushedIn(map, map2, ch, s)
  PROVE  /\ MapShape(map2)
         /\ ListedIn(map2, s) = ListedIn(map, s) \cup {ch}
         /\ \A x : x # s => ListedIn(map2, x) = ListedIn(map, x)
         /\ \A d \in Channels : DOMAIN map2[d] \subseteq DOMAIN map[d] \cup {s}
  <1>1. PICK bag, bag2 : bag = map[ch] /\ bag2 = Pushed(map[ch], s)
    OBVIOUS
  <1>2. DOMAIN bag2 = DOMAIN bag \cup {s} /\ \A x \in DOMAIN bag2 : bag2[x] \in Nat
    <2>1. \A x \in DOMAIN bag : bag[x] \in Nat
      BY <1>1 DEF MapShape
    <2> QED BY <1>1, <2>1 DEF Pushed
  <1>3. map2 = [d \in Channels |-> IF d = ch THEN bag2 ELSE map[d]]
    BY <1>1 DEF MapShape, PushedIn
  <1>4. MapShape(map2)
    BY <1>2, <1>3 DEF MapShape
  <1>5. \A d \in Channels : DOMAIN map2[d] = IF d = ch THEN DOMAIN map[d] \cup {s} ELSE DOMAIN map[d]
    BY <1>1, <1>2, <1>3
  <1> QED BY <1>4, <1>5 DEF ListedIn

LEMMA ListedFinite ==
  ASSUME NEW map, NEW s
  PROVE  IsFiniteSet(ListedIn(map, s)) /\ Cardinality(ListedIn(map, s)) \in Nat
  <1>1. IsFiniteSet(Channels) /\ ListedIn(map, s) \subseteq Channels
    BY PubSubAssumption DEF ListedIn
  <1> QED BY <1>1, FS_Subset, FS_CardinalityType

LEMMA SubscribeMoreReg ==
  ASSUME RegInv, NEW c \in Clients, NEW ch \in Channels, SubscribeMore(c, ch)
  PROVE  Reg(main', conn_arena', tasks', conn_map', accepted, delivered) /\ Idle(main', Clients)
  <1>1. /\ main = [d \in Clients |-> main[d]] /\ IsMain(main[c])
        /\ Own(main, conn_arena, tasks, next_id) /\ Shape(main, conn_arena)
        /\ Listing(main, conn_arena, conn_map) /\ MapShape(conn_map) /\ CurrentInv
    BY DEF RegInv, CurrentInv, Inv, Shape, Reg
  <1>2. PICK m, f : /\ m = Replying(c, 1) /\ f \in Seq({Reply}) /\ f # <<>>
                    /\ m = [pc |-> main[c].pc, conn_state |-> main[c].conn_state,
                            sub_id |-> main[c].sub_id, buffer |-> main[c].buffer,
                            frames |-> f, flush |-> main[c].flush, quit |-> main[c].quit]
    BY <1>1, ReplyingFields
  <1>3. /\ m.pc = main[c].pc /\ m.conn_state = main[c].conn_state /\ m.sub_id = main[c].sub_id
        /\ m.buffer = main[c].buffer /\ m.flush = main[c].flush /\ m.frames = f /\ IsMain(m)
    BY <1>2 DEF IsMain
  <1>4. PICK s, k : s = main[c].sub_id /\ k = conn_arena[s]
    OBVIOUS
  <1>5. /\ main[c].pc = "read" /\ main[c].conn_state = "PubSub"
        /\ Disciplined => ch \notin ListedIn(conn_map, s)
    BY <1>4 DEF SubscribeMore, Reads, Subscribed, ListedIn
  <1>6. s \in DOMAIN conn_arena /\ IsConn(k) /\ \A d \in Clients : d # c => main[d].sub_id # s
    BY <1>1, <1>4, <1>5 DEF Own, MainOwn, Shape
  <1>7. PICK k2 : k2 = [k EXCEPT !.channel_count = k.channel_count + 1]
    OBVIOUS
  <1>8. k2 = [write |-> k.write, io_buffer |-> k.io_buffer, swap_buffer |-> k.swap_buffer,
              channel_count |-> k.channel_count + 1, canceled |-> k.canceled]
    BY <1>6, <1>7 DEF IsConn
  <1>9. PICK ar, map : /\ ar = [conn_arena EXCEPT ![s] = k2]
                       /\ map = [conn_map EXCEPT ![ch] = Pushed(conn_map[ch], s)]
    OBVIOUS
  <1>10. Send(c, m, ar, map, tasks)
    BY <1>2, <1>4, <1>7, <1>9 DEF SubscribeMore
  <1>11. /\ DOMAIN ar = DOMAIN conn_arena /\ ar[s] = k2
         /\ \A x \in DOMAIN conn_arena : x # s => ar[x] = conn_arena[x]
         /\ ar = [x \in DOMAIN conn_arena |-> ar[x]]
    BY <1>1, <1>6, <1>9 DEF Shape
  <1>12. Entered(c, m, ar)
    BY <1>2, <1>3, <1>4, <1>5, <1>8, <1>11 DEF Entered
  <1>13. PICK W : W = [main EXCEPT ![c] = m]
    OBVIOUS
  <1>14. W = [d \in Clients |-> IF d = c THEN m ELSE main[d]]
    BY <1>1, <1>13, WithMain
  <1>15. /\ MapShape(map)
         /\ ListedIn(map, s) = ListedIn(conn_map, s) \cup {ch}
         /\ \A x : x # s => ListedIn(map, x) = ListedIn(conn_map, x)
         /\ \A d \in Channels : DOMAIN map[d] \subseteq DOMAIN conn_map[d] \cup {s}
    <2>1. PushedIn(conn_map, map, ch, s)
      BY <1>9 DEF PushedIn
    <2> QED BY <1>1, <2>1, PushedMap
  <1>16. Listing(W, ar, map)
    <2>1. ASSUME Disciplined, NEW d \in Clients,
                 W[d].conn_state = "PubSub" \/ W[d].pc = "pubsub_write"
          PROVE  ar[W[d].sub_id].channel_count = Cardinality(ListedIn(map, W[d].sub_id))
      <3>1. CASE d = c
        <4>1. k.channel_count = Cardinality(ListedIn(conn_map, s))
          BY <1>1, <1>4, <1>5, <2>1 DEF Listing
        <4>2. Cardinality(ListedIn(conn_map, s) \cup {ch}) = Cardinality(ListedIn(conn_map, s)) + 1
          BY <1>5, <2>1, ListedFinite, FS_AddElement
        <4>3. ar[W[d].sub_id].channel_count = k.channel_count + 1 /\ W[d].sub_id = s
          BY <1>3, <1>4, <1>8, <1>11, <1>14, <3>1
        <4> QED BY <1>15, <4>1, <4>2, <4>3
      <3>2. CASE d # c
        <4>1. W[d] = main[d] /\ main[d].sub_id # s
          BY <1>6, <1>14, <3>2
        <4>2. main[d].sub_id \in DOMAIN conn_arena
          BY <1>1, <2>1, <4>1 DEF Own, MainOwn
        <4> QED BY <1>1, <1>11, <1>15, <2>1, <4>1, <4>2 DEF Listing
      <3> QED BY <3>1, <3>2
    <2>2. Disciplined => \A d \in Channels : DOMAIN map[d] \subseteq DOMAIN ar
      BY <1>1, <1>6, <1>11, <1>15 DEF Listing
    <2> QED BY <2>1, <2>2 DEF Listing
  <1>17. Reg(W, ar, tasks, map, accepted, delivered)
         /\ Idle(main, Clients \ {c}) /\ m.flush = {}
    BY <1>12, <1>13, <1>15, <1>16, EnterReg
  <1>18. \A x \in DOMAIN conn_arena :
           IsConn(ar[x]) /\ ar[x].write = conn_arena[x].write
                         /\ ar[x].canceled = conn_arena[x].canceled
    <2>1. IsConn(k2) /\ k2.write = k.write /\ k2.canceled = k.canceled
      BY <1>8 DEF IsConn
    <2> QED BY <1>1, <1>4, <1>11, <2>1 DEF Shape
  <1>19. Inv(W, ar, tasks, next_id)
    BY <1>1, <1>3, <1>11, <1>13, <1>18, TouchInv
  <1> QED BY <1>1, <1>2, <1>3, <1>5, <1>10, <1>13, <1>17, <1>19, SendReg

\* s leaves the channels chs.
UnlistedIn(map, map2, s, chs) == map2 = Unlisted(map, s, chs)

LEMMA UnlistedMap ==
  ASSUME NEW map, NEW map2, NEW s, NEW chs, MapShape(map), UnlistedIn(map, map2, s, chs)
  PROVE  /\ MapShape(map2)
         /\ ListedIn(map2, s) = ListedIn(map, s) \ chs
         /\ \A x : x # s => ListedIn(map2, x) = ListedIn(map, x)
         /\ \A d \in Channels : DOMAIN map2[d] \subseteq DOMAIN map[d]
  <1>1. map2 = [ch \in Channels |->
                  IF ch \in chs THEN [x \in DOMAIN map[ch] \ {s} |-> map[ch][x]] ELSE map[ch]]
    BY DEF UnlistedIn, Unlisted
  <1>2. MapShape(map2)
    BY <1>1 DEF MapShape
  <1>3. \A d \in Channels :
          DOMAIN map2[d] = IF d \in chs THEN DOMAIN map[d] \ {s} ELSE DOMAIN map[d]
    BY <1>1
  <1> QED BY <1>2, <1>3 DEF ListedIn

\* What UNSUBSCRIBE computes: the channels it removes and what is left.
Removes(c, s, channels, R, n, left, map) ==
  /\ s = main[c].sub_id /\ main[c].pc = "read" /\ main[c].conn_state = "PubSub"
  /\ channels \subseteq Channels /\ (Disciplined => channels \subseteq Subscribed(s))
  /\ R = (IF channels = {} THEN Subscribed(s) ELSE channels)
  /\ n = Cardinality(R)
  /\ left = (IF conn_arena[s].channel_count > n THEN conn_arena[s].channel_count - n ELSE 0)
  /\ map = Unlisted(conn_map, s, R)

LEMMA RemovesEffect ==
  ASSUME RegInv, NEW c \in Clients, NEW channels, NEW s, NEW R, NEW n, NEW left, NEW map,
         Removes(c, s, channels, R, n, left, map)
  PROVE  /\ n \in Nat /\ MapShape(map)
         /\ \A x : x # s => ListedIn(map, x) = ListedIn(conn_map, x)
         /\ \A d \in Channels : DOMAIN map[d] \subseteq DOMAIN conn_map[d]
         /\ Disciplined => left = Cardinality(ListedIn(map, s))
  <1>1. MapShape(conn_map) /\ Listing(main, conn_arena, conn_map)
    BY DEF RegInv, Reg
  <1>2. R \subseteq Channels /\ (Disciplined => R \subseteq ListedIn(conn_map, s))
    BY DEF Removes, Subscribed, ListedIn
  <1>3. IsFiniteSet(R) /\ n \in Nat
    BY <1>2, PubSubAssumption, FS_Subset, FS_CardinalityType DEF Removes
  <1>4. UnlistedIn(conn_map, map, s, R)
    BY DEF UnlistedIn, Removes
  <1>5. /\ MapShape(map)
        /\ ListedIn(map, s) = ListedIn(conn_map, s) \ R
        /\ \A x : x # s => ListedIn(map, x) = ListedIn(conn_map, x)
        /\ \A d \in Channels : DOMAIN map[d] \subseteq DOMAIN conn_map[d]
    BY <1>1, <1>4, UnlistedMap
  <1>6. ASSUME Disciplined PROVE left = Cardinality(ListedIn(map, s))
    <2>1. PICK S, D : S = ListedIn(conn_map, s) /\ D = S \ R
      OBVIOUS
    <2>2. IsFiniteSet(S) /\ Cardinality(S) \in Nat /\ S \cap R = R
      BY <1>2, <1>6, <2>1, ListedFinite
    <2>3. IsFiniteSet(D) /\ Cardinality(D) \in Nat
      BY <1>5, <2>1, ListedFinite
    <2>4. Cardinality(D) = Cardinality(S) - n
      <3>1. Cardinality(S \ R) = Cardinality(S) - Cardinality(S \cap R)
        BY <2>2, FS_Difference
      <3> QED BY <2>1, <2>2, <3>1 DEF Removes
    <2>5. conn_arena[s].channel_count = Cardinality(S)
      BY <1>1, <1>6, <2>1 DEF Listing, Removes
    <2>6. left = Cardinality(D)
      BY <1>3, <2>2, <2>3, <2>4, <2>5 DEF Removes
    <2> QED BY <1>5, <2>1, <2>6
  <1> QED BY <1>3, <1>5, <1>6

\* UNSUBSCRIBE that stays in the registry.
Stays(c, s, left, m, f, k, ar, W) ==
  /\ f \in Seq({Reply})
  /\ m = [pc |-> main[c].pc, conn_state |-> main[c].conn_state,
          sub_id |-> main[c].sub_id, buffer |-> main[c].buffer,
          frames |-> f, flush |-> main[c].flush, quit |-> main[c].quit]
  /\ k = conn_arena[s] /\ ar = [conn_arena EXCEPT ![s] = [k EXCEPT !.channel_count = left]]
  /\ W = [main EXCEPT ![c] = m]

LEMMA StayReg ==
  ASSUME RegInv, NEW c \in Clients, NEW channels, NEW s, NEW R, NEW n, NEW left, NEW map,
         NEW m, NEW f, NEW k, NEW ar, NEW W, Removes(c, s, channels, R, n, left, map),
         Stays(c, s, left, m, f, k, ar, W)
  PROVE  /\ Reg(W, ar, tasks, map, accepted, delivered)
         /\ Inv(W, ar, tasks, next_id)
         /\ Idle(main, Clients \ {c}) /\ m.flush = {}
  <1>1. /\ main = [d \in Clients |-> main[d]]
        /\ Own(main, conn_arena, tasks, next_id) /\ Shape(main, conn_arena)
        /\ Listing(main, conn_arena, conn_map) /\ CurrentInv
    BY DEF RegInv, CurrentInv, Inv, Shape, Reg
  <1> s = main[c].sub_id /\ main[c].pc = "read" /\ main[c].conn_state = "PubSub"
    BY DEF Removes
  <1> USE DEF Stays
  <1>2. /\ m.pc = main[c].pc /\ m.conn_state = main[c].conn_state /\ m.sub_id = main[c].sub_id
        /\ m.buffer = main[c].buffer /\ m.flush = main[c].flush /\ m.frames = f /\ IsMain(m)
    BY DEF IsMain
  <1>3. s \in DOMAIN conn_arena /\ IsConn(k) /\ \A d \in Clients : d # c => main[d].sub_id # s
    BY <1>1 DEF Own, MainOwn, Shape
  <1>4. PICK k2 : k2 = [k EXCEPT !.channel_count = left]
    OBVIOUS
  <1>5. k2 = [write |-> k.write, io_buffer |-> k.io_buffer, swap_buffer |-> k.swap_buffer,
              channel_count |-> left, canceled |-> k.canceled]
    BY <1>3, <1>4 DEF IsConn
  <1>6. IsConn(k2) /\ k2.write = k.write /\ k2.canceled = k.canceled /\ k2.channel_count = left
        /\ k2.io_buffer = k.io_buffer /\ k2.swap_buffer = k.swap_buffer
    BY <1>5 DEF IsConn
  <1>7. /\ DOMAIN ar = DOMAIN conn_arena /\ ar[s] = k2
        /\ \A x \in DOMAIN conn_arena : x # s => ar[x] = conn_arena[x]
        /\ ar = [x \in DOMAIN conn_arena |-> ar[x]]
    BY <1>1, <1>3, <1>4 DEF Shape
  <1>8. Entered(c, m, ar)
    BY <1>2, <1>6, <1>7 DEF Entered
  <1>9. W = [d \in Clients |-> IF d = c THEN m ELSE main[d]]
    BY <1>1, WithMain
  <1>10. /\ n \in Nat /\ MapShape(map)
         /\ \A x : x # s => ListedIn(map, x) = ListedIn(conn_map, x)
         /\ \A d \in Channels : DOMAIN map[d] \subseteq DOMAIN conn_map[d]
         /\ Disciplined => left = Cardinality(ListedIn(map, s))
    <2> HIDE DEF Stays
    <2> QED BY RemovesEffect
  <1>11. Listing(W, ar, map)
    <2>1. ASSUME Disciplined, NEW d \in Clients,
                 W[d].conn_state = "PubSub" \/ W[d].pc = "pubsub_write"
          PROVE  ar[W[d].sub_id].channel_count = Cardinality(ListedIn(map, W[d].sub_id))
      <3>1. CASE d = c
        BY <1>2, <1>6, <1>7, <1>9, <1>10, <2>1, <3>1
      <3>2. CASE d # c
        <4>1. W[d] = main[d] /\ main[d].sub_id # s
          BY <1>3, <1>9, <3>2
        <4>2. main[d].sub_id \in DOMAIN conn_arena
          BY <1>1, <2>1, <4>1 DEF Own, MainOwn
        <4> QED BY <1>1, <1>7, <1>10, <2>1, <4>1, <4>2 DEF Listing
      <3> QED BY <3>1, <3>2
    <2>2. Disciplined => \A d \in Channels : DOMAIN map[d] \subseteq DOMAIN ar
      BY <1>1, <1>7, <1>10 DEF Listing
    <2> QED BY <2>1, <2>2 DEF Listing
  <1>12. Reg(W, ar, tasks, map, accepted, delivered)
         /\ Idle(main, Clients \ {c}) /\ m.flush = {}
    BY <1>8, <1>10, <1>11, EnterReg
  <1>13. \A x \in DOMAIN conn_arena :
           IsConn(ar[x]) /\ ar[x].write = conn_arena[x].write
                         /\ ar[x].canceled = conn_arena[x].canceled
    BY <1>1, <1>6, <1>7 DEF Shape
  <1>14. Inv(W, ar, tasks, next_id)
    BY <1>1, <1>2, <1>7, <1>13, TouchInv
  <1> QED BY <1>12, <1>14

\* UNSUBSCRIBE that leaves the registry: the write half and what is in the
\* io_buffer go back to the main task.
Leaves(c, s, left, m, f, k, ar, W) ==
  /\ left = 0 /\ k = conn_arena[s] /\ k.write # Nil
  /\ f \in Seq({Reply})
  /\ m = [pc |-> main[c].pc, conn_state |-> "Normal",
          sub_id |-> main[c].sub_id, buffer |-> k.io_buffer,
          frames |-> f, flush |-> main[c].flush, quit |-> main[c].quit]
  /\ ar = [x \in DOMAIN conn_arena \ {s} |-> conn_arena[x]]
  /\ W = [main EXCEPT ![c] = m]

LEMMA LeaveReg ==
  ASSUME RegInv, NEW c \in Clients, NEW channels, NEW s, NEW R, NEW n, NEW left, NEW map,
         NEW m, NEW f, NEW k, NEW ar, NEW W, Removes(c, s, channels, R, n, left, map),
         Leaves(c, s, left, m, f, k, ar, W)
  PROVE  /\ Reg(W, ar, tasks, map, accepted, delivered)
         /\ Inv(W, ar, tasks, next_id)
         /\ Idle(main, Clients \ {c}) /\ m.flush = {}
  <1> USE NilIsNoClient
  <1> s = main[c].sub_id /\ main[c].pc = "read" /\ main[c].conn_state = "PubSub"
    BY DEF Removes
  <1>0. left = 0 /\ k = conn_arena[s] /\ k.write # Nil
    BY DEF Leaves
  <1>1. /\ main = [d \in Clients |-> main[d]]
        /\ Own(main, conn_arena, tasks, next_id) /\ Shape(main, conn_arena)
        /\ Reg(main, conn_arena, tasks, conn_map, accepted, delivered) /\ CurrentInv
        /\ Idle(main, Clients)
    BY DEF RegInv, CurrentInv, Inv, Shape
  <1>2. /\ m.pc = "read" /\ m.conn_state = "Normal" /\ m.sub_id = s
        /\ m.buffer = k.io_buffer /\ m.flush = main[c].flush /\ m.frames = f /\ IsMain(m)
        /\ f \in Seq({Reply})
    BY DEF IsMain, Leaves
  <1>3. /\ Inv(W, ar, tasks, next_id)
        /\ s \in DOMAIN conn_arena /\ k.write = c /\ \A t \in tasks : t.write # c
        /\ \A d \in Clients : d # c => main[d].sub_id # s
    <2>1. /\ ar = [x \in DOMAIN conn_arena \ {s} |-> conn_arena[x]]
          /\ W = [main EXCEPT ![c] = m]
      BY DEF Leaves
    <2> QED BY <1>0, <1>1, <1>2, <2>1, LeaveInv
  <1>4. W = [d \in Clients |-> IF d = c THEN m ELSE main[d]]
    BY <1>1, WithMain DEF Leaves
  <1>5. /\ DOMAIN ar = DOMAIN conn_arena \ {s}
        /\ \A x \in DOMAIN ar : ar[x] = conn_arena[x]
    BY DEF Leaves
  <1>6. Idle(main, Clients \ {c}) /\ m.flush = {}
    BY <1>1, <1>2 DEF Idle
  <1>7. /\ MapShape(map)
        /\ \A x : x # s => ListedIn(map, x) = ListedIn(conn_map, x)
        /\ \A d \in Channels : DOMAIN map[d] \subseteq DOMAIN conn_map[d]
        /\ Disciplined => left = Cardinality(ListedIn(map, s))
    BY RemovesEffect
  <1>8. Buffers(W, ar, tasks)
    <2>1. k.io_buffer \in Seq(Nat)
      BY <1>0, <1>1, <1>3 DEF Reg, Buffers, ConnBuffers
    <2>2. MainBuffers(m)
      BY <1>2, <2>1 DEF MainBuffers
    <2> QED BY <1>1, <1>4, <1>5, <2>2 DEF Reg, Buffers
  <1>9. Filed(W, ar)
    <2>1. ASSUME ~SendMayFail, NEW x \in DOMAIN ar
          PROVE  \E d \in Clients : W[d].sub_id = x /\ W[d].pc # "closed"
      <3>1. PICK d \in Clients : main[d].sub_id = x /\ main[d].pc # "closed"
        BY <1>1, <1>5, <2>1 DEF Reg, Filed
      <3> QED BY <1>4, <1>5, <2>1, <3>1
    <2> QED BY <2>1 DEF Filed
  <1>10. Unstranded(W, ar, tasks)
    <2>1. ASSUME ~SendMayFail, NEW x \in DOMAIN ar, ar[x].io_buffer # <<>>
          PROVE  Attended(W, ar, tasks, x)
      <3>1. Attended(main, conn_arena, tasks, x) /\ x # s /\ ar[x] = conn_arena[x]
        BY <1>1, <1>5, <2>1 DEF Reg, Unstranded
      <3> QED BY <1>2, <1>4, <3>1 DEF Attended
    <2> QED BY <2>1 DEF Unstranded
  <1>11. Listing(W, ar, map)
    <2>1. ASSUME Disciplined, NEW d \in Clients,
                 W[d].conn_state = "PubSub" \/ W[d].pc = "pubsub_write"
          PROVE  ar[W[d].sub_id].channel_count = Cardinality(ListedIn(map, W[d].sub_id))
      <3>1. W[d] = main[d] /\ main[d].sub_id # s
        BY <1>2, <1>3, <1>4, <2>1
      <3>2. main[d].sub_id \in DOMAIN ar
        BY <1>1, <1>5, <2>1, <3>1 DEF Own, MainOwn
      <3> QED BY <1>1, <1>5, <1>7, <2>1, <3>1, <3>2 DEF Reg, Listing
    <2>2. ASSUME Disciplined, NEW d \in Channels PROVE DOMAIN map[d] \subseteq DOMAIN ar
      <3>1. ListedIn(map, s) = {}
        BY <1>0, <1>7, <2>2, ListedFinite, FS_EmptySet
      <3>2. s \notin DOMAIN map[d] /\ DOMAIN map[d] \subseteq DOMAIN conn_arena
        BY <1>1, <1>7, <2>2, <3>1 DEF ListedIn, Reg, Listing
      <3> QED BY <1>5, <3>2
    <2> QED BY <2>1, <2>2 DEF Listing
  <1>12. Balanced(W, ar, tasks, accepted, delivered)
    <2>1. ASSUME NEW d \in Clients, d # c
          PROVE  Balance(d, W[d], ar, tasks, accepted[d], delivered[d])
      <3>1. W[d] = main[d] /\ Balance(d, main[d], conn_arena, tasks, accepted[d], delivered[d])
        BY <1>1, <1>4, <2>1 DEF Reg, Balanced
      <3>2. HeldIn(d, main[d], ar, tasks) => HeldIn(d, main[d], conn_arena, tasks)
        BY <1>5 DEF HeldIn
      <3>3. /\ main[d].sub_id \in DOMAIN conn_arena <=> main[d].sub_id \in DOMAIN ar
            /\ main[d].sub_id \in DOMAIN conn_arena =>
                 ar[main[d].sub_id].io_buffer = conn_arena[main[d].sub_id].io_buffer
        BY <1>3, <1>5, <2>1
      <3>4. Balance(d, main[d], ar, tasks, accepted[d], delivered[d])
        BY <3>1, <3>2, <3>3, OtherBalance
      <3> QED BY <3>1, <3>4
    <2>2. Balance(c, m, ar, tasks, accepted[c], delivered[c])
      <3>1. /\ Balance(c, main[c], conn_arena, tasks, accepted[c], delivered[c])
            /\ main[c].buffer = <<>>
        BY <1>1 DEF Reg, Balanced, Buffers, MainBuffers
      <3>2. HeldIn(c, main[c], conn_arena, tasks) /\ main[c].pc # "closed"
        BY <1>0, <1>3 DEF HeldIn
      <3>3. ASSUME NEW x \in Messages
            PROVE  Copies(m.buffer, x) + TaskCopies(tasks, c, x) + ConnCopies(ar, m.sub_id, x)
                     = Copies(main[c].buffer, x) + TaskCopies(tasks, c, x)
                         + ConnCopies(conn_arena, main[c].sub_id, x)
        <4>1. ConnCopies(ar, m.sub_id, x) = 0 /\ TaskCopies(tasks, c, x) = 0
          BY <1>2, <1>3, <1>5, TaskCopiesNone DEF ConnCopies
        <4>2. ConnCopies(conn_arena, main[c].sub_id, x) = Copies(k.io_buffer, x)
          BY <1>0, <1>3 DEF ConnCopies
        <4>3. Copies(main[c].buffer, x) = 0
          BY <3>1, CopiesEmpty
        <4>4. Copies(k.io_buffer, x) \in Nat /\ m.buffer = k.io_buffer
          BY <1>0, <1>1, <1>2, <1>3, CopiesNat DEF Reg, Buffers, ConnBuffers
        <4> QED BY <4>1, <4>2, <4>3, <4>4
      <3> QED BY <3>1, <3>2, <3>3, SameBalance
    <2>3. W[c] = m
      BY <1>4
    <2> QED BY <1>1, <2>1, <2>2, <2>3 DEF Reg, Balanced
  <1>13. Reg(W, ar, tasks, map, accepted, delivered)
    BY <1>7, <1>8, <1>9, <1>10, <1>11, <1>12 DEF Reg
  <1> QED BY <1>3, <1>6, <1>13

LEMMA UnsubscribeReg ==
  ASSUME RegInv, NEW c \in Clients, NEW channels \in SUBSET Channels, Unsubscribe(c, channels)
  PROVE  Reg(main', conn_arena', tasks', conn_map', accepted, delivered) /\ Idle(main', Clients)
  <1>1. main = [d \in Clients |-> main[d]] /\ IsMain(main[c])
    BY DEF RegInv, CurrentInv, Inv, Shape
  <1>2. PICK s, k, R : /\ s = main[c].sub_id /\ k = conn_arena[s]
                       /\ R = (IF channels = {} THEN Subscribed(s) ELSE channels)
    OBVIOUS
  <1>3. PICK n : n = Cardinality(R)
    OBVIOUS
  <1>4. PICK left, map :
          /\ left = (IF k.channel_count > n THEN k.channel_count - n ELSE 0)
          /\ map = Unlisted(conn_map, s, R)
    OBVIOUS
  <1>5. Removes(c, s, channels, R, n, left, map)
    BY <1>2, <1>3, <1>4 DEF Removes, Unsubscribe, Reads
  <1>6. n \in Nat
    BY <1>5, RemovesEffect
  <1>7. PICK r, f : /\ r = Replying(c, n) /\ f \in Seq({Reply}) /\ (n # 0 => f # <<>>)
                    /\ r = [pc |-> main[c].pc, conn_state |-> main[c].conn_state,
                            sub_id |-> main[c].sub_id, buffer |-> main[c].buffer,
                            frames |-> f, flush |-> main[c].flush, quit |-> main[c].quit]
    BY <1>1, <1>6, ReplyingFields
  <1>8. PICK q : q = [r EXCEPT !.conn_state = "Normal", !.buffer = k.io_buffer]
    OBVIOUS
  <1>9. PICK ar1, ar2 :
          /\ ar1 = [x \in DOMAIN conn_arena \ {s} |-> conn_arena[x]]
          /\ ar2 = [conn_arena EXCEPT ![s] = [k EXCEPT !.channel_count = left]]
    OBVIOUS
  <1>10. q = [pc |-> main[c].pc, conn_state |-> "Normal", sub_id |-> main[c].sub_id,
             buffer |-> k.io_buffer, frames |-> f, flush |-> main[c].flush,
             quit |-> main[c].quit]
    <2>1. /\ IsMain(r) /\ r.pc = main[c].pc /\ r.sub_id = main[c].sub_id
          /\ r.frames = f /\ r.flush = main[c].flush /\ r.quit = main[c].quit
      BY <1>7 DEF IsMain
    <2>2. q = [pc |-> r.pc, conn_state |-> "Normal", sub_id |-> r.sub_id,
               buffer |-> k.io_buffer, frames |-> r.frames, flush |-> r.flush, quit |-> r.quit]
      BY <1>8, <2>1 DEF IsMain
    <2> QED BY <2>1, <2>2
  <1>11. \/ /\ left = 0 /\ k.write # Nil
            /\ (n > 0 /\ Send(c, q, ar1, map, tasks)) \/ (n = 0 /\ Return(c, q, ar1, map, tasks))
         \/ (n > 0 /\ Send(c, r, ar2, map, tasks)) \/ (n = 0 /\ Return(c, r, ar2, map, tasks))
    BY <1>2, <1>3, <1>4, <1>7, <1>9, <1>8 DEF Unsubscribe
  <1>12. main[c].pc = "read"
    BY <1>5 DEF Removes
  <1>13. CASE /\ left = 0 /\ k.write # Nil
              /\ (n > 0 /\ Send(c, q, ar1, map, tasks)) \/ (n = 0 /\ Return(c, q, ar1, map, tasks))
    <2>1. PICK W : W = [main EXCEPT ![c] = q]
      OBVIOUS
    <2>2. /\ Reg(W, ar1, tasks, map, accepted, delivered)
          /\ Inv(W, ar1, tasks, next_id)
          /\ Idle(main, Clients \ {c}) /\ q.flush = {}
      <3>1. Leaves(c, s, left, q, f, k, ar1, W)
        BY <1>2, <1>7, <1>9, <1>10, <1>13, <2>1 DEF Leaves
      <3> QED BY <1>5, <3>1, LeaveReg
    <2>3. q.pc = "read" /\ (n # 0 => q.frames # <<>>)
      BY <1>7, <1>10, <1>12
    <2> QED BY <1>1, <1>6, <1>13, <2>1, <2>2, <2>3, SendReg, ReturnReg
  <1>14. CASE (n > 0 /\ Send(c, r, ar2, map, tasks)) \/ (n = 0 /\ Return(c, r, ar2, map, tasks))
    <2>1. PICK W : W = [main EXCEPT ![c] = r]
      OBVIOUS
    <2>2. /\ Reg(W, ar2, tasks, map, accepted, delivered)
          /\ Inv(W, ar2, tasks, next_id)
          /\ Idle(main, Clients \ {c}) /\ r.flush = {}
      <3>1. Stays(c, s, left, r, f, k, ar2, W)
        BY <1>2, <1>7, <1>9, <2>1 DEF Stays
      <3> QED BY <1>5, <3>1, StayReg
    <2>3. r.pc = "read" /\ (n # 0 => r.frames # <<>>)
      BY <1>7, <1>12
    <2> QED BY <1>1, <1>6, <1>14, <2>1, <2>2, <2>3, SendReg, ReturnReg
  <1> QED BY <1>11, <1>13, <1>14

\* SUBSCRIBE to a first channel: the reply takes along what waits in the
\* buffer that the Conn is given.
Joined(c, f, r, k, ar) ==
  /\ f \in Seq({Reply}) /\ f # <<>>
  /\ r = [pc |-> "pubsub_write", conn_state |-> "None", sub_id |-> next_id,
          buffer |-> Append(main[c].buffer, Head(f)), frames |-> Tail(f),
          flush |-> main[c].flush, quit |-> main[c].quit]
  /\ k = [write |-> Nil, io_buffer |-> <<>>, swap_buffer |-> Nil, channel_count |-> 1,
          canceled |-> FALSE]
  /\ ar = [s \in DOMAIN conn_arena \cup {next_id} |->
             IF s = next_id THEN k ELSE conn_arena[s]]

LEMMA SubscribeFirstEffect ==
  ASSUME RegInv, NEW c \in Clients, NEW ch \in Channels, SubscribeFirst(c, ch)
  PROVE  \E f, r, k : /\ Joined(c, f, r, k, conn_arena')
                      /\ main' = [d \in Clients |-> IF d = c THEN r ELSE main[d]]
                      /\ tasks' = tasks
                      /\ PushedIn(conn_map, conn_map', ch, next_id)
  <1>1. main = [d \in Clients |-> main[d]] /\ IsMain(main[c])
    BY DEF RegInv, CurrentInv, Inv, Shape
  <1>2. PICK q, f : /\ q = Replying(c, 1) /\ f \in Seq({Reply}) /\ f # <<>>
                    /\ q = [pc |-> main[c].pc, conn_state |-> main[c].conn_state,
                            sub_id |-> main[c].sub_id, buffer |-> main[c].buffer,
                            frames |-> f, flush |-> main[c].flush, quit |-> main[c].quit]
    BY <1>1, ReplyingFields
  <1>3. IsMain(q) /\ q.frames = f /\ q.flush = main[c].flush /\ q.quit = main[c].quit
    BY <1>2 DEF IsMain
  <1>4. PICK m : m = [q EXCEPT !.conn_state = "PubSub", !.sub_id = next_id, !.buffer = <<>>]
    OBVIOUS
  <1>5. m = [pc |-> q.pc, conn_state |-> "PubSub", sub_id |-> next_id, buffer |-> <<>>,
             frames |-> q.frames, flush |-> q.flush, quit |-> q.quit]
    BY <1>3, <1>4 DEF IsMain
  <1>6. PICK j, ar : /\ j = NewConn(c, main[c].buffer)
                     /\ ar = [s \in DOMAIN conn_arena \cup {next_id} |->
                                IF s = next_id THEN j ELSE conn_arena[s]]
    OBVIOUS
  <1>7. PICK map : map = [conn_map EXCEPT ![ch] = Pushed(conn_map[ch], next_id)]
    OBVIOUS
  <1>8. Send(c, m, ar, map, tasks)
    BY <1>2, <1>4, <1>6, <1>7 DEF SubscribeFirst
  <1>9. j = [write |-> c, io_buffer |-> main[c].buffer, swap_buffer |-> <<>>,
             channel_count |-> 1, canceled |-> FALSE]
    BY <1>6 DEF NewConn
  <1>10. ar[next_id] = j /\ IsConn(j) /\ j.write = c /\ j.swap_buffer = <<>>
         /\ j.io_buffer = main[c].buffer
    BY <1>6, <1>9 DEF IsConn
  <1>11. m.sub_id = next_id /\ m.conn_state = "PubSub" /\ m.frames = f
         /\ m.flush = main[c].flush /\ m.quit = main[c].quit /\ IsMain(m)
    BY <1>3, <1>5 DEF IsMain
  <1>12. SendPubSub(c, m, ar, map, tasks)
    BY <1>8, <1>10, <1>11, PubSubAssumption DEF Send, SendNormal, SendQueued, Writable
  <1>13. PICK r : r = [m EXCEPT !.pc = "pubsub_write", !.conn_state = "None",
                                !.buffer = Append(j.io_buffer, Head(m.frames)), !.frames = Tail(@)]
    OBVIOUS
  <1>14. r = [pc |-> "pubsub_write", conn_state |-> "None", sub_id |-> next_id,
              buffer |-> Append(main[c].buffer, Head(f)), frames |-> Tail(f),
              flush |-> main[c].flush, quit |-> main[c].quit]
    BY <1>10, <1>11, <1>13 DEF IsMain
  <1>15. PICK k : k = Taken(j)
    OBVIOUS
  <1>16. k = [write |-> Nil, io_buffer |-> <<>>, swap_buffer |-> Nil, channel_count |-> 1,
              canceled |-> FALSE]
    BY <1>9, <1>10, <1>15, TakenFields
  <1>17. /\ main' = [main EXCEPT ![c] = r] /\ conn_arena' = [ar EXCEPT ![next_id] = k]
         /\ conn_map' = map /\ tasks' = tasks
    BY <1>10, <1>11, <1>12, <1>13, <1>15 DEF SendPubSub
  <1>18. conn_arena' = [s \in DOMAIN conn_arena \cup {next_id} |->
                          IF s = next_id THEN k ELSE conn_arena[s]]
    BY <1>6, <1>17
  <1>19. Joined(c, f, r, k, conn_arena')
    BY <1>2, <1>14, <1>16, <1>18 DEF Joined
  <1>20. main' = [d \in Clients |-> IF d = c THEN r ELSE main[d]]
    BY <1>1, <1>17, WithMain
  <1>21. PushedIn(conn_map, conn_map', ch, next_id)
    BY <1>7, <1>17 DEF PushedIn
  <1> QED BY <1>17, <1>19, <1>20, <1>21

LEMMA SubscribeFirstReg ==
  ASSUME RegInv, NEW c \in Clients, NEW ch \in Channels, SubscribeFirst(c, ch)
  PROVE  Reg(main', conn_arena', tasks', conn_map', accepted, delivered) /\ Idle(main', Clients)
  <1> USE NilIsNoClient
  <1>1. /\ Own(main, conn_arena, tasks, next_id) /\ Idle(main, Clients)
        /\ Reg(main, conn_arena, tasks, conn_map, accepted, delivered)
    BY DEF RegInv, CurrentInv, Inv
  <1>2. main[c].pc = "read" /\ main[c].conn_state = "Normal"
    BY DEF SubscribeFirst, Reads
  <1>3. PICK f, r, k : /\ Joined(c, f, r, k, conn_arena')
                       /\ main' = [d \in Clients |-> IF d = c THEN r ELSE main[d]]
                       /\ tasks' = tasks
                       /\ PushedIn(conn_map, conn_map', ch, next_id)
    BY SubscribeFirstEffect
  <1>4. /\ r.pc = "pubsub_write" /\ r.conn_state = "None" /\ r.sub_id = next_id
        /\ r.buffer = Append(main[c].buffer, Head(f)) /\ r.frames = Tail(f)
        /\ r.flush = main[c].flush /\ f \in Seq({Reply}) /\ f # <<>>
        /\ k.write = Nil /\ k.io_buffer = <<>> /\ k.swap_buffer = Nil /\ k.channel_count = 1
    BY <1>3 DEF Joined
  <1>5. /\ DOMAIN conn_arena' = DOMAIN conn_arena \cup {next_id}
        /\ conn_arena'[next_id] = k
        /\ \A s \in DOMAIN conn_arena : s # next_id => conn_arena'[s] = conn_arena[s]
    BY <1>3 DEF Joined
  <1>6. /\ next_id \notin DOMAIN conn_arena /\ main[c].sub_id \notin DOMAIN conn_arena
        /\ \A d \in Clients : main[d].sub_id # next_id
    BY <1>1, <1>2 DEF Own, MainOwn
  <1>7. \A t \in tasks : t.write # c
    BY <1>1, <1>2 DEF Own, Holding
  <1>8. r.flush = {} /\ Idle(main', Clients)
    BY <1>1, <1>2, <1>3, <1>4 DEF Idle
  <1>9. /\ MainBuffers(r)
        /\ \A x \in Messages : Copies(r.buffer, x) = Copies(main[c].buffer, x)
    <2>1. main[c].buffer \in Seq(Nat)
      BY <1>1 DEF Reg, Buffers, MainBuffers
    <2> QED BY <1>4, <2>1, AppendReply DEF MainBuffers
  <1>10. Buffers(main', conn_arena', tasks')
    <2>1. ConnBuffers(k)
      BY <1>4 DEF ConnBuffers
    <2> QED BY <1>1, <1>3, <1>5, <1>6, <1>9, <2>1 DEF Reg, Buffers
  <1>11. /\ MapShape(conn_map')
         /\ ListedIn(conn_map', next_id) = ListedIn(conn_map, next_id) \cup {ch}
         /\ \A x : x # next_id => ListedIn(conn_map', x) = ListedIn(conn_map, x)
         /\ \A d \in Channels : DOMAIN conn_map'[d] \subseteq DOMAIN conn_map[d] \cup {next_id}
    BY <1>1, <1>3, PushedMap DEF Reg
  <1>12. Filed(main', conn_arena')
    <2>1. ASSUME ~SendMayFail, NEW s \in DOMAIN conn_arena'
          PROVE  \E d \in Clients : main'[d].sub_id = s /\ main'[d].pc # "closed"
      <3>1. CASE s = next_id
        BY <1>3, <1>4, <3>1
      <3>2. CASE s # next_id
        <4>1. PICK d \in Clients : main[d].sub_id = s /\ main[d].pc # "closed"
          BY <1>1, <1>5, <2>1, <3>2 DEF Reg, Filed
        <4>2. main'[d] = main[d]
          BY <1>3, <1>5, <1>6, <2>1, <3>2, <4>1
        <4> QED BY <4>1, <4>2
      <3> QED BY <3>1, <3>2
    <2> QED BY <2>1 DEF Filed
  <1>13. Unstranded(main', conn_arena', tasks')
    <2>1. ASSUME ~SendMayFail, NEW s \in DOMAIN conn_arena', conn_arena'[s].io_buffer # <<>>
          PROVE  Attended(main', conn_arena', tasks', s)
      <3>1. s # next_id /\ s \in DOMAIN conn_arena /\ conn_arena'[s] = conn_arena[s]
        BY <1>4, <1>5, <2>1
      <3>2. Attended(main, conn_arena, tasks, s)
        BY <1>1, <2>1, <3>1 DEF Reg, Unstranded
      <3>3. \A d \in Clients : \/ main'[d] = main[d]
                               \/ main[d].sub_id # s /\ main'[d].flush = main[d].flush
        BY <1>3, <1>4, <1>6, <3>1
      <3> QED BY <1>3, <3>1, <3>2, <3>3 DEF Attended
    <2> QED BY <2>1 DEF Unstranded
  <1>14. Listing(main', conn_arena', conn_map')
    <2>1. ASSUME Disciplined, NEW d \in Clients,
                 main'[d].conn_state = "PubSub" \/ main'[d].pc = "pubsub_write"
          PROVE  conn_arena'[main'[d].sub_id].channel_count
                   = Cardinality(ListedIn(conn_map', main'[d].sub_id))
      <3>1. CASE d = c
        <4>1. ListedIn(conn_map, next_id) = {}
          BY <1>1, <1>6, <2>1 DEF Reg, Listing, ListedIn
        <4>2. ListedIn(conn_map', next_id) = {ch}
          BY <1>11, <4>1
        <4>3. Cardinality(ListedIn(conn_map', next_id)) = 1
          BY <4>2, FS_Singleton
        <4> QED BY <1>3, <1>4, <1>5, <3>1, <4>3
      <3>2. CASE d # c
        <4>1. main'[d] = main[d] /\ main[d].sub_id # next_id
          BY <1>3, <1>6, <3>2
        <4>2. main[d].sub_id \in DOMAIN conn_arena
          BY <1>1, <2>1, <4>1 DEF Own, MainOwn
        <4> QED BY <1>1, <1>5, <1>11, <2>1, <4>1, <4>2 DEF Reg, Listing
      <3> QED BY <3>1, <3>2
    <2>2. Disciplined => \A d \in Channels : DOMAIN conn_map'[d] \subseteq DOMAIN conn_arena'
      BY <1>1, <1>5, <1>11 DEF Reg, Listing
    <2> QED BY <2>1, <2>2 DEF Listing
  <1>15. Balanced(main', conn_arena', tasks', accepted, delivered)
    <2>1. ASSUME NEW d \in Clients, d # c
          PROVE  Balance(d, main'[d], conn_arena', tasks', accepted[d], delivered[d])
      <3>1. main'[d] = main[d] /\ Balance(d, main[d], conn_arena, tasks, accepted[d], delivered[d])
        BY <1>1, <1>3, <2>1 DEF Reg, Balanced
      <3>2. HeldIn(d, main[d], conn_arena', tasks') => HeldIn(d, main[d], conn_arena, tasks)
        BY <1>3, <1>4, <1>5 DEF HeldIn
      <3>3. /\ main[d].sub_id \in DOMAIN conn_arena <=> main[d].sub_id \in DOMAIN conn_arena'
            /\ main[d].sub_id \in DOMAIN conn_arena =>
                 conn_arena'[main[d].sub_id].io_buffer = conn_arena[main[d].sub_id].io_buffer
        BY <1>5, <1>6
      <3>4. Balance(d, main[d], conn_arena', tasks', accepted[d], delivered[d])
        BY <1>3, <3>1, <3>2, <3>3, OtherBalance
      <3> QED BY <3>1, <3>4
    <2>2. Balance(c, r, conn_arena', tasks', accepted[c], delivered[c])
      <3>1. Balance(c, main[c], conn_arena, tasks, accepted[c], delivered[c])
        BY <1>1 DEF Reg, Balanced
      <3>2. HeldIn(c, main[c], conn_arena, tasks) /\ main[c].pc # "closed"
        BY <1>2 DEF HeldIn, Holding
      <3>3. \A x \in Messages :
              Copies(r.buffer, x) + TaskCopies(tasks', c, x) + ConnCopies(conn_arena', r.sub_id, x)
                = Copies(main[c].buffer, x) + TaskCopies(tasks, c, x)
                    + ConnCopies(conn_arena, main[c].sub_id, x)
        <4>1. \A x : ConnCopies(conn_arena', r.sub_id, x) = 0
          BY <1>4, <1>5, CopiesEmpty DEF ConnCopies
        <4>2. \A x : ConnCopies(conn_arena, main[c].sub_id, x) = 0
          BY <1>6 DEF ConnCopies
        <4> QED BY <1>3, <1>9, <4>1, <4>2
      <3> QED BY <3>1, <3>2, <3>3, SameBalance
    <2>3. main'[c] = r
      BY <1>3
    <2> QED BY <1>1, <2>1, <2>2, <2>3 DEF Reg, Balanced
  <1>16. Reg(main', conn_arena', tasks', conn_map', accepted, delivered)
    BY <1>10, <1>11, <1>12, <1>13, <1>14, <1>15 DEF Reg
  <1> QED BY <1>8, <1>16

\* The panic of UNSUBSCRIBE while Normal leaves everything where it is.
LEMMA PanicReg ==
  ASSUME RegInv, NEW c \in Clients, UnsubscribeNormal(c)
  PROVE  Reg(main', conn_arena', tasks', conn_map', accepted, delivered) /\ Idle(main', Clients)
  <1>1. /\ main = [d \in Clients |-> main[d]] /\ IsMain(main[c])
        /\ Own(main, conn_arena, tasks, next_id) /\ Idle(main, Clients)
        /\ Reg(main, conn_arena, tasks, conn_map, accepted, delivered)
    BY DEF RegInv, CurrentInv, Inv, Shape
  <1>2. PICK m, r : m = main[c] /\ r = [m EXCEPT !.pc = "panicked"]
    OBVIOUS
  <1>3. r = [pc |-> "panicked", conn_state |-> m.conn_state, sub_id |-> m.sub_id,
             buffer |-> m.buffer, frames |-> m.frames, flush |-> m.flush, quit |-> m.quit]
    BY <1>1, <1>2 DEF IsMain
  <1>4. /\ m.pc = "read" /\ m.conn_state = "Normal" /\ main' = [main EXCEPT ![c] = r]
        /\ conn_arena' = conn_arena /\ tasks' = tasks /\ conn_map' = conn_map
    BY <1>2 DEF UnsubscribeNormal, Reads
  <1>5. /\ r.pc = "panicked" /\ r.conn_state = "Normal" /\ r.sub_id = m.sub_id
        /\ r.buffer = m.buffer /\ r.frames = m.frames /\ r.flush = m.flush
    BY <1>3, <1>4
  <1>6. main' = [d \in Clients |-> IF d = c THEN r ELSE main[d]]
    BY <1>1, <1>4, WithMain
  <1>7. /\ MainBuffers(m) /\ delivered[c] \in Seq(Nat) /\ MapShape(conn_map)
        /\ Balance(c, m, conn_arena, tasks, accepted[c], delivered[c])
        /\ \A t \in tasks : t.buffer \in Seq(Nat)
        /\ Listing(main, conn_arena, conn_map)
    BY <1>1, <1>2 DEF Reg, Buffers, Balanced
  <1>8. MainBuffers(r) /\ r.sub_id \notin DOMAIN conn_arena
    BY <1>1, <1>2, <1>4, <1>5, <1>7 DEF MainBuffers, Own, MainOwn
  <1>9. Local(c, main, conn_arena, tasks, r, main', conn_arena', tasks')
    BY <1>2, <1>4, <1>5, <1>6, <1>7, <1>8 DEF Local
  <1>10. Listing(main', conn_arena', conn_map')
    <2>1. Listing(main', conn_arena', conn_map)
      BY <1>1, <1>5, <1>7, <1>8, <1>9, SameListing
    <2> QED BY <1>4, <2>1
  <1>11. Balance(c, r, conn_arena', tasks', accepted[c], delivered[c])
    <2>1. HeldIn(c, m, conn_arena, tasks)
      BY <1>4 DEF HeldIn, Holding
    <2> QED BY <1>4, <1>5, <1>7, <2>1 DEF Balance
  <1>12. Reg(main', conn_arena', tasks', conn_map', accepted, delivered)
    BY <1>1, <1>4, <1>7, <1>8, <1>9, <1>10, <1>11, LocalReg
  <1>13. Idle(main', Clients)
    BY <1>1, <1>2, <1>4, <1>5, <1>6 DEF Idle
  <1> QED BY <1>12, <1>13

LEMMA EndReg ==
  ASSUME RegInv, NEW c \in Clients, ReadEnds(c) \/ Canceled(c) \/ NormalFailed(c)
  PROVE  Reg(main', conn_arena', tasks', conn_map', accepted, delivered) /\ Idle(main', Clients)
  <1>1. /\ main = [d \in Clients |-> main[d]] /\ Idle(main, Clients)
        /\ Inv(main, conn_arena, tasks, next_id)
        /\ Reg(main, conn_arena, tasks, conn_map, accepted, delivered)
    BY DEF RegInv, CurrentInv, Inv, Shape
  <1>2. PICK m : m = main[c]
    OBVIOUS
  <1>3. /\ Close(c, m, conn_arena, conn_map, tasks)
        /\ SendMayFail \/ m.pc = "read"
    BY <1>2 DEF ReadEnds, Canceled, NormalFailed
  <1>4. [main EXCEPT ![c] = m] = main
    BY <1>1, <1>2
  <1>5. SendMayFail \/ (m.pc = "read" /\ m.flush = {})
    BY <1>1, <1>2, <1>3 DEF Idle
  <1>6. Idle(main, Clients \ {c})
    BY <1>1 DEF Idle
  <1>7. /\ Inv([main EXCEPT ![c] = m], conn_arena, tasks, next_id)
        /\ Reg([main EXCEPT ![c] = m], conn_arena, tasks, conn_map, accepted, delivered)
    BY <1>1, <1>4
  <1> QED BY <1>1, <1>3, <1>5, <1>6, <1>7, CloseReg

LEMMA PubSubFailedReg ==
  ASSUME RegInv, NEW c \in Clients, PubSubFailed(c)
  PROVE  Reg(main', conn_arena', tasks', conn_map', accepted, delivered) /\ Idle(main', Clients)
  <1> USE NilIsNoClient
  <1>1. /\ main = [d \in Clients |-> main[d]] /\ Idle(main, Clients) /\ CurrentInv
        /\ Own(main, conn_arena, tasks, next_id) /\ Shape(main, conn_arena)
        /\ Reg(main, conn_arena, tasks, conn_map, accepted, delivered)
    BY DEF RegInv, CurrentInv, Inv, Shape
  <1>2. PICK m, s, k : m = main[c] /\ s = main[c].sub_id /\ k = conn_arena[s]
    OBVIOUS
  <1> DEFINE failed == TRUE
  <1>3. PICK k2, ar : k2 = [k EXCEPT !.canceled = failed] /\ ar = [conn_arena EXCEPT ![s] = k2]
    OBVIOUS
  <1>4. m.pc = "pubsub_write" /\ SendMayFail /\ Close(c, m, ar, conn_map, tasks)
    BY <1>2, <1>3 DEF PubSubFailed
  <1> HIDE DEF failed
  <1>5. s \in DOMAIN conn_arena
    BY <1>1, <1>2, <1>4 DEF Own, MainOwn
  <1>6. IsConn(k) /\ ConnBuffers(k) /\ k.write \in {Nil, c}
    BY <1>1, <1>2, <1>5 DEF Shape, Reg, Buffers, Own
  <1>7. k2 = [write |-> k.write, io_buffer |-> k.io_buffer, swap_buffer |-> k.swap_buffer,
              channel_count |-> k.channel_count, canceled |-> failed]
    BY <1>3, <1>6 DEF IsConn
  <1>8. /\ k2.write = k.write /\ k2.io_buffer = k.io_buffer /\ k2.swap_buffer = k.swap_buffer
        /\ k2.channel_count = k.channel_count /\ k2.canceled = failed /\ IsConn(k2)
    BY <1>7 DEF IsConn
  <1>9. ConnBuffers(k2)
    BY <1>6, <1>8 DEF ConnBuffers
  <1>10. /\ DOMAIN ar = DOMAIN conn_arena /\ ar[s] = k2
         /\ \A x \in DOMAIN conn_arena : x # s => ar[x] = conn_arena[x]
    BY <1>3, <1>5
  <1>11. Inv([main EXCEPT ![c] = m], ar, tasks, next_id)
    <2>1. k2.canceled
      BY <1>8 DEF failed
    <2> QED BY <1>1, <1>2, <1>3, <1>4, <1>8, <2>1, CancelInv
  <1>12. [main EXCEPT ![c] = m] = main /\ main = [d \in Clients |-> IF d = c THEN m ELSE main[d]]
    BY <1>1, <1>2
  <1>13. /\ MainBuffers(m) /\ delivered[c] \in Seq(Nat) /\ MapShape(conn_map)
         /\ Balance(c, m, conn_arena, tasks, accepted[c], delivered[c])
         /\ \A t \in tasks : t.buffer \in Seq(Nat)
         /\ Listing(main, conn_arena, conn_map)
    BY <1>1, <1>2 DEF Reg, Buffers, Balanced
  <1>14. Local(c, main, conn_arena, tasks, m, main, ar, tasks)
    BY <1>2, <1>6, <1>8, <1>9, <1>10, <1>12, <1>13 DEF Local
  <1>15. Listing(main, ar, conn_map)
    BY <1>1, <1>2, <1>8, <1>10, <1>13, <1>14, SameListing
  <1>16. Balance(c, m, ar, tasks, accepted[c], delivered[c])
    <2>1. HeldIn(c, m, conn_arena, tasks)
      BY <1>4 DEF HeldIn, Holding
    <2>2. \A x : ConnCopies(ar, m.sub_id, x) = ConnCopies(conn_arena, m.sub_id, x)
      BY <1>2, <1>8, <1>10 DEF ConnCopies
    <2> QED BY <1>13, <2>1, <2>2 DEF Balance
  <1>17. Reg(main, ar, tasks, conn_map, accepted, delivered)
    BY <1>1, <1>4, <1>13, <1>14, <1>15, <1>16, LocalReg
  <1>18. Idle(main, Clients \ {c})
    BY <1>1 DEF Idle
  <1>19. Reg([main EXCEPT ![c] = m], ar, tasks, conn_map, accepted, delivered)
    BY <1>12, <1>17
  <1> QED BY <1>1, <1>4, <1>11, <1>18, <1>19, CloseReg

\* What a main task received leaves its buffer.
LEMMA NormalWrittenReg ==
  ASSUME RegInv, NEW c \in Clients, NormalWritten(c)
  PROVE  /\ Reg(main', conn_arena', tasks', conn_map', accepted, delivered')
         /\ Idle(main', Clients) /\ delivered' = [d \in Clients |-> delivered'[d]]
  <1>1. /\ main = [d \in Clients |-> main[d]] /\ IsMain(main[c])
        /\ Idle(main, Clients) /\ CurrentInv
        /\ Own(main, conn_arena, tasks, next_id) /\ Shape(main, conn_arena)
        /\ Reg(main, conn_arena, tasks, conn_map, accepted, delivered)
    BY DEF RegInv, CurrentInv, Inv, Shape
  <1>2. PICK m : m = main[c]
    OBVIOUS
  <1>3. PICK r : r = [m EXCEPT !.pc = "read", !.conn_state = "Normal", !.buffer = <<>>]
    OBVIOUS
  <1>4. r = [pc |-> "read", conn_state |-> "Normal", sub_id |-> m.sub_id, buffer |-> <<>>,
             frames |-> m.frames, flush |-> m.flush, quit |-> m.quit]
    BY <1>1, <1>2, <1>3 DEF IsMain
  <1>5. /\ r.pc = "read" /\ r.conn_state = "Normal" /\ r.sub_id = m.sub_id /\ r.buffer = <<>>
        /\ r.frames = m.frames /\ r.flush = m.flush /\ IsMain(r)
    BY <1>4 DEF IsMain
  <1>6. m.pc = "normal_write" /\ Continue(c, r, conn_arena, conn_map, tasks)
    BY <1>2, <1>3 DEF NormalWritten
  <1>7. /\ MainBuffers(m) /\ delivered[c] \in Seq(Nat) /\ MapShape(conn_map)
        /\ Balance(c, m, conn_arena, tasks, accepted[c], delivered[c])
        /\ \A t \in tasks : t.buffer \in Seq(Nat)
        /\ Listing(main, conn_arena, conn_map) /\ m.buffer \in Seq(Nat)
    BY <1>1, <1>2 DEF Reg, Buffers, Balanced, MainBuffers
  <1>8. Got(delivered, delivered', c, m.buffer)
    <2>1. delivered = [d \in Clients |-> delivered[d]]
      BY DEF RegInv
    <2>2. Gets(delivered, delivered', c, m.buffer)
      BY <1>2, <1>7, <2>1 DEF NormalWritten, Received, Gets
    <2> QED BY <1>7, <2>2, ReceivedEffect
  <1>9. PICK W : W = [main EXCEPT ![c] = r]
    OBVIOUS
  <1>10. W = [d \in Clients |-> IF d = c THEN r ELSE main[d]]
    BY <1>1, <1>9, WithMain
  <1>11. MainBuffers(r) /\ r.sub_id \notin DOMAIN conn_arena /\ \A t \in tasks : t.write # c
    BY <1>1, <1>2, <1>5, <1>6, <1>7 DEF MainBuffers, Own, MainOwn, Holding
  <1>12. Local(c, main, conn_arena, tasks, r, W, conn_arena, tasks)
    BY <1>2, <1>5, <1>7, <1>10, <1>11 DEF Local
  <1>13. Listing(W, conn_arena, conn_map)
    BY <1>1, <1>5, <1>7, <1>11, <1>12, SameListing
  <1>14. Balance(c, r, conn_arena, tasks, accepted[c], delivered'[c])
    <2>1. HeldIn(c, m, conn_arena, tasks) /\ m.pc # "closed"
      BY <1>6 DEF HeldIn, Holding
    <2>2. \A x : /\ TaskCopies(tasks, c, x) = 0 /\ ConnCopies(conn_arena, r.sub_id, x) = 0
                 /\ Copies(r.buffer, x) = 0
      BY <1>5, <1>11, CopiesEmpty, TaskCopiesNone DEF ConnCopies
    <2>3. \A x : /\ Copies(delivered'[c], x) = Copies(delivered[c], x) + Copies(m.buffer, x)
                 /\ Copies(delivered[c], x) \in Nat /\ Copies(m.buffer, x) \in Nat
      BY <1>8 DEF Got
    <2>4. \A x \in Messages :
            Copies(accepted[c], x) = Copies(delivered[c], x) + (Copies(m.buffer, x) + 0 + 0)
      BY <1>5, <1>7, <2>1, <2>2 DEF Balance
    <2>5. \A x \in Messages : Copies(accepted[c], x) = Copies(delivered'[c], x) + (0 + 0 + 0)
      BY <2>3, <2>4
    <2> QED BY <2>2, <2>5 DEF Balance
  <1>15. /\ \A d \in Clients : d # c => delivered'[d] = delivered[d]
         /\ delivered'[c] \in Seq(Nat) /\ delivered' = [d \in Clients |-> delivered'[d]]
    BY <1>8 DEF Got
  <1>16. Reg(W, conn_arena, tasks, conn_map, accepted, delivered')
    BY <1>1, <1>7, <1>11, <1>12, <1>13, <1>14, <1>15, LocalReg
  <1>17. Inv(W, conn_arena, tasks, next_id)
    BY <1>1, <1>2, <1>5, <1>6, <1>9, WrittenInv
  <1>18. Idle(main, Clients \ {c})
    BY <1>1 DEF Idle
  <1>19. Reg(main', conn_arena', tasks', conn_map', accepted, delivered') /\ Idle(main', Clients)
    BY <1>1, <1>5, <1>6, <1>9, <1>16, <1>17, <1>18, ContinueReg
  <1> QED BY <1>15, <1>19

LEMMA PubSubWrittenReg ==
  ASSUME RegInv, NEW c \in Clients, PubSubWritten(c)
  PROVE  /\ Reg(main', conn_arena', tasks', conn_map', accepted, delivered')
         /\ Idle(main', Clients) /\ delivered' = [d \in Clients |-> delivered'[d]]
  <1> USE NilIsNoClient
  <1>1. /\ main = [d \in Clients |-> main[d]] /\ IsMain(main[c])
        /\ Idle(main, Clients) /\ CurrentInv
        /\ Own(main, conn_arena, tasks, next_id) /\ Shape(main, conn_arena)
        /\ Reg(main, conn_arena, tasks, conn_map, accepted, delivered)
    BY DEF RegInv, CurrentInv, Inv, Shape
  <1>2. PICK m, s, k : m = main[c] /\ s = m.sub_id /\ k = conn_arena[s]
    OBVIOUS
  <1>3. PICK r : r = [m EXCEPT !.pc = "read", !.conn_state = "PubSub", !.buffer = <<>>]
    OBVIOUS
  <1>4. r = [pc |-> "read", conn_state |-> "PubSub", sub_id |-> m.sub_id, buffer |-> <<>>,
             frames |-> m.frames, flush |-> m.flush, quit |-> m.quit]
    BY <1>1, <1>2, <1>3 DEF IsMain
  <1>5. /\ r.pc = "read" /\ r.conn_state = "PubSub" /\ r.sub_id = s /\ r.buffer = <<>>
        /\ r.frames = m.frames /\ r.flush = m.flush /\ IsMain(r)
    BY <1>2, <1>4 DEF IsMain
  <1>6. m.pc = "pubsub_write"
    BY <1>2 DEF PubSubWritten
  <1>7. /\ MainBuffers(m) /\ delivered[c] \in Seq(Nat) /\ MapShape(conn_map)
        /\ Balance(c, m, conn_arena, tasks, accepted[c], delivered[c])
        /\ \A t \in tasks : t.buffer \in Seq(Nat)
        /\ Listing(main, conn_arena, conn_map) /\ m.buffer \in Seq(Nat)
    BY <1>1, <1>2 DEF Reg, Buffers, Balanced, MainBuffers
  <1>8. Got(delivered, delivered', c, m.buffer)
    <2>1. delivered = [d \in Clients |-> delivered[d]]
      BY DEF RegInv
    <2>2. Gets(delivered, delivered', c, m.buffer)
      BY <1>2, <1>7, <2>1 DEF PubSubWritten, Received, Gets
    <2> QED BY <1>7, <2>2, ReceivedEffect
  <1>9. PICK W : W = [main EXCEPT ![c] = r]
    OBVIOUS
  <1>10. W = [d \in Clients |-> IF d = c THEN r ELSE main[d]]
    BY <1>1, <1>9, WithMain
  <1>11. PICK u : u = WriteTask(s, c, "spawned", <<>>)
    OBVIOUS
  <1>12. PICK ts : ts = tasks \cup {u}
    OBVIOUS
  <1>13. PICK k2, ar : k2 = Restituted(k, c) /\ ar = [conn_arena EXCEPT ![s] = k2]
    OBVIOUS
  <1>14. \/ k.io_buffer # <<>> /\ Continue(c, r, conn_arena, conn_map, ts)
         \/ k.io_buffer = <<>> /\ Continue(c, r, ar, conn_map, tasks)
    BY <1>2, <1>3, <1>11, <1>12, <1>13 DEF PubSubWritten
  <1>15. u.sub_id = s /\ u.write = c /\ u.buffer = <<>>
    BY <1>11 DEF WriteTask
  <1>16. s \in DOMAIN conn_arena /\ IsConn(k) /\ ConnBuffers(k)
    BY <1>1, <1>2, <1>6 DEF Own, MainOwn, Shape, Reg, Buffers
  <1>17. /\ k2.write = c /\ k2.io_buffer = k.io_buffer /\ k2.swap_buffer = <<>>
         /\ k2.channel_count = k.channel_count /\ k2.canceled = k.canceled /\ IsConn(k2)
    BY <1>13, <1>16, RestitutedFields DEF IsConn
  <1>18. /\ Inv(W, conn_arena, ts, next_id) /\ Inv(W, ar, tasks, next_id)
         /\ k.write = Nil /\ \A t \in tasks : t.write # c
    BY <1>1, <1>2, <1>5, <1>6, <1>9, <1>12, <1>13, <1>15, <1>17, HandedInv, ZenonT(30)
  <1>19. /\ DOMAIN ar = DOMAIN conn_arena /\ ar[s] = k2
         /\ \A x \in DOMAIN conn_arena : x # s => ar[x] = conn_arena[x]
    BY <1>13, <1>16
  <1>20. MainBuffers(r) /\ ConnBuffers(k2) /\ k.io_buffer \in Seq(Nat)
    BY <1>5, <1>7, <1>16, <1>17 DEF MainBuffers, ConnBuffers
  <1>21. /\ \A d \in Clients : d # c => delivered'[d] = delivered[d]
         /\ delivered'[c] \in Seq(Nat) /\ delivered' = [d \in Clients |-> delivered'[d]]
    BY <1>8 DEF Got
  <1>22. \A x \in Messages :
           Copies(accepted[c], x) = Copies(delivered'[c], x) + (0 + 0 + Copies(k.io_buffer, x))
    <2>1. HeldIn(c, m, conn_arena, tasks) /\ m.pc # "closed"
      BY <1>6 DEF HeldIn, Holding
    <2>2. \A x : TaskCopies(tasks, c, x) = 0 /\ ConnCopies(conn_arena, s, x) = Copies(k.io_buffer, x)
      BY <1>2, <1>16, <1>18, TaskCopiesNone DEF ConnCopies
    <2>3. \A x : /\ Copies(delivered'[c], x) = Copies(delivered[c], x) + Copies(m.buffer, x)
                 /\ Copies(delivered[c], x) \in Nat /\ Copies(m.buffer, x) \in Nat
                 /\ Copies(k.io_buffer, x) \in Nat
      BY <1>8, <1>20, CopiesNat DEF Got
    <2>4. \A x \in Messages :
            Copies(accepted[c], x)
              = Copies(delivered[c], x) + (Copies(m.buffer, x) + 0 + Copies(k.io_buffer, x))
      BY <1>2, <1>7, <2>1, <2>2 DEF Balance
    <2> QED BY <2>3, <2>4
  <1>23. Idle(main, Clients \ {c}) /\ r.flush = {}
    BY <1>1, <1>2, <1>5, <1>6 DEF Idle
  <1>24. CASE k.io_buffer # <<>> /\ Continue(c, r, conn_arena, conn_map, ts)
    <2>1. \A t \in ts : t.buffer \in Seq(Nat)
      <3>1. u.buffer \in Seq(Nat)
        BY <1>15
      <3> QED BY <1>7, <1>12, <3>1
    <2>2. \A t : t.write # c => (t \in ts <=> t \in tasks)
      BY <1>12, <1>15
    <2>3. Local(c, main, conn_arena, tasks, r, W, conn_arena, ts)
      BY <1>2, <1>5, <1>10, <1>16, <1>18, <1>20, <2>1, <2>2 DEF Local
    <2>4. Listing(W, conn_arena, conn_map)
      BY <1>1, <1>2, <1>6, <1>7, <2>3, SameListing
    <2>5. Balance(c, r, conn_arena, ts, accepted[c], delivered'[c])
      <3>1. \A x : TaskCopies(ts, c, x) = 0
        <4>1. \A v \in ts : v.write = u.write => v = u
          BY <1>12, <1>15, <1>18
        <4>2. u \in ts /\ u.buffer \in Seq(Nat)
          BY <1>12, <1>15
        <4>3. \A x : TaskCopies(ts, u.write, x) = Copies(u.buffer, x)
          BY <4>1, <4>2, TaskCopiesOne
        <4> QED BY <1>15, <4>3, CopiesEmpty
      <3>2. \A x : Copies(r.buffer, x) = 0 /\ ConnCopies(conn_arena, r.sub_id, x) = Copies(k.io_buffer, x)
        BY <1>2, <1>5, <1>16, CopiesEmpty DEF ConnCopies
      <3> QED BY <1>22, <3>1, <3>2 DEF Balance
    <2>6. Attended(W, conn_arena, ts, r.sub_id)
      BY <1>5, <1>12, <1>15 DEF Attended
    <2>7. Reg(W, conn_arena, ts, conn_map, accepted, delivered')
      <3>1. /\ MapShape(conn_map) /\ delivered'[c] \in Seq(Nat)
            /\ \A d \in Clients : d # c => delivered'[d] = delivered[d]
        BY <1>7, <1>21
      <3> QED BY <1>1, <2>3, <2>4, <2>5, <2>6, <3>1, LocalReg
    <2>8. Reg(main', conn_arena', tasks', conn_map', accepted, delivered') /\ Idle(main', Clients)
      BY <1>1, <1>5, <1>9, <1>18, <1>23, <1>24, <2>7, ContinueReg
    <2> QED BY <1>21, <2>8
  <1>25. CASE k.io_buffer = <<>> /\ Continue(c, r, ar, conn_map, tasks)
    <2>1. Local(c, main, conn_arena, tasks, r, W, ar, tasks)
      BY <1>2, <1>5, <1>7, <1>10, <1>16, <1>17, <1>19, <1>20 DEF Local
    <2>2. Listing(W, ar, conn_map)
      BY <1>1, <1>2, <1>5, <1>6, <1>7, <1>17, <1>19, <2>1, SameListing
    <2>3. Balance(c, r, ar, tasks, accepted[c], delivered'[c])
      <3>1. \A x : TaskCopies(tasks, c, x) = 0 /\ Copies(r.buffer, x) = 0
        BY <1>5, <1>18, TaskCopiesNone, CopiesEmpty
      <3>2. \A x : ConnCopies(ar, r.sub_id, x) = Copies(k.io_buffer, x)
        BY <1>5, <1>16, <1>17, <1>19 DEF ConnCopies
      <3> QED BY <1>22, <3>1, <3>2 DEF Balance
    <2>4. ar[r.sub_id].io_buffer = <<>>
      BY <1>5, <1>17, <1>19, <1>25
    <2>5. Reg(W, ar, tasks, conn_map, accepted, delivered')
      BY <1>1, <1>7, <1>21, <2>1, <2>2, <2>3, <2>4, LocalReg
    <2>6. Reg(main', conn_arena', tasks', conn_map', accepted, delivered') /\ Idle(main', Clients)
      BY <1>1, <1>5, <1>9, <1>18, <1>23, <1>25, <2>5, ContinueReg
    <2> QED BY <1>21, <2>6
  <1> QED BY <1>14, <1>24, <1>25

\* The configuration PUBLISH hands to its continuation: the Conns of subs have
\* more(s) appended to their io_buffer, and subs are to be flushed.
More(ch) == [s \in DOMAIN conn_map[ch] |-> [i \in 1 .. conn_map[ch][s] |-> published + 1]]

Encoded(c, ch, subs, more, f, m, ar) ==
  /\ subs = DOMAIN conn_map[ch] \cap DOMAIN conn_arena
  /\ main[c].pc = "read" /\ main[c].conn_state = "Normal"
  /\ f \in Seq({Reply}) /\ f # <<>>
  /\ m = [pc |-> main[c].pc, conn_state |-> main[c].conn_state, sub_id |-> main[c].sub_id,
          buffer |-> main[c].buffer, frames |-> f, flush |-> subs, quit |-> main[c].quit]
  /\ \A s \in subs : more[s] \in Seq(Nat)
  /\ ar = [s \in DOMAIN conn_arena |->
             IF s \in subs
             THEN [write |-> conn_arena[s].write, io_buffer |-> conn_arena[s].io_buffer \o more[s],
                   swap_buffer |-> conn_arena[s].swap_buffer,
                   channel_count |-> conn_arena[s].channel_count,
                   canceled |-> conn_arena[s].canceled]
             ELSE conn_arena[s]]
  /\ accepted' = [d \in Clients |->
                    IF main[d].sub_id \in subs /\ main[d].pc # "closed"
                    THEN accepted[d] \o more[main[d].sub_id] ELSE accepted[d]]

LEMMA MoreFrames ==
  ASSUME RegInv, NEW ch \in Channels
  PROVE  \A s \in DOMAIN conn_map[ch] : More(ch)[s] \in Seq(Nat)
  <1>1. published + 1 \in Nat /\ \A s \in DOMAIN conn_map[ch] : conn_map[ch][s] \in Nat
    BY DEF RegInv, Reg, MapShape
  <1> QED BY <1>1 DEF More

LEMMA PublishEffect ==
  ASSUME RegInv, NEW c \in Clients, NEW ch \in Channels, Publish(c, ch)
  PROVE  \E subs, more, f, m, ar :
           Encoded(c, ch, subs, more, f, m, ar) /\ Send(c, m, ar, conn_map, tasks)
  <1>1. /\ main = [d \in Clients |-> main[d]] /\ IsMain(main[c])
        /\ \A s \in DOMAIN conn_arena : IsConn(conn_arena[s])
    BY DEF RegInv, CurrentInv, Inv, Shape
  <1>2. PICK q, f : /\ q = Replying(c, 1) /\ f \in Seq({Reply}) /\ f # <<>>
                    /\ q = [pc |-> main[c].pc, conn_state |-> main[c].conn_state,
                            sub_id |-> main[c].sub_id, buffer |-> main[c].buffer,
                            frames |-> f, flush |-> main[c].flush, quit |-> main[c].quit]
    BY <1>1, ReplyingFields
  <1>3. PICK subs : subs = DOMAIN conn_map[ch] \cap DOMAIN conn_arena
    OBVIOUS
  <1>4. PICK m : m = [q EXCEPT !.flush = subs]
    OBVIOUS
  <1>5. m = [pc |-> main[c].pc, conn_state |-> main[c].conn_state, sub_id |-> main[c].sub_id,
             buffer |-> main[c].buffer, frames |-> f, flush |-> subs, quit |-> main[c].quit]
    BY <1>2, <1>4
  <1>6. PICK more : more = More(ch)
    OBVIOUS
  <1>7. \A s \in subs : /\ more[s] = [i \in 1 .. conn_map[ch][s] |-> published + 1]
                        /\ more[s] \in Seq(Nat)
    BY <1>3, <1>6, MoreFrames DEF More
  <1>8. PICK ar : ar = [s \in DOMAIN conn_arena |->
                          IF s \in subs
                          THEN [conn_arena[s] EXCEPT !.io_buffer = conn_arena[s].io_buffer \o more[s]]
                          ELSE conn_arena[s]]
    OBVIOUS
  <1>9. ar = [s \in DOMAIN conn_arena |->
                IF s \in subs
                THEN [write |-> conn_arena[s].write,
                      io_buffer |-> conn_arena[s].io_buffer \o more[s],
                      swap_buffer |-> conn_arena[s].swap_buffer,
                      channel_count |-> conn_arena[s].channel_count,
                      canceled |-> conn_arena[s].canceled]
                ELSE conn_arena[s]]
    <2> DEFINE full(s) == conn_arena[s].io_buffer \o more[s]
    <2> HIDE DEF full
    <2>1. \A s \in DOMAIN conn_arena :
            [conn_arena[s] EXCEPT !.io_buffer = full(s)]
              = [write |-> conn_arena[s].write, io_buffer |-> full(s),
                 swap_buffer |-> conn_arena[s].swap_buffer,
                 channel_count |-> conn_arena[s].channel_count,
                 canceled |-> conn_arena[s].canceled]
      BY <1>1, BufferedFields
    <2> QED BY <1>8, <2>1 DEF full
  <1>10. /\ Send(c, m, ar, conn_map, tasks)
         /\ accepted' = [d \in Clients |->
                           IF main[d].sub_id \in subs /\ main[d].pc # "closed"
                           THEN accepted[d] \o more[main[d].sub_id] ELSE accepted[d]]
    <2> DEFINE Enc(s) == [i \in 1 .. conn_map[ch][s] |-> published + 1]
    <2>1. /\ Send(c, m, [s \in DOMAIN conn_arena |->
                           IF s \in subs
                           THEN [conn_arena[s] EXCEPT !.io_buffer = conn_arena[s].io_buffer \o Enc(s)]
                           ELSE conn_arena[s]], conn_map, tasks)
          /\ accepted' = [d \in Clients |->
                            IF main[d].sub_id \in subs /\ main[d].pc # "closed"
                            THEN accepted[d] \o Enc(main[d].sub_id) ELSE accepted[d]]
      BY <1>2, <1>3, <1>4 DEF Publish
    <2>2. \A s \in subs : more[s] = Enc(s)
      BY <1>7
    <2> HIDE DEF Enc
    <2>3. ar = [s \in DOMAIN conn_arena |->
                  IF s \in subs
                  THEN [conn_arena[s] EXCEPT !.io_buffer = conn_arena[s].io_buffer \o Enc(s)]
                  ELSE conn_arena[s]]
      BY <1>8, <2>2
    <2> QED BY <2>1, <2>2, <2>3
  <1>11. main[c].pc = "read" /\ main[c].conn_state = "Normal"
    BY DEF Publish, Reads
  <1>12. Encoded(c, ch, subs, more, f, m, ar)
    BY <1>2, <1>3, <1>5, <1>7, <1>9, <1>10, <1>11 DEF Encoded
  <1> QED BY <1>10, <1>12

LEMMA PublishReg ==
  ASSUME RegInv, NEW c \in Clients, NEW ch \in Channels, Publish(c, ch)
  PROVE  /\ Reg(main', conn_arena', tasks', conn_map', accepted', delivered)
         /\ Idle(main', Clients) /\ published' \in Nat
         /\ accepted' = [d \in Clients |-> accepted'[d]]
  <1>1. /\ main = [d \in Clients |-> main[d]] /\ IsMain(main[c])
        /\ Idle(main, Clients) /\ CurrentInv
        /\ Own(main, conn_arena, tasks, next_id) /\ Shape(main, conn_arena)
        /\ Reg(main, conn_arena, tasks, conn_map, accepted, delivered)
    BY DEF RegInv, CurrentInv, Inv, Shape
  <1>2. PICK subs, more, f, m, ar :
          Encoded(c, ch, subs, more, f, m, ar) /\ Send(c, m, ar, conn_map, tasks)
    BY PublishEffect
  <1>3. /\ subs \subseteq DOMAIN conn_arena /\ main[c].pc = "read" /\ main[c].conn_state = "Normal"
        /\ f \in Seq({Reply}) /\ f # <<>>
        /\ \A s \in subs : more[s] \in Seq(Nat)
    BY <1>2 DEF Encoded
  <1>4. /\ m.pc = "read" /\ m.conn_state = "Normal" /\ m.sub_id = main[c].sub_id
        /\ m.buffer = main[c].buffer /\ m.frames = f /\ m.flush = subs /\ IsMain(m)
    <2>1. m = [pc |-> main[c].pc, conn_state |-> main[c].conn_state, sub_id |-> main[c].sub_id,
               buffer |-> main[c].buffer, frames |-> f, flush |-> subs, quit |-> main[c].quit]
      BY <1>2 DEF Encoded
    <2> QED BY <1>3, <2>1 DEF IsMain
  <1>5. /\ DOMAIN ar = DOMAIN conn_arena /\ ar = [s \in DOMAIN conn_arena |-> ar[s]]
        /\ \A s \in DOMAIN conn_arena :
             /\ ar[s].write = conn_arena[s].write /\ ar[s].canceled = conn_arena[s].canceled
             /\ ar[s].swap_buffer = conn_arena[s].swap_buffer
             /\ ar[s].channel_count = conn_arena[s].channel_count /\ IsConn(ar[s])
        /\ \A s \in subs : ar[s].io_buffer = conn_arena[s].io_buffer \o more[s]
        /\ \A s \in DOMAIN conn_arena : s \notin subs => ar[s].io_buffer = conn_arena[s].io_buffer
    <2>1. ar = [s \in DOMAIN conn_arena |->
                  IF s \in subs
                  THEN [write |-> conn_arena[s].write,
                        io_buffer |-> conn_arena[s].io_buffer \o more[s],
                        swap_buffer |-> conn_arena[s].swap_buffer,
                        channel_count |-> conn_arena[s].channel_count,
                        canceled |-> conn_arena[s].canceled]
                  ELSE conn_arena[s]]
      BY <1>2 DEF Encoded
    <2>2. \A s \in DOMAIN conn_arena : IsConn(conn_arena[s])
      BY <1>1 DEF Shape
    <2> QED BY <1>3, <2>1, <2>2 DEF IsConn
  <1>6. /\ accepted' = [d \in Clients |-> accepted'[d]]
        /\ \A d \in Clients :
             /\ main[d].sub_id \in subs /\ main[d].pc # "closed" =>
                  accepted'[d] = accepted[d] \o more[main[d].sub_id]
             /\ ~(main[d].sub_id \in subs /\ main[d].pc # "closed") => accepted'[d] = accepted[d]
    BY <1>2 DEF Encoded
  <1>7. PICK W : W = [main EXCEPT ![c] = m]
    OBVIOUS
  <1>8. W = [d \in Clients |-> IF d = c THEN m ELSE main[d]]
    BY <1>1, <1>7, WithMain
  <1>9. \A d \in Clients : /\ W[d].pc = main[d].pc /\ W[d].conn_state = main[d].conn_state
                           /\ W[d].sub_id = main[d].sub_id /\ W[d].buffer = main[d].buffer
                           /\ main[d].flush \subseteq W[d].flush
    <2>1. main[c].flush = {}
      BY <1>1, <1>3 DEF Idle
    <2> QED BY <1>3, <1>4, <1>8, <2>1
  <1>10. Inv(W, ar, tasks, next_id)
    BY <1>1, <1>3, <1>4, <1>5, <1>7, TouchInv
  <1>11. Buffers(W, ar, tasks)
    <2>1. MainBuffers(m)
      BY <1>1, <1>3, <1>4 DEF Reg, Buffers, MainBuffers
    <2>2. \A d \in Clients : MainBuffers(W[d])
      BY <1>1, <1>8, <2>1 DEF Reg, Buffers
    <2>3. \A s \in DOMAIN conn_arena : conn_arena[s].io_buffer \in Seq(Nat)
      BY <1>1 DEF Reg, Buffers, ConnBuffers
    <2>4. \A s \in DOMAIN conn_arena : ar[s].io_buffer \in Seq(Nat)
      <3>1. \A s \in subs : conn_arena[s].io_buffer \o more[s] \in Seq(Nat)
        BY <1>3, <2>3
      <3> QED BY <1>5, <2>3, <3>1
    <2>5. \A s \in DOMAIN ar : ConnBuffers(ar[s])
      BY <1>1, <1>5, <2>4 DEF Reg, Buffers, ConnBuffers
    <2> QED BY <1>1, <2>2, <2>5 DEF Reg, Buffers
  <1>12. Filed(W, ar)
    BY <1>1, <1>5, <1>9 DEF Reg, Filed
  <1>13. Unstranded(W, ar, tasks)
    <2>1. ASSUME ~SendMayFail, NEW s \in DOMAIN ar, ar[s].io_buffer # <<>>
          PROVE  Attended(W, ar, tasks, s)
      <3>1. CASE s \in subs
        BY <1>4, <1>8, <3>1 DEF Attended
      <3>2. CASE s \notin subs
        <4>1. Attended(main, conn_arena, tasks, s)
          BY <1>1, <1>5, <2>1, <3>2 DEF Reg, Unstranded
        <4> QED BY <1>5, <1>9, <2>1, <4>1 DEF Attended
      <3> QED BY <3>1, <3>2
    <2> QED BY <2>1 DEF Unstranded
  <1>14. Listing(W, ar, conn_map)
    <2>1. \A d \in Clients : main[d].conn_state = "PubSub" \/ main[d].pc = "pubsub_write" =>
            main[d].sub_id \in DOMAIN conn_arena
      BY <1>1 DEF Own, MainOwn
    <2> QED BY <1>1, <1>5, <1>9, <2>1 DEF Reg, Listing
  <1>15. Balanced(W, ar, tasks, accepted', delivered)
    <2>1. ASSUME NEW d \in Clients
          PROVE  /\ accepted'[d] \in Seq(Nat) /\ delivered[d] \in Seq(Nat)
                 /\ Balance(d, W[d], ar, tasks, accepted'[d], delivered[d])
      <3>1. /\ accepted[d] \in Seq(Nat) /\ delivered[d] \in Seq(Nat)
            /\ Balance(d, main[d], conn_arena, tasks, accepted[d], delivered[d])
            /\ main[d].buffer \in Seq(Nat)
        BY <1>1 DEF Reg, Balanced, Buffers, MainBuffers
      <3>2. HeldIn(d, W[d], ar, tasks) => HeldIn(d, main[d], conn_arena, tasks)
        BY <1>5, <1>9 DEF HeldIn, Holding
      <3>3. CASE main[d].sub_id \in subs /\ main[d].pc # "closed"
        <4>1. PICK s, b, a : s = main[d].sub_id /\ b = conn_arena[s].io_buffer /\ a = more[s]
          OBVIOUS
        <4>2. s \in DOMAIN conn_arena /\ b \in Seq(Nat) /\ a \in Seq(Nat)
          BY <1>1, <1>3, <3>3, <4>1 DEF Reg, Buffers, ConnBuffers
        <4>3. /\ accepted'[d] = accepted[d] \o a /\ W[d].sub_id = s
              /\ ar[s].io_buffer = b \o a
          BY <1>5, <1>6, <1>9, <3>3, <4>1
        <4>4. \A x : /\ ConnCopies(conn_arena, s, x) = Copies(b, x)
                     /\ ConnCopies(ar, s, x) = Copies(b, x) + Copies(a, x)
                     /\ Copies(accepted'[d], x) = Copies(accepted[d], x) + Copies(a, x)
          <5>1. \A x : Copies(b \o a, x) = Copies(b, x) + Copies(a, x)
            BY <4>2, CopiesConcat
          <5>2. \A x : Copies(accepted[d] \o a, x) = Copies(accepted[d], x) + Copies(a, x)
            BY <3>1, <4>2, CopiesConcat
          <5> QED BY <1>5, <4>1, <4>2, <4>3, <5>1, <5>2 DEF ConnCopies
        <4>5. ASSUME W[d].pc # "closed", HeldIn(d, W[d], ar, tasks), NEW x \in Messages
              PROVE  Copies(accepted'[d], x)
                       = Copies(delivered[d], x) + (Copies(W[d].buffer, x)
                           + TaskCopies(tasks, d, x) + ConnCopies(ar, W[d].sub_id, x))
          <5>1. Copies(accepted[d], x)
                  = Copies(delivered[d], x) + (Copies(main[d].buffer, x)
                      + TaskCopies(tasks, d, x) + Copies(b, x))
            BY <3>1, <3>2, <3>3, <4>1, <4>4, <4>5 DEF Balance
          <5>2. /\ Copies(accepted[d], x) \in Nat /\ Copies(delivered[d], x) \in Nat
                /\ Copies(main[d].buffer, x) \in Nat /\ Copies(b, x) \in Nat
                /\ Copies(a, x) \in Nat
            BY <3>1, <4>2, CopiesNat
          <5>3. TaskCopies(tasks, d, x) \in Nat
            <6>1. CASE \E t \in tasks : t.write = d
              <7>1. PICK t \in tasks : t.write = d
                BY <6>1
              <7>2. /\ t.buffer \in Seq(Nat) /\ \A u \in tasks : u.write = t.write => u = t
                BY <1>1 DEF Own, Reg, Buffers
              <7>3. TaskCopies(tasks, t.write, x) = Copies(t.buffer, x)
                BY <7>2, TaskCopiesOne
              <7> QED BY <7>1, <7>2, <7>3, CopiesNat
            <6>2. CASE \A t \in tasks : t.write # d
              BY <6>2, TaskCopiesNone
            <6> QED BY <6>1, <6>2
          <5>4. W[d].buffer = main[d].buffer
            BY <1>9
          <5> QED BY <4>3, <4>4, <5>1, <5>2, <5>3, <5>4
        <4>6. accepted'[d] \in Seq(Nat)
          BY <3>1, <4>2, <4>3
        <4> QED BY <3>1, <4>5, <4>6 DEF Balance
      <3>4. CASE main[d].pc = "closed"
        BY <1>6, <1>9, <3>1, <3>4 DEF Balance
      <3>5. CASE main[d].sub_id \notin subs
        <4>1. accepted'[d] = accepted[d]
          BY <1>6, <3>5
        <4>2. \A x : ConnCopies(ar, W[d].sub_id, x) = ConnCopies(conn_arena, main[d].sub_id, x)
          BY <1>5, <1>9, <3>5 DEF ConnCopies
        <4>3. W[d].buffer = main[d].buffer /\ W[d].pc = main[d].pc
          BY <1>9
        <4> QED BY <3>1, <3>2, <4>1, <4>2, <4>3 DEF Balance
      <3> QED BY <3>3, <3>4, <3>5
    <2> QED BY <2>1 DEF Balanced
  <1>16. Reg(W, ar, tasks, conn_map, accepted', delivered)
    BY <1>1, <1>11, <1>12, <1>13, <1>14, <1>15 DEF Reg
  <1>17. Idle(main, Clients \ {c})
    BY <1>1 DEF Idle
  <1>18. Reg(main', conn_arena', tasks', conn_map', accepted', delivered) /\ Idle(main', Clients)
    BY <1>1, <1>2, <1>3, <1>4, <1>7, <1>10, <1>16, <1>17, SendReg
  <1>19. published' \in Nat
    BY DEF Publish, RegInv
  <1> QED BY <1>6, <1>18, <1>19

-----------------------------------------------------------------------------
(* The specification keeps the invariant.                                  *)

LEMMA InitReg == Init => RegInv
  <1> SUFFICES ASSUME Init PROVE RegInv
    OBVIOUS
  <1>1. CurrentInv
    BY InitInv DEF CurrentInv
  <1>2. /\ DOMAIN conn_arena = {} /\ tasks = {} /\ published \in Nat
        /\ accepted = [c \in Clients |-> <<>>] /\ delivered = [c \in Clients |-> <<>>]
        /\ \A c \in Clients : /\ main[c].pc = "read" /\ main[c].conn_state = "Normal"
                              /\ main[c].buffer = <<>> /\ main[c].frames = <<>>
                              /\ main[c].flush = {}
    BY DEF Init
  <1>3. MapShape(conn_map) /\ \A ch \in Channels : DOMAIN conn_map[ch] = {}
    BY DEF Init, MapShape
  <1>4. Buffers(main, conn_arena, tasks)
    <2>1. <<>> \in Seq(Nat) /\ <<>> \in Seq({Reply})
      OBVIOUS
    <2> QED BY <1>2, <2>1 DEF Buffers, MainBuffers
  <1>5. Filed(main, conn_arena) /\ Unstranded(main, conn_arena, tasks)
    BY <1>2 DEF Filed, Unstranded
  <1>6. Listing(main, conn_arena, conn_map)
    BY <1>2, <1>3 DEF Listing
  <1>7. Balanced(main, conn_arena, tasks, accepted, delivered)
    <2>1. \A c \in Clients : accepted[c] = <<>> /\ delivered[c] = <<>> /\ main[c].buffer = <<>>
      BY <1>2
    <2>2. \A c \in Clients : \A x :
            /\ Copies(accepted[c], x) = 0 /\ Copies(delivered[c], x) = 0
            /\ Copies(main[c].buffer, x) = 0 /\ TaskCopies(tasks, c, x) = 0
            /\ ConnCopies(conn_arena, main[c].sub_id, x) = 0
      BY <1>2, <2>1, CopiesEmpty, TaskCopiesNone DEF ConnCopies
    <2>3. <<>> \in Seq(Nat) /\ 0 = 0 + (0 + 0 + 0)
      OBVIOUS
    <2> QED BY <2>1, <2>2, <2>3 DEF Balanced, Balance
  <1>8. Idle(main, Clients)
    BY <1>2 DEF Idle
  <1>9. Reg(main, conn_arena, tasks, conn_map, accepted, delivered)
    BY <1>3, <1>4, <1>5, <1>6, <1>7 DEF Reg
  <1> QED BY <1>1, <1>2, <1>8, <1>9 DEF RegInv

LEMMA NextReg == RegInv /\ [Next]_vars => RegInv'
  <1> SUFFICES ASSUME RegInv, [Next]_vars PROVE RegInv'
    OBVIOUS
  <1>1. CurrentInv'
    BY NextInv DEF RegInv
  <1>2. /\ published \in Nat /\ accepted = [c \in Clients |-> accepted[c]]
        /\ delivered = [c \in Clients |-> delivered[c]] /\ Idle(main, Clients)
    BY DEF RegInv
  <1> DEFINE Kept == UNCHANGED <<published, accepted, delivered>>
             Post == /\ Reg(main', conn_arena', tasks', conn_map', accepted', delivered')
                     /\ Idle(main', Clients) /\ published' \in Nat
                     /\ accepted' = [c \in Clients |-> accepted'[c]]
                     /\ delivered' = [c \in Clients |-> delivered'[c]]
  <1>3. ASSUME Kept,
               Reg(main', conn_arena', tasks', conn_map', accepted, delivered),
               Idle(main', Clients)
        PROVE  Post
    BY <1>2, <1>3
  <1>4. ASSUME UNCHANGED vars PROVE Post
    <2>1. Kept /\ UNCHANGED <<main, conn_arena, conn_map, tasks>>
      BY <1>4 DEF vars
    <2>2. Reg(main, conn_arena, tasks, conn_map, accepted, delivered)
      BY DEF RegInv
    <2> QED BY <1>2, <1>3, <2>1, <2>2
  <1>5. ASSUME NEW c \in Clients, Command(c) PROVE Post
    <2>1. CASE Ping(c) \/ Quit(c)
      <3>1. Kept
        BY <2>1 DEF Ping, Quit
      <3> QED BY <1>3, <2>1, <3>1, PingReg
    <2>2. CASE UnsubscribeNormal(c)
      <3>1. Kept
        BY <2>2 DEF UnsubscribeNormal
      <3> QED BY <1>3, <2>2, <3>1, PanicReg
    <2>3. CASE ReadEnds(c)
      <3>1. Kept
        BY <2>3 DEF ReadEnds
      <3> QED BY <1>3, <2>3, <3>1, EndReg
    <2>4. ASSUME NEW ch \in Channels, SubscribeFirst(c, ch) PROVE Post
      <3>1. Kept
        BY <2>4 DEF SubscribeFirst
      <3> QED BY <1>3, <2>4, <3>1, SubscribeFirstReg
    <2>5. ASSUME NEW ch \in Channels, SubscribeMore(c, ch) PROVE Post
      <3>1. Kept
        BY <2>5 DEF SubscribeMore
      <3> QED BY <1>3, <2>5, <3>1, SubscribeMoreReg
    <2>6. ASSUME NEW ch \in Channels, Publish(c, ch) PROVE Post
      <3>1. delivered' = delivered
        BY <2>6 DEF Publish
      <3>2. Reg(main', conn_arena', tasks', conn_map', accepted', delivered)
            /\ Idle(main', Clients) /\ published' \in Nat
            /\ accepted' = [d \in Clients |-> accepted'[d]]
        BY <2>6, PublishReg
      <3> QED BY <1>2, <3>1, <3>2
    <2>7. ASSUME NEW channels \in SUBSET Channels, Unsubscribe(c, channels) PROVE Post
      <3>1. Kept
        BY <2>7 DEF Unsubscribe
      <3> QED BY <1>3, <2>7, <3>1, UnsubscribeReg
    <2> QED BY <1>5, <2>1, <2>2, <2>3, <2>4, <2>5, <2>6, <2>7 DEF Command
  <1>6. ASSUME NEW c \in Clients, Canceled(c) \/ WriteEnds(c) PROVE Post
    <2>1. CASE Canceled(c) \/ NormalFailed(c)
      <3>1. Kept
        BY <2>1 DEF Canceled, NormalFailed
      <3> QED BY <1>3, <2>1, <3>1, EndReg
    <2>2. CASE PubSubFailed(c)
      <3>1. Kept
        BY <2>2 DEF PubSubFailed
      <3> QED BY <1>3, <2>2, <3>1, PubSubFailedReg
    <2>3. CASE NormalWritten(c)
      <3>1. UNCHANGED <<published, accepted>>
        BY <2>3 DEF NormalWritten
      <3> QED BY <1>2, <2>3, <3>1, NormalWrittenReg
    <2>4. CASE PubSubWritten(c)
      <3>1. UNCHANGED <<published, accepted>>
        BY <2>4 DEF PubSubWritten
      <3> QED BY <1>2, <2>4, <3>1, PubSubWrittenReg
    <2> QED BY <1>6, <2>1, <2>2, <2>3, <2>4 DEF WriteEnds
  <1>7. ASSUME NEW t \in tasks, TaskStep(t) PROVE Post
    <2>1. CASE TaskStart(t)
      <3>1. Kept /\ main' = main /\ conn_map' = conn_map
        BY <2>1 DEF TaskStart
      <3> QED BY <1>2, <1>3, <2>1, <3>1, TaskStartReg
    <2>2. CASE TaskFailed(t)
      <3>1. Kept /\ main' = main /\ conn_map' = conn_map
        BY <2>2 DEF TaskFailed
      <3> QED BY <1>2, <1>3, <2>2, <3>1, TaskFailedReg
    <2>3. CASE TaskWritten(t)
      <3>1. UNCHANGED <<published, accepted, main, conn_map>>
        BY <2>3 DEF TaskWritten
      <3> QED BY <1>2, <2>3, <3>1, TaskWrittenReg
    <2> QED BY <1>7, <2>1, <2>2, <2>3 DEF TaskStep
  <1> HIDE DEF Post
  <1>8. Post
    BY <1>4, <1>5, <1>6, <1>7 DEF Next
  <1> QED BY <1>1, <1>8 DEF RegInv, Post

\* What every theorem below takes its property from.
LEMMA RegAlways == Spec => []RegInv
  BY InitReg, NextReg, PTL DEF Spec

LEMMA RegImplies ==
  ASSUME RegInv
  PROVE  /\ NothingLostOrDoubled
         /\ Disciplined => RegistryConsistent
         /\ ~SendMayFail => NothingStranded
         /\ Disciplined /\ ~SendMayFail => CleanedUp
  <1>1. /\ Own(main, conn_arena, tasks, next_id)
        /\ Reg(main, conn_arena, tasks, conn_map, accepted, delivered)
    BY DEF RegInv, CurrentInv, Inv
  <1>2. NothingLostOrDoubled
    <2>1. \A c \in Clients : IsHeld(c) => HeldIn(c, main[c], conn_arena, tasks)
      BY DEF IsHeld, MainHolds, ConnHolds, TaskHolds, HeldIn, Holding
    <2>2. \A c \in Clients : \A x : Queued(c, x) = Copies(main[c].buffer, x) + TaskCopies(tasks, c, x)
                                                 + ConnCopies(conn_arena, main[c].sub_id, x)
      BY DEF Queued, ConnCopies
    <2> QED BY <1>1, <2>1, <2>2 DEF NothingLostOrDoubled, Reg, Balanced, Balance
  <1>3. Disciplined => RegistryConsistent
    <2>1. \A s : Subscribed(s) = ListedIn(conn_map, s)
      BY DEF Subscribed, ListedIn
    <2>2. \A c \in Clients : main[c].conn_state = "PubSub" \/ main[c].pc = "pubsub_write" =>
            main[c].sub_id \in DOMAIN conn_arena
      BY <1>1 DEF Own, MainOwn
    <2> QED BY <1>1, <2>1, <2>2 DEF RegistryConsistent, Reg, Listing
  <1>4. ~SendMayFail => NothingStranded
    BY <1>1 DEF Reg, Unstranded, Attended, NothingStranded
  <1>5. Disciplined /\ ~SendMayFail => CleanedUp
    <2> SUFFICES ASSUME Disciplined, ~SendMayFail, NEW c \in Clients, main[c].pc = "closed"
                 PROVE  main[c].sub_id \notin DOMAIN conn_arena /\ Subscribed(main[c].sub_id) = {}
      BY DEF CleanedUp
    <2>1. main[c].sub_id \notin DOMAIN conn_arena
      <3>1. SUFFICES ASSUME main[c].sub_id \in DOMAIN conn_arena PROVE FALSE
        OBVIOUS
      <3>2. PICK d \in Clients : main[d].sub_id = main[c].sub_id /\ main[d].pc # "closed"
        BY <1>1, <3>1 DEF Reg, Filed
      <3>3. main[c].sub_id # 0
        BY <1>1, <3>1 DEF Own
      <3> QED BY <1>1, <3>2, <3>3 DEF Own
    <2>2. \A ch \in Channels : DOMAIN conn_map[ch] \subseteq DOMAIN conn_arena
      BY <1>1 DEF Reg, Listing
    <2> QED BY <2>1, <2>2 DEF Subscribed
  <1> QED BY <1>2, <1>3, <1>4, <1>5

\* Whatever the clients send and whichever writes fail, every copy of a message
\* that PUBLISH put into the buffer of an open connection is received or in
\* exactly one of the buffers that trigger_write, write_task and
\* handle_pubsub_write swap (utils/mod.rs).
THEOREM NothingIsLost == Spec => []NothingLostOrDoubled
  BY RegAlways, RegImplies, PTL

\* While clients subscribe to a channel once and unsubscribe what they have,
\* channel_count is the number of channels that list the connection and no
\* channel lists a SubId without a Conn (cmd_subscribe, cmd_unsubscribe and
\* the cleanup of handle_connection), even when writes fail.
THEOREM RegistryStaysConsistent == Spec => [](Disciplined => RegistryConsistent)
  BY RegAlways, RegImplies, PTL

\* While no write awaited by a main task fails, whatever is in an io_buffer has
\* somebody who will write it (trigger_write and the end of write_task), even
\* when the writes of the write_tasks fail.
THEOREM NothingIsStranded == Spec => [](~SendMayFail => NothingStranded)
  BY RegAlways, RegImplies, PTL

\* Under both conditions a connection that has closed is neither in the arena
\* nor listed under a channel (the cleanup of handle_connection).
THEOREM ClosingCleansUp == Spec => [](Disciplined /\ ~SendMayFail => CleanedUp)
  BY RegAlways, RegImplies, PTL
=============================================================================
