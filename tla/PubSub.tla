------------------------------- MODULE PubSub -------------------------------
(***************************************************************************)
(* The connections of the server and its publish/subscribe registry:       *)
(* radixox/src/bin/utils/mod.rs, resp_cmd/pub_sub.rs and the connection    *)
(* loop of resp.rs.                                                        *)
(*                                                                         *)
(* The runtime is single-threaded and cooperative, so a step of the model  *)
(* is what a task does between two awaits.  Three kinds of steps           *)
(* interleave: a connection's main task, the ephemeral write tasks, and    *)
(* the kernel finishing (or failing) a write.  A connection's write half   *)
(* is a token named by its connection; it travels between ConnState, Conn  *)
(* and ConnWriter.  A SubId is a number never used before; Registry gives  *)
(* each the key of the arena that it stands for.                           *)
(***************************************************************************)
EXTENDS Naturals, FiniteSets, Sequences, Functions

CONSTANTS
  Clients,       \* the connections accepted
  Channels,
  Nil,           \* None of an Option
  Disciplined,   \* clients subscribe once, and unsubscribe what they have
  SendMayFail,   \* a write awaited by a main task may fail
  TaskMayFail,   \* a write awaited by a write_task may fail
  MaxMessages,   \* bound on the messages published
  MaxCommands    \* bound on the commands of one connection

ASSUME PubSubAssumption ==
  /\ Nil \notin Clients /\ Nil # <<>>
  /\ IsFiniteSet(Channels)
  /\ {Disciplined, SendMayFail, TaskMayFail} \subseteq BOOLEAN
  /\ MaxMessages \in Nat /\ MaxCommands \in Nat

VARIABLES
  main,        \* the main task of each connection
  conn_arena,  \* SubRegistry.conn_arena: SubId -> Conn
  conn_map,    \* SubRegistry.conn_map: channel -> bag of SubIds; nothing
               \* depends on the order of the Vec
  tasks,       \* the write_tasks spawned and not finished
  next_id,     \* the next SubId
  published,   \* how many messages were published: the last message
  commands,    \* how many commands each connection sent
  accepted,    \* the messages put into each connection's buffer, copies too
  delivered    \* the frames each client received, in order

vars == <<main, conn_arena, conn_map, tasks, next_id, published, commands,
          accepted, delivered>>

SubIds == 1 .. Cardinality(Clients) * MaxCommands
Messages == 1 .. MaxMessages
Reply == 0
Frames == Messages \cup {Reply}

\* Conn::new, with the first channel counted.
NewConn(c, io_buffer) ==
  [write |-> c, io_buffer |-> io_buffer, swap_buffer |-> <<>>,
   channel_count |-> 1, canceled |-> FALSE]

\* get_conn_writer finds the write half and the swap buffer.
Writable(conn) == conn.write # Nil /\ conn.swap_buffer # Nil

\* Seeded bugs: the write half, or the buffer, is copied instead of moved.
TakenSharesWrite(conn)  == [conn EXCEPT !.io_buffer = conn.swap_buffer, !.swap_buffer = Nil]
TakenCopiesBuffer(conn) == [conn EXCEPT !.write = Nil, !.swap_buffer = Nil]

\* What get_conn_writer leaves behind when it moves write and io_buffer out.
Taken(conn) ==
  [conn EXCEPT !.write = Nil, !.io_buffer = conn.swap_buffer, !.swap_buffer = Nil]

\* restitute_conn_writer, of a writer whose buffer was cleared.
Restituted(conn, c) == [conn EXCEPT !.write = c, !.swap_buffer = <<>>]

WriteTask(s, c, pc, buffer) == [sub_id |-> s, write |-> c, pc |-> pc, buffer |-> buffer]

\* A Vec of SubIds, as a bag, with one more s.
Pushed(bag, s) ==
  [x \in DOMAIN bag \cup {s} |->
     IF x \notin DOMAIN bag THEN 1 ELSE IF x = s THEN bag[x] + 1 ELSE bag[x]]

Subscribed(s) == {ch \in Channels : s \in DOMAIN conn_map[ch]}

\* Seeded bug: the channels keep the SubId.
UnlistedNever(map, s, chs) == map

Unlisted(map, s, chs) ==
  [ch \in Channels |->
     IF ch \in chs THEN [x \in DOMAIN map[ch] \ {s} |-> map[ch][x]] ELSE map[ch]]

Received(c, buffer) == delivered' = [delivered EXCEPT ![c] = @ \o buffer]

Init ==
  /\ main = [c \in Clients |->
               [pc |-> "read", conn_state |-> "Normal", sub_id |-> 0,
                buffer |-> <<>>, frames |-> <<>>, flush |-> {}, quit |-> FALSE]]
  /\ conn_arena = [s \in {} |-> NewConn(s, <<>>)]
  /\ conn_map = [ch \in Channels |-> [s \in {} |-> 1]]
  /\ tasks = {}
  /\ next_id = 1
  /\ published = 0
  /\ commands = [c \in Clients |-> 0]
  /\ accepted = [c \in Clients |-> <<>>]
  /\ delivered = [c \in Clients |-> <<>>]

-----------------------------------------------------------------------------
(* The continuations of a main task.  m is its local state, ar and map the *)
(* registry and ts the tasks after what the step has already done.         *)

\* Seeded bug: the handler returns without cleanup.
CloseNoCleanup(c, m, ar, map, ts) ==
  /\ main' = [main EXCEPT ![c] = [m EXCEPT !.pc = "closed", !.conn_state = "None",
                                           !.buffer = <<>>, !.frames = <<>>,
                                           !.flush = {}, !.quit = FALSE]]
  /\ tasks' = ts /\ conn_arena' = ar /\ conn_map' = map

\* handle_connection after handle_loop returned: the cleanup of conn_state.
Close(c, m, ar, map, ts) ==
  /\ main' = [main EXCEPT ![c] = [m EXCEPT !.pc = "closed", !.conn_state = "None",
                                           !.buffer = <<>>, !.frames = <<>>,
                                           !.flush = {}, !.quit = FALSE]]
  /\ tasks' = ts
  /\ IF m.conn_state = "PubSub"
     THEN /\ conn_arena' = [s \in DOMAIN ar \ {m.sub_id} |-> ar[s]]
          /\ conn_map' = Unlisted(map, m.sub_id, Channels)
     ELSE conn_arena' = ar /\ conn_map' = map

\* The command is done: back to the read, or out of the loop after QUIT.
Return(c, m, ar, map, ts) ==
  IF m.quit
  THEN Close(c, m, ar, map, ts)
  ELSE /\ main' = [main EXCEPT ![c] = [m EXCEPT !.pc = "read"]]
       /\ conn_arena' = ar /\ conn_map' = map /\ tasks' = ts

\* ConnState::send while Normal: awaits the write.
SendNormal(c, m, ar, map, ts) ==
  /\ m.conn_state = "Normal"
  /\ main' = [main EXCEPT ![c] =
                [m EXCEPT !.pc = "normal_write", !.conn_state = "None",
                          !.buffer = Append(@, Head(m.frames)), !.frames = Tail(@)]]
  /\ conn_arena' = ar /\ conn_map' = map /\ tasks' = ts

\* handle_pubsub_write that gets the write half: awaits the write.
SendPubSub(c, m, ar, map, ts) ==
  LET conn == ar[m.sub_id]
  IN  /\ m.conn_state = "PubSub"
      /\ Writable(conn)
      /\ main' = [main EXCEPT ![c] =
                    [m EXCEPT !.pc = "pubsub_write", !.conn_state = "None",
                              !.buffer = Append(conn.io_buffer, Head(m.frames)),
                              !.frames = Tail(@)]]
      /\ conn_arena' = [ar EXCEPT ![m.sub_id] = Taken(conn)]
      /\ conn_map' = map /\ tasks' = ts

\* handle_pubsub_write while a write_task has the write half: every frame
\* left is queued without an await.
SendQueued(c, m, ar, map, ts) ==
  /\ m.conn_state = "PubSub"
  /\ ~Writable(ar[m.sub_id])
  /\ Return(c, [m EXCEPT !.frames = <<>>],
            [ar EXCEPT ![m.sub_id].io_buffer = @ \o m.frames], map, ts)

\* ConnState::send of the frames of m, up to the first await.
Send(c, m, ar, map, ts) ==
  \/ SendNormal(c, m, ar, map, ts)
  \/ SendPubSub(c, m, ar, map, ts)
  \/ SendQueued(c, m, ar, map, ts)

\* Seeded bug: trigger_write hands an empty buffer to the task.
FlushEmptyBuffer(c, m, ar, map, ts) ==
  LET ready == {s \in m.flush \cap DOMAIN ar : Writable(ar[s])}
  IN  Return(c, [m EXCEPT !.flush = {}],
             [s \in DOMAIN ar |-> IF s \in ready THEN Taken(ar[s]) ELSE ar[s]],
             map,
             ts \cup {WriteTask(s, ar[s].write, "spawned", <<>>) : s \in ready})

\* The loop of cmd_publish over to_flush: trigger_write of each SubId.
FlushAndReturn(c, m, ar, map, ts) ==
  LET ready == {s \in m.flush \cap DOMAIN ar : Writable(ar[s])}
  IN  Return(c, [m EXCEPT !.flush = {}],
             [s \in DOMAIN ar |-> IF s \in ready THEN Taken(ar[s]) ELSE ar[s]],
             map,
             ts \cup {WriteTask(s, ar[s].write, "spawned", ar[s].io_buffer) : s \in ready})

\* What follows a send that succeeded: the next frame, or the end.
Continue(c, m, ar, map, ts) ==
  \/ m.frames # <<>> /\ Send(c, m, ar, map, ts)
  \/ m.frames = <<>> /\ FlushAndReturn(c, m, ar, map, ts)

-----------------------------------------------------------------------------
(* Commands.                                                               *)

Reads(c) ==
  /\ main[c].pc = "read"
  /\ commands[c] < MaxCommands
  /\ commands' = [commands EXCEPT ![c] = @ + 1]

Replying(c, n) == [main[c] EXCEPT !.frames = [i \in 1 .. n |-> Reply]]

\* A command that is answered by one frame: PING, the data commands and the
\* errors, in either state.
Ping(c) ==
  /\ Reads(c)
  /\ Send(c, Replying(c, 1), conn_arena, conn_map, tasks)
  /\ UNCHANGED <<next_id, published, accepted, delivered>>

Quit(c) ==
  /\ Reads(c)
  /\ Send(c, [Replying(c, 1) EXCEPT !.quit = TRUE], conn_arena, conn_map, tasks)
  /\ UNCHANGED <<next_id, published, accepted, delivered>>

\* cmd_subscribe to the first channel: the connection enters the registry.
SubscribeFirst(c, ch) ==
  /\ Reads(c)
  /\ main[c].conn_state = "Normal"
  /\ LET ar == [s \in DOMAIN conn_arena \cup {next_id} |->
                  IF s = next_id THEN NewConn(c, main[c].buffer) ELSE conn_arena[s]]
     IN  Send(c, [Replying(c, 1) EXCEPT !.conn_state = "PubSub", !.sub_id = next_id,
                                        !.buffer = <<>>],
              ar, [conn_map EXCEPT ![ch] = Pushed(@, next_id)], tasks)
  /\ next_id' = next_id + 1
  /\ UNCHANGED <<published, accepted, delivered>>

\* cmd_subscribe to one more channel.
SubscribeMore(c, ch) ==
  LET s == main[c].sub_id
  IN  /\ Reads(c)
      /\ main[c].conn_state = "PubSub"
      /\ Disciplined => ch \notin Subscribed(s)
      /\ Send(c, Replying(c, 1), [conn_arena EXCEPT ![s].channel_count = @ + 1],
              [conn_map EXCEPT ![ch] = Pushed(@, s)], tasks)
      /\ UNCHANGED <<next_id, published, accepted, delivered>>

\* cmd_unsubscribe: channels = {} stands for every channel subscribed.
Unsubscribe(c, channels) ==
  LET s == main[c].sub_id
      to_remove == IF channels = {} THEN Subscribed(s) ELSE channels
      n == Cardinality(to_remove)
      conn == conn_arena[s]
      remaining == IF conn.channel_count > n THEN conn.channel_count - n ELSE 0
      map == Unlisted(conn_map, s, to_remove)
      Answer(m, ar) ==
        \/ n > 0 /\ Send(c, m, ar, map, tasks)
        \/ n = 0 /\ Return(c, m, ar, map, tasks)
  IN  /\ Reads(c)
      /\ main[c].conn_state = "PubSub"
      /\ Disciplined => channels \subseteq Subscribed(s)
      /\ \/ /\ remaining = 0 /\ conn.write # Nil
            /\ Answer([Replying(c, n) EXCEPT !.conn_state = "Normal",
                                             !.buffer = conn.io_buffer],
                      [x \in DOMAIN conn_arena \ {s} |-> conn_arena[x]])
         \/ /\ ~(remaining = 0 /\ conn.write # Nil)
            /\ Answer(Replying(c, n),
                      [conn_arena EXCEPT ![s].channel_count = remaining])
      /\ UNCHANGED <<next_id, published, accepted, delivered>>

\* UNSUBSCRIBE while Normal: dispatch hands it to run_handler, whose last
\* arm is unreachable!(..); the panic ends the runtime's only thread.
UnsubscribeNormal(c) ==
  /\ Reads(c)
  /\ ~Disciplined
  /\ main[c].conn_state = "Normal"
  /\ main' = [main EXCEPT ![c].pc = "panicked"]
  /\ UNCHANGED <<conn_arena, conn_map, tasks, next_id, published, accepted, delivered>>

\* cmd_publish: publish_encode, then the reply; the writes are triggered
\* only after the reply was written.
Publish(c, ch) ==
  LET m == published + 1
      subs == DOMAIN conn_map[ch] \cap DOMAIN conn_arena
      Encoded(s) == [i \in 1 .. conn_map[ch][s] |-> m]
  IN  /\ Reads(c)
      /\ main[c].conn_state = "Normal"
      /\ published < MaxMessages
      /\ published' = m
      /\ accepted' = [d \in Clients |->
                        IF main[d].sub_id \in subs /\ main[d].pc # "closed"
                        THEN accepted[d] \o Encoded(main[d].sub_id) ELSE accepted[d]]
      /\ Send(c, [Replying(c, 1) EXCEPT !.flush = subs],
              [s \in DOMAIN conn_arena |->
                 IF s \in subs
                 THEN [conn_arena[s] EXCEPT !.io_buffer = @ \o Encoded(s)]
                 ELSE conn_arena[s]],
              conn_map, tasks)
      /\ UNCHANGED <<next_id, delivered>>

\* The read returns 0 or fails.
ReadEnds(c) ==
  /\ main[c].pc = "read"
  /\ Close(c, main[c], conn_arena, conn_map, tasks)
  /\ UNCHANGED <<next_id, published, commands, accepted, delivered>>

\* Seeded bug: a cancelation is seen only with the write half at home.
CanceledIfIdle(c) ==
  /\ main[c].pc = "read"
  /\ main[c].conn_state = "PubSub"
  /\ conn_arena[main[c].sub_id].canceled
  /\ conn_arena[main[c].sub_id].write # Nil
  /\ Close(c, main[c], conn_arena, conn_map, tasks)
  /\ UNCHANGED <<next_id, published, commands, accepted, delivered>>

\* The select! of read_with_conn_state resolves the cancelation.
Canceled(c) ==
  /\ main[c].pc = "read"
  /\ main[c].conn_state = "PubSub"
  /\ conn_arena[main[c].sub_id].canceled
  /\ Close(c, main[c], conn_arena, conn_map, tasks)
  /\ UNCHANGED <<next_id, published, commands, accepted, delivered>>

-----------------------------------------------------------------------------
(* Writes that end.                                                        *)

NormalWritten(c) ==
  /\ main[c].pc = "normal_write"
  /\ Received(c, main[c].buffer)
  /\ Continue(c, [main[c] EXCEPT !.pc = "read", !.conn_state = "Normal", !.buffer = <<>>],
              conn_arena, conn_map, tasks)
  /\ UNCHANGED <<next_id, published, commands, accepted>>

\* The error leaves conn_state None behind.
NormalFailed(c) ==
  /\ SendMayFail
  /\ main[c].pc = "normal_write"
  /\ Close(c, main[c], conn_arena, conn_map, tasks)
  /\ UNCHANGED <<next_id, published, commands, accepted, delivered>>

PubSubWritten(c) ==
  LET s == main[c].sub_id
      conn == conn_arena[s]
      m == [main[c] EXCEPT !.pc = "read", !.conn_state = "PubSub", !.buffer = <<>>]
  IN  /\ main[c].pc = "pubsub_write"
      /\ Received(c, main[c].buffer)
      /\ \/ /\ conn.io_buffer # <<>>
            /\ Continue(c, m, conn_arena, conn_map,
                        tasks \cup {WriteTask(s, c, "spawned", <<>>)})
         \/ /\ conn.io_buffer = <<>>
            /\ Continue(c, m, [conn_arena EXCEPT ![s] = Restituted(conn, c)],
                        conn_map, tasks)
      /\ UNCHANGED <<next_id, published, commands, accepted>>

\* The error cancels the connection and leaves conn_state None behind.
PubSubFailed(c) ==
  /\ SendMayFail
  /\ main[c].pc = "pubsub_write"
  /\ Close(c, main[c],
           [conn_arena EXCEPT ![main[c].sub_id].canceled = TRUE], conn_map, tasks)
  /\ UNCHANGED <<next_id, published, commands, accepted, delivered>>

\* Seeded bug: the write half goes back without a look at io_buffer.
TaskEndsBlindly(t, ar, ts) ==
  /\ tasks' = ts
  /\ conn_arena' = [s \in DOMAIN ar |->
                      IF s = t.sub_id THEN Restituted(ar[s], t.write) ELSE ar[s]]

\* The end of write_task: another round while io_buffer holds something, or
\* the write half goes back to its Conn; with the Conn gone it is dropped.
TaskEnds(t, ar, ts) ==
  \/ /\ t.sub_id \in DOMAIN ar /\ ar[t.sub_id].io_buffer # <<>>
     /\ tasks' = ts \cup {WriteTask(t.sub_id, t.write, "spawned", <<>>)}
     /\ conn_arena' = ar
  \/ /\ t.sub_id \in DOMAIN ar /\ ar[t.sub_id].io_buffer = <<>>
     /\ tasks' = ts
     /\ conn_arena' = [ar EXCEPT ![t.sub_id] = Restituted(@, t.write)]
  \/ /\ t.sub_id \notin DOMAIN ar
     /\ tasks' = ts
     /\ conn_arena' = ar

\* The first poll of write_task: the writer's buffer and io_buffer change
\* places; the write of an empty buffer returns at once.
TaskStart(t) ==
  /\ t.pc = "spawned"
  /\ \/ /\ t.sub_id \notin DOMAIN conn_arena
        /\ tasks' = tasks \ {t}
        /\ UNCHANGED conn_arena
     \/ /\ t.sub_id \in DOMAIN conn_arena
        /\ LET buffer == conn_arena[t.sub_id].io_buffer
               ar == [conn_arena EXCEPT ![t.sub_id].io_buffer = t.buffer]
           IN  \/ /\ buffer # <<>>
                  /\ tasks' = (tasks \ {t}) \cup
                                {WriteTask(t.sub_id, t.write, "writing", buffer)}
                  /\ conn_arena' = ar
               \/ buffer = <<>> /\ TaskEnds(t, ar, tasks \ {t})
  /\ UNCHANGED <<main, conn_map, next_id, published, commands, accepted, delivered>>

TaskWritten(t) ==
  /\ t.pc = "writing"
  /\ Received(t.write, t.buffer)
  /\ TaskEnds(t, conn_arena, tasks \ {t})
  /\ UNCHANGED <<main, conn_map, next_id, published, commands, accepted>>

TaskFailed(t) ==
  /\ TaskMayFail
  /\ t.pc = "writing"
  /\ tasks' = tasks \ {t}
  /\ conn_arena' = [s \in DOMAIN conn_arena |->
                      IF s = t.sub_id THEN [conn_arena[s] EXCEPT !.canceled = TRUE]
                                      ELSE conn_arena[s]]
  /\ UNCHANGED <<main, conn_map, next_id, published, commands, accepted, delivered>>

-----------------------------------------------------------------------------
Command(c) ==
  \/ Ping(c) \/ Quit(c) \/ UnsubscribeNormal(c) \/ ReadEnds(c)
  \/ \E ch \in Channels : SubscribeFirst(c, ch) \/ SubscribeMore(c, ch) \/ Publish(c, ch)
  \/ \E channels \in SUBSET Channels : Unsubscribe(c, channels)

WriteEnds(c) == NormalWritten(c) \/ NormalFailed(c) \/ PubSubWritten(c) \/ PubSubFailed(c)

TaskStep(t) == TaskStart(t) \/ TaskWritten(t) \/ TaskFailed(t)

Running == \A c \in Clients : main[c].pc # "panicked"

Next ==
  \/ Running /\ \E c \in Clients : Command(c) \/ Canceled(c) \/ WriteEnds(c)
  \/ Running /\ \E t \in tasks : TaskStep(t)

Spec == Init /\ [][Next]_vars

\* The executor polls every task that is ready, the kernel ends every write,
\* and select! does not pass over a cancelation for ever; no client is obliged
\* to send anything.
Fairness ==
  /\ \A c \in Clients : WF_vars(WriteEnds(c)) /\ WF_vars(Canceled(c))
  /\ \A s \in SubIds : WF_vars(\E t \in tasks : t.sub_id = s /\ TaskStep(t))

FairSpec == Spec /\ Fairness

-----------------------------------------------------------------------------
ConnType ==
  [write : Clients \cup {Nil}, io_buffer : Seq(Frames), swap_buffer : {<<>>, Nil},
   channel_count : Nat, canceled : BOOLEAN]

MainType ==
  [pc : {"read", "normal_write", "pubsub_write", "closed", "panicked"},
   conn_state : {"Normal", "PubSub", "None"}, sub_id : SubIds \cup {0},
   buffer : Seq(Frames), frames : Seq({Reply}), flush : SUBSET SubIds,
   quit : BOOLEAN]

TaskType ==
  [sub_id : SubIds, write : Clients, pc : {"spawned", "writing"}, buffer : Seq(Frames)]

\* The swap buffer is empty whenever it is in place, and a task that was
\* spawned remembers a connection and not a None.
TypeOK ==
  /\ main \in [Clients -> MainType]
  /\ DOMAIN conn_arena \subseteq SubIds
  /\ \A s \in DOMAIN conn_arena : conn_arena[s] \in ConnType
  /\ DOMAIN conn_map = Channels
  /\ \A ch \in Channels : /\ DOMAIN conn_map[ch] \subseteq SubIds
                           /\ \A s \in DOMAIN conn_map[ch] : conn_map[ch][s] \in Nat \ {0}
  /\ tasks \subseteq TaskType

\* Who has the write half of c.
MainHolds(c) ==
  main[c].conn_state = "Normal" \/ main[c].pc \in {"normal_write", "pubsub_write"}
ConnHolds(c) == \E s \in DOMAIN conn_arena : conn_arena[s].write = c
TaskHolds(c) == \E t \in tasks : t.write = c
IsHeld(c) == MainHolds(c) \/ ConnHolds(c) \/ TaskHolds(c)

\* The write half of a connection has one holder at a time, so that no two
\* writes of one socket overlap and restitute_conn_writer's debug_assert holds;
\* and while the connection is open the half is not lost unless its main task
\* has been told by a cancelation.
WriteHalfOwned ==
  \A c \in Clients :
    /\ ~(MainHolds(c) /\ ConnHolds(c))
    /\ ~(MainHolds(c) /\ TaskHolds(c))
    /\ ~(ConnHolds(c) /\ TaskHolds(c))
    /\ \A s, r \in DOMAIN conn_arena :
         conn_arena[s].write = c /\ conn_arena[r].write = c => s = r
    /\ \A t, u \in tasks : t.write = c /\ u.write = c => t = u
    /\ \/ IsHeld(c)
       \/ main[c].pc = "closed"
       \/ main[c].sub_id \in DOMAIN conn_arena /\ conn_arena[main[c].sub_id].canceled

Copies(buffer, m) == Cardinality({i \in DOMAIN buffer : buffer[i] = m})

\* The copies of m in the buffers of the tasks of ts that have c's write half.
TaskCopies(ts, c, m) ==
  Cardinality(UNION {{<<t, i>> : i \in {j \in DOMAIN t.buffer : t.buffer[j] = m}} :
                       t \in {u \in ts : u.write = c}})

\* The copies of m in c's buffers, wherever they are.
Queued(c, m) ==
  Copies(main[c].buffer, m) + TaskCopies(tasks, c, m)
    + (IF main[c].sub_id \in DOMAIN conn_arena
       THEN Copies(conn_arena[main[c].sub_id].io_buffer, m) ELSE 0)

\* Until a connection fails or closes, every copy of a message put into its
\* buffer is in exactly one place: received, or in one of the buffers that
\* trigger_write, write_task and handle_pubsub_write swap.
NothingLostOrDoubled ==
  \A c \in Clients :
    main[c].pc # "closed" /\ IsHeld(c) =>
      \A m \in Messages :
        Copies(accepted[c], m) = Copies(delivered[c], m) + Queued(c, m)

\* A connection in PubSub state has its Conn ("can't get cancelation" is never
\* reached), channel_count is the number of its channels, and every SubId
\* listed under a channel is of a live Conn.
RegistryConsistent ==
  /\ \A c \in Clients :
       LET s == main[c].sub_id
       IN  main[c].conn_state = "PubSub" \/ main[c].pc = "pubsub_write" =>
             /\ s \in DOMAIN conn_arena
             /\ conn_arena[s].channel_count = Cardinality(Subscribed(s))
  /\ \A ch \in Channels : DOMAIN conn_map[ch] \subseteq DOMAIN conn_arena

\* What is in an io_buffer will be written: a task or a send has the write
\* half and looks at io_buffer again, or a publisher is about to trigger the
\* write, unless the connection has failed.
NothingStranded ==
  \A s \in DOMAIN conn_arena :
    conn_arena[s].io_buffer # <<>> =>
      \/ conn_arena[s].canceled
      \/ \E t \in tasks : t.sub_id = s
      \/ \E c \in Clients :
           \/ main[c].sub_id = s /\ main[c].pc = "pubsub_write"
           \/ s \in main[c].flush

\* A connection whose handler has returned leaves nothing in the registry
\* ("Cleanup - UN SEUL point de sortie", CONN_DESIGN.md).
CleanedUp ==
  \A c \in Clients :
    main[c].pc = "closed" =>
      /\ main[c].sub_id \notin DOMAIN conn_arena
      /\ Subscribed(main[c].sub_id) = {}

\* A client receives the messages in the order they were published.
MessagesInOrder ==
  \A c \in Clients : \A i, j \in DOMAIN delivered[c] :
    i < j /\ {delivered[c][i], delivered[c][j]} \subseteq Messages =>
      delivered[c][i] <= delivered[c][j]

\* A message put into a buffer is received in the end, unless the connection
\* closes first.
EventuallyReceived ==
  \A c \in Clients : \A m \in Messages :
    m \in Range(accepted[c]) ~> (m \in Range(delivered[c]) \/ main[c].pc = "closed")

\* The cancelation reaches the main task: the Conn of a failed connection
\* leaves the registry.
FailureIsCleaned ==
  \A s \in SubIds :
    (s \in DOMAIN conn_arena /\ conn_arena[s].canceled) ~> s \notin DOMAIN conn_arena
=============================================================================
