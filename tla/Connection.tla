----------------------------- MODULE Connection -----------------------------
(***************************************************************************)
(* Connections in Normal mode: bytes become frames, frames become          *)
(* commands, and each reply is written before the next frame is decoded    *)
(* (handle_connection, handle_loop, handle_buffer and dispatch of resp.rs, *)
(* ConnState::send).  Strings are SharedBytes: a reply that holds one      *)
(* keeps it over the await of its write, while other connections overwrite *)
(* the key it came from.                                                   *)
(*                                                                         *)
(* Bytes are halves of frames, so that a read may end within a frame.  A   *)
(* frame is the tuple of a command and at most two arguments.  The runtime *)
(* has one thread: a task runs from one await to the next.  The commands   *)
(* that subscribe and publish are in PubSub, what the others do to the     *)
(* tree is in Commands.                                                    *)
(***************************************************************************)
EXTENDS SharedByte, Sequences

CONSTANTS
  Clients,
  Keys,
  Scripts,     \* the sequences of frames that each client may send
  MaxFrames    \* the bound on their length


Malformed == <<"malformed">>   \* the decoder fails
Nested    == <<"nested">>      \* an array with an element that is no string

\* A command with the arguments it wants; other calls are Misuse of Commands.
WellUsed(f) == /\ f \in Seq({f[i] : i \in DOMAIN f}) /\ f # <<>>
               /\ f[1] = "echo" => Len(f) >= 2
               /\ f[1] = "set" => Len(f) >= 3 /\ f[2] \in Keys

ASSUME ConnectionAssumption ==
  /\ MaxFrames \in Nat
  /\ \A c \in Clients : \A s \in Scripts[c] :
       /\ s \in Seq({s[i] : i \in DOMAIN s}) /\ Len(s) <= MaxFrames
       /\ \A i \in DOMAIN s : WellUsed(s[i])

VARIABLES
  mem,       \* the memory of shared strings
  wire,      \* bytes sent by each client and not read
  conn,      \* the state of each connection's task
  gone,      \* the clients that have closed their socket
  panicked,  \* the process has stopped
  sent,      \* the frames each client has sent
  out        \* the replies written to each client

vars == <<mem, wire, conn, gone, panicked, sent, out>>

Halves(f) == IF f = Malformed THEN <<<<f, 1>>>> ELSE <<<<f, 1>>, <<f, 2>>>>

\* decode_bytes_mut at the head of the buffer: an error, or a whole frame.
Broken(buf)   == buf # <<>> /\ buf[1][1] = Malformed
Complete(buf) == Len(buf) >= 2 /\ buf[1][1] # Malformed

-----------------------------------------------------------------------------
(* Where a connection and the tree hold strings.                            *)

Cmd(c)    == <<"cmd", c>>
Arg(c, i) == <<"arg", c, i>>
Rep(c, i) == <<"rep", c, i>>
Val(k)    == <<"val", k>>

Places == {Cmd(c) : c \in Clients} \cup {Val(k) : k \in Keys}
            \cup {Arg(c, i) : c \in Clients, i \in 1 .. 2}
            \cup {Rep(c, i) : c \in Clients, i \in 1 .. 2}

ASSUME PlacesAssumption == Holder = Places

Text(w) == <<w, FALSE>>

\* The i-th argument, if f has one, in a SharedByte of its own.
Argument(m, c, i, f) == IF i < Len(f) THEN FromSlice(m, Arg(c, i), Text(f[i + 1])) ELSE m

\* The i-th frame of a reply, from the value of k.
Fetch(m, k, c, i) == IF Holds(m, Val(k)) THEN Clone(m, Val(k), Rep(c, i)) ELSE m

Found(m, k) == IF Holds(m, Val(k)) THEN <<"Bulk", Data(m, Val(k))[1]>> ELSE <<"Null">>

Known == {"get", "set", "mget", "del", "echo", "ping", "quit"}

\* get_handler knows commands in capitals only.
Handler(m, c) == IF Data(m, Cmd(c))[2] /\ Data(m, Cmd(c))[1] \in Known
                 THEN Data(m, Cmd(c))[1] ELSE "none"

Answer(m, c, f) ==
  CASE Handler(m, c) = "get"  -> Found(m, f[2])
    [] Handler(m, c) = "mget" -> <<"Array", Found(m, f[2]), Found(m, f[3])>>
    [] Handler(m, c) = "set"  -> <<"Simple", "OK">>
    [] Handler(m, c) = "del"  -> <<"Integer", IF Holds(m, Val(f[2])) THEN 1 ELSE 0>>
    [] Handler(m, c) = "echo" -> <<"Bulk", Data(m, Arg(c, 1))[1]>>
    [] Handler(m, c) = "ping" -> <<"Simple", "PONG">>
    [] Handler(m, c) = "quit" -> <<"Simple", "OK">>
    [] OTHER -> <<"Error", "unknown command">>

Own(c) == {Cmd(c), Arg(c, 1), Arg(c, 2), Rep(c, 1), Rep(c, 2)}

\* Seeded bug: the arguments outlive the command.
ReleasedReply(m, c) == Drop(m, {Cmd(c), Rep(c, 1), Rep(c, 2)})

\* The reply, the arguments and the command go out of scope.
Released(m, c) == Drop(m, Own(c))

-----------------------------------------------------------------------------
(* The task of a connection.  "ready" is the task running, between the end  *)
(* of an await and the next one.                                            *)

Init ==
  /\ mem = NoMemory
  /\ wire = [c \in Clients |-> <<>>]
  /\ conn = [c \in Clients |-> [stage |-> "reading", buf |-> <<>>, reply |-> <<>>, then |-> "none"]]
  /\ gone = {} /\ panicked = FALSE
  /\ sent = [c \in Clients |-> <<>>]
  /\ out = [c \in Clients |-> <<>>]

\* The runtime polls c: no other task is running.
Polled(c, stage) ==
  /\ ~panicked /\ conn[c].stage = stage
  /\ \A d \in Clients \ {c} : conn[d].stage # "ready"

Becomes(c, stage, buf, reply, then) ==
  conn' = [conn EXCEPT ![c] = [stage |-> stage, buf |-> buf, reply |-> reply, then |-> then]]

\* Seeded bug: the bytes that were read are read again.
ReadSomeAgain(c, n) ==
  /\ Polled(c, "reading")
  /\ Becomes(c, "ready", conn[c].buf \o SubSeq(wire[c], 1, n), <<>>, "none")
  /\ UNCHANGED <<mem, wire, gone, panicked, sent, out>>

\* The read completes with some of the bytes that have arrived.
ReadSome(c, n) ==
  /\ Polled(c, "reading")
  /\ Becomes(c, "ready", conn[c].buf \o SubSeq(wire[c], 1, n), <<>>, "none")
  /\ wire' = [wire EXCEPT ![c] = SubSeq(@, n + 1, Len(@))]
  /\ UNCHANGED <<mem, gone, panicked, sent, out>>

\* The client has closed: the read returns no bytes, or fails.
ReadEnds(c) ==
  /\ Polled(c, "reading") /\ c \in gone
  /\ Becomes(c, "closed", conn[c].buf, <<>>, "none")
  /\ UNCHANGED <<mem, wire, gone, panicked, sent, out>>

\* ConnState::send: the write of the reply is awaited; then says what follows.
Send(c, buf, reply, then) == Becomes(c, "writing", buf, reply, then)

\* handle_buffer finds no whole frame.
NeedMore(c) ==
  /\ ~panicked /\ conn[c].stage = "ready"
  /\ ~Broken(conn[c].buf) /\ ~Complete(conn[c].buf)
  /\ Becomes(c, "reading", conn[c].buf, <<>>, "none")
  /\ UNCHANGED <<mem, wire, gone, panicked, sent, out>>

\* What the handler does to the strings m that it is given: GET and MGET
\* clone the value, ECHO its argument, SET stores a clone, DEL drops it.
Run(m, c, f) ==
  \/ Handler(m, c) = "get" /\ mem' = Fetch(m, f[2], c, 1)
  \/ Handler(m, c) = "mget" /\ \E n \in {Fetch(m, f[2], c, 1)} : mem' = Fetch(n, f[3], c, 2)
  \/ /\ Handler(m, c) = "set"
     /\ \E n \in {Drop(m, {Val(f[2])})} :
        \E p \in {Clone(n, Arg(c, 2), Val(f[2]))} :
          mem' = FromSlice(p, Rep(c, 1), Text("OK"))
  \/ Handler(m, c) = "del" /\ mem' = Drop(m, {Val(f[2])})
  \/ Handler(m, c) = "echo" /\ mem' = Clone(m, Arg(c, 1), Rep(c, 1))
  \/ Handler(m, c) = "ping" /\ mem' = FromSlice(m, Rep(c, 1), Text("PONG"))
  \/ Handler(m, c) = "quit" /\ mem' = FromSlice(m, Rep(c, 1), Text("OK"))
  \/ Handler(m, c) = "none" /\ mem' = m

\* handle_buffer answers a decoding error and returns; what it could not
\* decode stays in the buffer.
ParseError(c) ==
  /\ ~panicked /\ conn[c].stage = "ready" /\ Broken(conn[c].buf)
  /\ Send(c, conn[c].buf, <<"Error", "parse error">>, "read")
  /\ UNCHANGED <<mem, wire, gone, panicked, sent, out>>

\* handle_buffer with a whole frame: frame_to_args, to_uppercase, and dispatch
\* up to the await of the write.
Dispatch(c) ==
  /\ ~panicked /\ conn[c].stage = "ready" /\ Complete(conn[c].buf)
  /\ LET f    == conn[c].buf[1][1]
         rest == Tail(Tail(conn[c].buf))
     IN  IF f = Nested
         THEN Send(c, rest, <<"Error", "empty command">>, "next") /\ UNCHANGED mem
         ELSE \E m0 \in {FromSlice(mem, Cmd(c), Text(f[1]))} :
              \E m1 \in {Argument(m0, c, 1, f)} :
              \E m2 \in {Argument(m1, c, 2, f)} :
              \E m \in {ToUppercase(m2, Cmd(c))} :
                /\ Send(c, rest, Answer(m, c, f), IF Handler(m, c) = "quit" THEN "quit" ELSE "next")
                /\ Run(m, c, f)
  /\ UNCHANGED <<wire, gone, panicked, sent, out>>

\* Seeded bug: one frame is handled per read.
AfterReads == [next |-> "reading", read |-> "reading", quit |-> "closed"]

\* Where the task goes on: the loop of handle_buffer, the read, or nowhere.
After == [next |-> "ready", read |-> "reading", quit |-> "closed"]

WriteDone(c) ==
  /\ Polled(c, "writing")
  /\ out' = [out EXCEPT ![c] = Append(@, conn[c].reply)]
  /\ mem' = Released(mem, c)
  /\ Becomes(c, After[conn[c].then], conn[c].buf, <<>>, "none")
  /\ UNCHANGED <<wire, gone, panicked, sent>>

\* Seeded bug: no caller looks at the result of send.
WriteFailsUnseen(c) ==
  /\ Polled(c, "writing") /\ c \in gone
  /\ mem' = Released(mem, c)
  /\ panicked' = TRUE
  /\ UNCHANGED <<wire, conn, gone, sent, out>>

\* A failed send leaves ConnState::None.  The callers return the error and
\* the connection ends, except the one that answers a decoding error: it
\* reads on, and read_with_conn_state panics.
WriteFails(c) ==
  /\ Polled(c, "writing") /\ c \in gone
  /\ mem' = Released(mem, c)
  /\ panicked' = (conn[c].then = "read")
  /\ Becomes(c, "closed", conn[c].buf, <<>>, "none")
  /\ UNCHANGED <<wire, gone, sent, out>>

-----------------------------------------------------------------------------
(* Clients.                                                                 *)

\* The client sends the next frame of a script that it follows.
Request(c, s) ==
  LET n == Len(sent[c])
  IN  /\ ~panicked /\ c \notin gone
      /\ n < Len(s) /\ sent[c] = SubSeq(s, 1, n)
      /\ sent' = [sent EXCEPT ![c] = Append(@, s[n + 1])]
      /\ wire' = [wire EXCEPT ![c] = @ \o Halves(s[n + 1])]
      /\ UNCHANGED <<mem, conn, gone, panicked, out>>

Leave(c) ==
  /\ ~panicked /\ c \notin gone
  /\ gone' = gone \cup {c}
  /\ UNCHANGED <<mem, wire, conn, panicked, sent, out>>

Task(c) ==
  \/ \E n \in 1 .. Len(wire[c]) : ReadSome(c, n)
  \/ ReadEnds(c) \/ NeedMore(c) \/ ParseError(c) \/ Dispatch(c)
  \/ WriteDone(c) \/ WriteFails(c)

Next == \E c \in Clients : Task(c) \/ Leave(c) \/ (\E s \in Scripts[c] : Request(c, s))

\* The runtime polls every task that can go on, and a write ends.
Fairness == \A c \in Clients : WF_vars(Task(c))

Spec == Init /\ [][Next]_vars /\ Fairness

-----------------------------------------------------------------------------
(* Properties.                                                              *)

\* Whatever connections hold, share and drop over their awaits, the count of
\* a string is the number of its holders: no value is freed under a reply
\* that is being written, none stays when its last holder has gone.
RcExact == Counted(mem)

\* A connection that waits for bytes, or has ended, holds no string.
IdleHoldsNothing ==
  \A c \in Clients : conn[c].stage # "writing" => DOMAIN mem.ptr \cap Own(c) = {}

\* What a client may be told about key k: nothing, or a text that was SET.
Told(k, r) ==
  r = <<"Null">> \/ \E d \in Clients : \E j \in DOMAIN sent[d] :
                      sent[d][j][1] = "set" /\ sent[d][j][2] = k /\ r = <<"Bulk", sent[d][j][3]>>

\* The reply that f calls for.
Fits(f, r) ==
  /\ f[1] = "get"  => Told(f[2], r)
  /\ f[1] = "mget" => r[1] = "Array" /\ Told(f[2], r[2]) /\ Told(f[3], r[3])
  /\ f[1] = "set"  => r = <<"Simple", "OK">>
  /\ f[1] = "del"  => r[1] = "Integer"
  /\ f[1] = "echo" => r = <<"Bulk", f[2]>>
  /\ f[1] = "ping" => r = <<"Simple", "PONG">>
  /\ f[1] = "quit" => r = <<"Simple", "OK">>
  /\ f = Nested    => r = <<"Error", "empty command">>
  /\ f[1] \notin Known /\ f # Nested => r = <<"Error", "unknown command">>

\* The frames of c before the first that cannot be decoded.
Sound(c, i) == i <= Len(sent[c]) /\ \A j \in 1 .. i : sent[c][j] # Malformed

\* However the bytes are cut into reads, and whatever other connections do
\* while a reply is written: the i-th reply answers the i-th frame, with a
\* text that was SET where it carries a value; nothing follows the reply to
\* QUIT, and what follows a malformed frame gets parse errors only.
RepliesInOrder ==
  \A c \in Clients : \A i \in DOMAIN out[c] :
    IF Sound(c, i) THEN /\ Fits(sent[c][i], out[c][i])
                        /\ \A j \in 1 .. i - 1 : sent[c][j] # <<"quit">>
    ELSE /\ out[c][i] = <<"Error", "parse error">>
         /\ \E j \in 1 .. i : Sound(c, j - 1) /\ j <= Len(sent[c]) /\ sent[c][j] = Malformed

\* read_with_conn_state finds no ConnState::None ("No read should occurs
\* while conn state is None"), unless the reply to a malformed frame failed.
PanicNeedsMalformed ==
  panicked => \E c \in gone : Broken(conn[c].buf)

\* Every frame before a malformed one is answered, or its connection ends.
EveryFrameAnswered ==
  \A c \in Clients, i \in 1 .. MaxFrames :
    Sound(c, i) ~> (Len(out[c]) >= i \/ conn[c].stage = "closed" \/ panicked)
=============================================================================
