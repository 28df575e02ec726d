-------------------------- MODULE StreamingServer --------------------------
(***************************************************************************)
(* server/streaming_server.cpp with the parts of network/ it runs on: the  *)
(* acceptor, one connection object per client, the io_service workers that *)
(* run their handlers and the threads that push frames.                    *)
(*                                                                         *)
(* A worker runs one handler at a time to its end.  Every access to state  *)
(* another thread can change is a step of its own.  The payloads are left  *)
(* out: a client's message is its kind and its number, a server's message  *)
(* its kind and its sequence number.  How bytes become messages is the     *)
(* subject of other modules.                                               *)
(*                                                                         *)
(* A definition named F_Word is a plausible slip in the definition F that  *)
(* follows it.  Nothing here uses it: it is put in the place of F to show  *)
(* that a property notices.                                                *)
(***************************************************************************)
EXTENDS Sequences, Connections

CONSTANTS
  Workers,          \* the worker threads of the Runtime
  Producers,        \* the threads that call send_frame: the render threads
                    \* through the layer composer, and main's test frames
  NoThread,         \* the owner of a free mutex
  MaxClients,       \* bound: connections accepted
  Kinds,            \* the kinds of the messages the clients send
  MaxInbox,         \* bound: messages one client sends
  MaxSent,          \* bound: messages all clients send together
  MaxFrames,        \* bound: frames pushed
  Window,           \* bound: messages a client's socket holds unread
  CallbackMayThrow  \* whether the input device behind input_callback_ fails

ASSUME ThreadsAssumption ==
  /\ Workers \cap Producers = {}
  /\ NoThread \notin Workers \cup Producers

\* What a client sends.  OTHER stands for the kinds handle_client_message only
\* logs (HANDSHAKE_REQUEST, DISCONNECT, unknown) or has no callback for.
ClientKinds == {"PING", "TOUCH_EVENT", "OTHER"}

ASSUME BoundsAssumption ==
  /\ Kinds \subseteq ClientKinds
  /\ MaxClients \in Nat
  /\ MaxInbox \in Nat
  /\ MaxSent \in Nat
  /\ MaxFrames \in Nat
  /\ Window \in Nat
  /\ CallbackMayThrow \in BOOLEAN

Threads == Workers \cup Producers
Ids == 0 .. MaxClients - 1

ServerKinds == {"HANDSHAKE_RESPONSE", "PONG", "FRAME_DATA"}
ServerMessage == [type : ServerKinds, seq : Nat]
Message(kind, n) == [type |-> kind, seq |-> n]
NoMessage == Message("PONG", 0)

LoopLabels == {"size", "at", "send"}
ProducerLabels == LoopLabels \cup {"idle", "thrown"}
LockedLabels == LoopLabels \cup {"dispatch", "callback"}
WorkerLabels ==
  LockedLabels \cup {"idle", "add", "handshake", "handshake_send", "arm",
                     "remove", "lock", "read_again"}

VARIABLES
  alive,      \* the process has not been ended by an uncaught exception
  accepting,  \* an async_accept is outstanding
  next_id,    \* next_id_
  conns,      \* the keys of connections_
  reading,    \* clients with an async_read_some outstanding
  sequence,   \* sequence_
  frames,     \* how many frames have been pushed
  wire,       \* the messages written to each client's socket, in order
  mutex,      \* the owner of mutex_
  inputs,     \* the messages of each client input_callback_ was called for
  open,       \* clients that have connected and not closed their end
  sent,       \* the kinds of the messages each client has sent, in order
  got,        \* how many of those the server has read from the socket
  unread,     \* how many messages each client's socket holds unread
  pc,         \* where each thread is
  cid,        \* the client whose handler a worker runs
  todo,       \* how many of the messages it has read it has yet to handle
  msg,        \* the message a thread is sending
  idx,        \* the loop variable n over connections_
  due         \* clients connected when a producer's loop began (history)

connVars == <<accepting, next_id, conns, reading>>
outVars == <<sequence, frames, wire>>
clientVars == <<open, sent, got, unread>>
histVars == <<inputs, due>>
taskVars == <<cid, todo, msg, idx>>
vars == <<alive, connVars, outVars, mutex, histVars, clientVars, pc, taskVars>>

Goto(t, from, to) ==
  /\ alive
  /\ pc[t] = from
  /\ pc' = [pc EXCEPT ![t] = to]
  /\ UNCHANGED alive

-----------------------------------------------------------------------------
(* The clients *)

AllSent == UNION {{i} \X DOMAIN sent[i] : i \in Ids}

ClientSends(i, kind) ==
  /\ i \in open
  /\ Len(sent[i]) < MaxInbox
  /\ Cardinality(AllSent) < MaxSent
  /\ sent' = [sent EXCEPT ![i] = Append(@, kind)]
  /\ UNCHANGED <<alive, connVars, outVars, mutex, histVars, open, got, unread, pc,
                 taskVars>>

ClientReads(i) ==
  /\ i \in open
  /\ unread[i] > 0
  /\ unread' = [unread EXCEPT ![i] = @ - 1]
  /\ UNCHANGED <<alive, connVars, outVars, mutex, histVars, open, sent, got, pc,
                 taskVars>>

ClientCloses(i) ==
  /\ i \in open
  /\ open' = open \ {i}
  /\ unread' = [unread EXCEPT ![i] = 0]
  /\ UNCHANGED <<alive, connVars, outVars, mutex, histVars, sent, got, pc,
                 taskVars>>

-----------------------------------------------------------------------------
(***************************************************************************)
(* SocketConnection::send.  While the socket's buffer is full the sender   *)
(* spins, that is, it has no step.  Once the client has closed, a write is *)
(* accepted and lost, or throws boost::system::system_error.               *)
(***************************************************************************)
SendDone_Again(i, m) ==  \* m is written once more, as after a spurious retry
  \/ /\ i \in open
     /\ unread[i] < Window
     /\ unread' = [unread EXCEPT ![i] = @ + 1]
     /\ wire' = [wire EXCEPT ![i] = @ \o <<m, m>>]
  \/ /\ i \notin open
     /\ UNCHANGED <<unread, wire>>

SendDone(i, m) ==
  \/ /\ i \in open
     /\ unread[i] < Window
     /\ unread' = [unread EXCEPT ![i] = @ + 1]
     /\ wire' = [wire EXCEPT ![i] = Append(@, m)]
  \/ /\ i \notin open
     /\ UNCHANGED <<unread, wire>>

SendThrows(i) == i \notin open /\ UNCHANGED <<unread, wire>>

Unlocked_Kept(w) == mutex

Unlocked(w) == IF mutex = w THEN NoThread ELSE mutex

\* A worker's handler ends, and its local variables with it.
EndOfTask(w) ==
  /\ cid' = [cid EXCEPT ![w] = 0]
  /\ todo' = [todo EXCEPT ![w] = 0]
  /\ msg' = [msg EXCEPT ![w] = NoMessage]
  /\ idx' = [idx EXCEPT ![w] = 0]

(***************************************************************************)
(* An exception.  On a worker exception_safe_run logs it and takes the     *)
(* next handler, the lock_guard of handle_client_message being unwound.    *)
(* Nothing catches it on a render thread, and main returns.                *)
(***************************************************************************)
Thrown(t) ==
  IF t \in Workers
  THEN /\ Goto(t, pc[t], "idle")
       /\ mutex' = Unlocked(t)
       /\ EndOfTask(t)
  ELSE /\ alive
       /\ pc' = [pc EXCEPT ![t] = "thrown"]
       /\ alive' = FALSE
       /\ UNCHANGED <<mutex, taskVars>>

-----------------------------------------------------------------------------
(* TcpSocketConnector::on_new_connection, StreamingServer::on_new_connection *)

Accept(w) ==
  /\ accepting
  /\ next_id < MaxClients
  /\ Goto(w, "idle", "add")
  /\ accepting' = FALSE
  /\ next_id' = next_id + 1
  /\ open' = open \cup {next_id}
  /\ cid' = [cid EXCEPT ![w] = next_id]
  /\ UNCHANGED <<conns, reading, outVars, mutex, histVars, sent, got, unread, todo,
                 msg, idx>>

AddConnection(w) ==
  /\ Goto(w, "add", "handshake")
  /\ conns' = Added(conns, cid[w])
  /\ UNCHANGED <<accepting, next_id, reading, outVars, mutex, histVars, clientVars,
                 taskVars>>

Handshake(w) ==
  /\ Goto(w, "handshake", "handshake_send")
  /\ sequence' = sequence + 1
  /\ msg' = [msg EXCEPT ![w] = Message("HANDSHAKE_RESPONSE", sequence)]
  /\ UNCHANGED <<connVars, frames, wire, mutex, histVars, clientVars, cid, todo, idx>>

\* An exception here leaves the first read and the next accept undone.
HandshakeSend(w) ==
  /\ \/ /\ Goto(w, "handshake_send", "arm")
        /\ SendDone(cid[w], msg[w])
        /\ UNCHANGED <<mutex, taskVars>>
     \/ /\ pc[w] = "handshake_send"
        /\ SendThrows(cid[w])
        /\ Thrown(w)
  /\ UNCHANGED <<connVars, sequence, frames, histVars, open, sent, got>>

\* read_next_message, then the acceptor's start_accept.
Arm(w) ==
  /\ Goto(w, "arm", "idle")
  /\ reading' = reading \cup {cid[w]}
  /\ accepting' = TRUE
  /\ EndOfTask(w)
  /\ UNCHANGED <<next_id, conns, outVars, mutex, histVars, clientVars>>

-----------------------------------------------------------------------------
(* SocketConnection::on_read_size *)

Disarmed_Kept(i) == reading

Disarmed(i) == reading \ {i}

ReadSome(w, i) ==
  /\ i \in reading
  /\ Goto(w, "idle", "lock")
  /\ \E k \in 1 .. Len(sent[i]) - got[i] :
       /\ todo' = [todo EXCEPT ![w] = k]
       /\ got' = [got EXCEPT ![i] = @ + k]
  /\ reading' = Disarmed(i)
  /\ cid' = [cid EXCEPT ![w] = i]
  /\ UNCHANGED <<accepting, next_id, conns, outVars, mutex, histVars, open, sent, unread,
                 msg, idx>>

\* End of file, or a reset that also drops what the client sent last.
ReadError(w, i) ==
  /\ i \in reading
  /\ i \notin open
  /\ Goto(w, "idle", "remove")
  /\ reading' = Disarmed(i)
  /\ cid' = [cid EXCEPT ![w] = i]
  /\ UNCHANGED <<accepting, next_id, conns, outVars, mutex, histVars, clientVars, todo,
                 msg, idx>>

RemoveConnection(w) ==
  /\ Goto(w, "remove", "idle")
  /\ conns' = Removed(conns, cid[w])
  /\ EndOfTask(w)
  /\ UNCHANGED <<accepting, next_id, reading, outVars, mutex, histVars, clientVars>>

-----------------------------------------------------------------------------
(* StreamingServer::handle_client_message, under mutex_ *)

Lock(w) ==
  /\ mutex = NoThread
  /\ Goto(w, "lock", "dispatch")
  /\ mutex' = w
  /\ UNCHANGED <<connVars, outVars, histVars, clientVars, taskVars>>

\* The number, among those its client sent, of the message w handles next.
Current_Last(w) == got[cid[w]]

Current(w) == got[cid[w]] - todo[w] + 1

Pops(w, kind) ==
  /\ todo[w] > 0
  /\ sent[cid[w]][Current(w)] = kind
  /\ todo' = [todo EXCEPT ![w] = @ - 1]

DispatchOther(w) ==
  /\ Goto(w, "dispatch", "dispatch")
  /\ Pops(w, "OTHER")
  /\ UNCHANGED <<connVars, outVars, mutex, histVars, clientVars, cid, msg, idx>>

DispatchTouch(w) ==
  /\ Goto(w, "dispatch", "callback")
  /\ Pops(w, "TOUCH_EVENT")
  /\ inputs' = [inputs EXCEPT ![cid[w]] = Append(@, Current(w))]
  /\ UNCHANGED <<connVars, outVars, mutex, due, clientVars, cid, msg, idx>>

Callback(w) ==
  /\ \/ Goto(w, "callback", "dispatch") /\ UNCHANGED <<mutex, taskVars>>
     \/ CallbackMayThrow /\ pc[w] = "callback" /\ Thrown(w)
  /\ UNCHANGED <<connVars, outVars, histVars, clientVars>>

DispatchPing(w) ==
  /\ Goto(w, "dispatch", "size")
  /\ Pops(w, "PING")
  /\ sequence' = sequence + 1
  /\ msg' = [msg EXCEPT ![w] = Message("PONG", sequence)]
  /\ idx' = [idx EXCEPT ![w] = 0]
  /\ UNCHANGED <<connVars, frames, wire, mutex, histVars, clientVars, cid>>

\* No whole message is left in the buffer: the lock_guard unlocks.
Unlock(w) ==
  /\ todo[w] = 0
  /\ Goto(w, "dispatch", "read_again")
  /\ mutex' = Unlocked(w)
  /\ UNCHANGED <<connVars, outVars, histVars, clientVars, taskVars>>

ReadAgain(w) ==
  /\ Goto(w, "read_again", "idle")
  /\ reading' = reading \cup {cid[w]}
  /\ EndOfTask(w)
  /\ UNCHANGED <<accepting, next_id, conns, outVars, mutex, histVars, clientVars>>

-----------------------------------------------------------------------------
(***************************************************************************)
(* The loop over connections_ that send_frame, send_audio,                 *)
(* broadcast_message and the answer to PING share.  A producer sends to    *)
(* every connection it finds, a worker to the one that asked, and breaks.  *)
(***************************************************************************)

\* send_frame up to its loop; with no connection it returns at once.
BeginFrame(p) ==
  /\ frames < MaxFrames
  /\ Size(conns) > 0
  /\ Goto(p, "idle", "size")
  /\ frames' = frames + 1
  /\ sequence' = sequence + 1
  /\ msg' = [msg EXCEPT ![p] = Message("FRAME_DATA", sequence)]
  /\ idx' = [idx EXCEPT ![p] = 0]
  /\ due' = [due EXCEPT ![p] = conns]
  /\ UNCHANGED <<connVars, wire, mutex, inputs, clientVars, cid, todo>>

LoopEnd(t) == IF t \in Workers THEN "dispatch" ELSE "idle"

LoopSize(t) ==
  /\ Goto(t, "size", IF idx[t] < Size(conns) THEN "at" ELSE LoopEnd(t))
  /\ UNCHANGED <<connVars, outVars, mutex, histVars, clientVars, taskVars>>

Wanted_Any(t) == TRUE
Wanted_Broadcast(t) == t \in Producers

\* conn->id() == id, in the answer to PING only.
Wanted(t) == t \in Producers \/ idx[t] = cid[t]

LoopAt(t) ==
  /\ \/ /\ ~AtThrows(conns, idx[t])
        /\ Goto(t, "at", IF Wanted(t) THEN "send" ELSE "size")
        /\ idx' = [idx EXCEPT ![t] = IF Wanted(t) THEN @ ELSE @ + 1]
        /\ UNCHANGED <<mutex, cid, todo, msg>>
     \/ /\ AtThrows(conns, idx[t])
        /\ pc[t] = "at"
        /\ Thrown(t)
  /\ UNCHANGED <<connVars, outVars, histVars, clientVars>>

\* conn is a shared_ptr of the loop's own: the entry may be gone by now.
LoopSend(t) ==
  /\ \/ /\ Goto(t, "send", IF t \in Workers THEN "dispatch" ELSE "size")
        /\ SendDone(idx[t], msg[t])
        /\ idx' = [idx EXCEPT ![t] = IF t \in Workers THEN 0 ELSE @ + 1]
        /\ UNCHANGED <<mutex, cid, todo, msg>>
     \/ /\ pc[t] = "send"
        /\ SendThrows(idx[t])
        /\ Thrown(t)
  /\ UNCHANGED <<connVars, sequence, frames, histVars, open, sent, got>>

(***************************************************************************)
(* size() and at() take no lock, so they may walk the map while add or     *)
(* remove changes it.  The outcomes that are neither the map before nor    *)
(* the map after the change are those that end the process.                *)
(***************************************************************************)
LoopRaces(t) ==
  /\ alive
  /\ pc[t] \in {"size", "at"}
  /\ \E w \in Workers \ {t} : pc[w] \in {"add", "remove"}
  /\ alive' = FALSE
  /\ UNCHANGED <<connVars, outVars, mutex, histVars, clientVars, pc, taskVars>>

-----------------------------------------------------------------------------
Init ==
  /\ alive = TRUE
  /\ accepting = TRUE
  /\ next_id = 0
  /\ conns = Cleared
  /\ reading = {}
  /\ sequence = 0
  /\ frames = 0
  /\ wire = [i \in Ids |-> <<>>]
  /\ mutex = NoThread
  /\ inputs = [i \in Ids |-> <<>>]
  /\ open = {}
  /\ sent = [i \in Ids |-> <<>>]
  /\ got = [i \in Ids |-> 0]
  /\ unread = [i \in Ids |-> 0]
  /\ pc = [t \in Threads |-> "idle"]
  /\ cid = [t \in Threads |-> 0]
  /\ todo = [t \in Threads |-> 0]
  /\ msg = [t \in Threads |-> NoMessage]
  /\ idx = [t \in Threads |-> 0]
  /\ due = [t \in Threads |-> {}]

Client(i) ==
  \/ \E kind \in Kinds : ClientSends(i, kind)
  \/ ClientReads(i)
  \/ ClientCloses(i)

Connect(w) ==
  \/ Accept(w) \/ AddConnection(w) \/ Handshake(w) \/ HandshakeSend(w) \/ Arm(w)

Receive(w) ==
  \/ \E i \in Ids : ReadSome(w, i) \/ ReadError(w, i)
  \/ RemoveConnection(w)

Handle(w) ==
  \/ Lock(w) \/ DispatchOther(w) \/ DispatchTouch(w) \/ DispatchPing(w)
  \/ Callback(w) \/ Unlock(w) \/ ReadAgain(w)

Loop(t) == LoopSize(t) \/ LoopAt(t) \/ LoopSend(t)

Next ==
  \/ \E i \in Ids : Client(i)
  \/ \E w \in Workers : Connect(w) \/ Receive(w) \/ Handle(w)
  \/ \E p \in Producers : BeginFrame(p)
  \/ \E t \in Threads : Loop(t) \/ LoopRaces(t)

Spec == Init /\ [][Next]_vars

(***************************************************************************)
(* The scheduler runs every thread that can go on, and a client that stays *)
(* connected keeps reading, as StreamingClient.receiveLoop does.  Nothing  *)
(* makes a client connect, send or close, nor a data race bite.            *)
(***************************************************************************)
Fairness ==
  /\ \A w \in Workers : WF_vars(Connect(w) \/ Receive(w) \/ Handle(w))
  /\ \A t \in Threads : WF_vars(Loop(t))
  /\ \A i \in Ids : WF_vars(ClientReads(i))

FairSpec == Spec /\ Fairness

-----------------------------------------------------------------------------
(* Properties *)

LabelsOK ==
  /\ pc \in [Threads -> WorkerLabels \cup ProducerLabels]
  /\ \A w \in Workers : pc[w] \in WorkerLabels
  /\ \A p \in Producers : pc[p] \in ProducerLabels

\* The type invariant: among the threads, only a worker is ever in a handler and
\* only a producer ends by an exception.
TypeOK ==
  /\ alive \in BOOLEAN
  /\ accepting \in BOOLEAN
  /\ next_id \in 0 .. MaxClients
  /\ conns \subseteq Ids
  /\ reading \subseteq Ids
  /\ sequence \in Nat
  /\ frames \in 0 .. MaxFrames
  /\ wire \in [Ids -> Seq(ServerMessage)]
  /\ mutex \in Workers \cup {NoThread}
  /\ inputs \in [Ids -> Seq(1 .. MaxInbox)]
  /\ open \subseteq Ids
  /\ sent \in [Ids -> Seq(ClientKinds)]
  /\ got \in [Ids -> 0 .. MaxInbox]
  /\ unread \in [Ids -> 0 .. Window]
  /\ LabelsOK
  /\ cid \in [Threads -> Nat]
  /\ todo \in [Threads -> 0 .. MaxInbox]
  /\ msg \in [Threads -> ServerMessage]
  /\ idx \in [Threads -> Nat]
  /\ due \in [Threads -> SUBSET Ids]

InHandler(w) == pc[w] # "idle"

\* One worker at a time runs a handler of a connection, and none does while a
\* read of it is outstanding: the per-connection buffer needs no other order.
OneHandlerPerClient ==
  \A w \in Workers :
    InHandler(w) =>
      /\ cid[w] \notin reading
      /\ \A v \in Workers \ {w} : InHandler(v) => cid[v] # cid[w]

\* mutex_ is held exactly by the worker inside handle_client_message: an
\* exception on any of its paths releases it, and no second worker is inside.
MutexHeldInside ==
  \A w \in Workers : mutex = w <=> pc[w] \in LockedLabels

\* The device sees of each client's touch events a prefix: none twice, none
\* overtaken by a later one, none missing before one that was delivered.
TouchesInOrder ==
  \A i \in Ids : \A k \in DOMAIN inputs[i] :
    /\ sent[i][inputs[i][k]] = "TOUCH_EVENT"
    /\ \A n \in 1 .. inputs[i][k] - 1 :
         sent[i][n] = "TOUCH_EVENT" <=> \E j \in 1 .. k - 1 : inputs[i][j] = n

Count(s, x) == Cardinality({k \in DOMAIN s : s[k] = x})
Pings(i) == Count(sent[i], "PING")
Pongs(i) == Cardinality({k \in DOMAIN wire[i] : wire[i][k].type = "PONG"})

\* A client is sent no more PONGs than it sent PINGs: the answer goes to the
\* client that asked, and once.
PongsAnswerPings == \A i \in Ids : Pongs(i) <= Pings(i)

FramesInOrderAt(i) ==
  \A j, k \in DOMAIN wire[i] :
    /\ j < k
    /\ wire[i][j].type = "FRAME_DATA"
    /\ wire[i][k].type = "FRAME_DATA"
    => wire[i][j].seq < wire[i][k].seq

\* With one thread pushing frames, every client receives them in the order they
\* were pushed and none of them twice.
FramesInOrder == \A i \in Ids : FramesInOrderAt(i)

WireHas(i, m) == \E k \in DOMAIN wire[i] : wire[i][k] = m
NobodyLeft == open = 0 .. next_id - 1

\* As long as no client has ever left, a frame that send_frame has returned from
\* was written to every client that was connected when it began.
FrameReachesAllWhileNobodyLeft ==
  NobodyLeft =>
    \A p \in Producers :
      pc[p] = "idle" => \A i \in due[p] : WireHas(i, msg[p])

\* streaming_server.h:47 says of send_frame: Send a frame to all connected
\* clients.  So a client that was connected from its beginning to its end, and
\* has not closed, was sent the frame.
FrameReachesAll ==
  \A p \in Producers :
    pc[p] = "idle" => \A i \in due[p] \cap conns \cap open : WireHas(i, msg[p])

\* An exception ended the handler of the client, and nothing reads from it again.
Dropped(i) ==
  /\ i \notin reading
  /\ \A w \in Workers : InHandler(w) => cid[w] # i

\* As long as no client has ever left, every PING is answered, under any
\* interleaving of the workers, unless an exception has dropped the client.
PingsAnswered ==
  \A i \in Ids :
    (Pongs(i) < Pings(i))
      ~> (Pongs(i) = Pings(i) \/ ~NobodyLeft \/ ~alive \/ Dropped(i))

AllRead(i) == got[i] = Len(sent[i])

\* A client that closes while the server waits for its next message, having read
\* all the others, is removed.
ClosedIsRemoved ==
  \A i \in Ids :
    (i \in reading \ open /\ AllRead(i)) ~> (i \notin conns \/ ~alive)
=============================================================================
