--------------------------- MODULE RenderThreads ---------------------------
(***************************************************************************)
(* All OpenGL guests of the server at once: what one of them can make the  *)
(* others wait for.  Four things are shared:                               *)
(*   the workers of the io_service (runtime.cpp), which run the acceptor   *)
(*     (published_socket_connector.cpp, pipe_connection_creator.cpp), the  *)
(*     reads (opengles_socket_connection.cpp), and the destruction of a    *)
(*     connection;                                                         *)
(*   the mutex of the container of connections (connections.h), which      *)
(*     remove() holds while the connection it erases is destroyed;         *)
(*   global_lock, which a RenderThread holds while it decodes;             *)
(*   the viewers of the frames: a frame is sent from inside a decode.      *)
(*                                                                         *)
(* A guest has two threads of its own in the server, the render thread and *)
(* the write thread of its BufferedIOStream.  BufferedStream has these in  *)
(* detail; here a wait is a guard, a buffer is the number of requests in   *)
(* it, and what that module finds about the end of the write thread is     *)
(* Oversleeps.                                                             *)
(***************************************************************************)
EXTENDS Connections, Sequences

CONSTANTS
  Guests,      \* the processes in the container that use OpenGL
  Workers,     \* the threads of the Runtime
  InCapacity,  \* in_queue_'s capacity, 1024
  Requests,    \* bound: what each guest sends, a sequence of kinds
  NoOne        \* the owner of a mutex that is free

\* A cast has no answer, a call has one, and a post shows a frame.
Kinds == {"cast", "call", "post"}

ASSUME RenderAssumption ==
  /\ InCapacity \in Nat \ {0}
  /\ Requests \in [Guests -> Seq(Kinds)]
  /\ NoOne \notin Guests \cup Workers

GuestStages == {"away", "connecting", "open", "closed"}
WorkerLabels ==
  {"identify", "add", "arm", "return", "post", "remove", "stop", "wait", "join"}
Idle == <<"idle", NoOne>>
RenderLabels == {"none", "read", "lock", "decode", "decoded", "reply", "frame", "done"}
WriteLabels == {"none", "pop", "send", "asleep", "done"}

VARIABLES
  guest,        \* the stage each guest is in
  sent,         \* how many requests it has written
  awaiting,     \* it waits for the answer to the last of them
  accepting,    \* an async_accept is outstanding
  accepted,     \* the guests that have been accepted
  job,          \* where each worker is, and for which guest
  connections,  \* connections_
  container,    \* the owner of its mutex
  reading,      \* the connections with an outstanding read
  stopped,      \* those whose stream forceStop has closed
  posted,       \* how many requests post_data has pushed
  buffers,      \* how many buffers are in in_queue_
  queued,       \* how many requests are in these
  buffered,     \* how many are in the ReadBuffer
  decoded,      \* how many have been decoded
  render,       \* where each render thread is
  global_lock,  \* its owner
  write,        \* where each write thread is
  out_queue     \* how many answers are in out_queue_

guestVars == <<guest, sent, awaiting>>
poolVars == <<accepting, accepted, job>>
connVars == <<connections, container, reading>>
queueVars == <<posted, buffers, queued>>
renderVars == <<buffered, decoded, render, global_lock>>
vars == <<guestVars, poolVars, connVars, stopped, queueVars,
          renderVars, write, out_queue>>

Becomes(w, from, to) == job[w] = from /\ job' = [job EXCEPT ![w] = to]
Starts(w, g, to) == Becomes(w, Idle, <<to, g>>)
Goto(w, g, from, to) == Becomes(w, <<from, g>>, <<to, g>>)
Ends(w, g, from) == Becomes(w, <<from, g>>, Idle)

RenderGoto(g, from, to) == render[g] = from /\ render' = [render EXCEPT ![g] = to]
WriteGoto(g, from, to) == write[g] = from /\ write' = [write EXCEPT ![g] = to]

-----------------------------------------------------------------------------
(* The guests *)

HostUnchanged ==
  UNCHANGED <<poolVars, connVars, stopped, queueVars, renderVars, write, out_queue>>

GuestBecomes(g, from, to) ==
  /\ guest[g] = from
  /\ guest' = [guest EXCEPT ![g] = to]
  /\ UNCHANGED <<sent, awaiting>>
  /\ HostUnchanged

GuestConnects(g) == GuestBecomes(g, "away", "connecting")

\* The name of the service and the client flags, which the guest's library sends at once.
GuestNames(g) == GuestBecomes(g, "connecting", "open")

GuestCloses(g) == GuestBecomes(g, "open", "closed")

\* The encoder reads the answer to a call before it returns.
GuestSends(g) ==
  /\ guest[g] = "open"
  /\ ~awaiting[g]
  /\ sent[g] < Len(Requests[g])
  /\ sent' = [sent EXCEPT ![g] = @ + 1]
  /\ awaiting' = [awaiting EXCEPT ![g] = (Requests[g][sent[g] + 1] = "call")]
  /\ UNCHANGED guest
  /\ HostUnchanged

-----------------------------------------------------------------------------
(* A worker: the acceptor *)

Accept(w, g) ==
  /\ accepting
  /\ g \notin accepted /\ guest[g] # "away"
  /\ Starts(w, g, "identify")
  /\ accepting' = FALSE
  /\ accepted' = accepted \cup {g}
  /\ UNCHANGED <<connVars, stopped, queueVars, render, write>>

\* identify_client and the processor read what the guest sends first, in place.
Identify(w, g) ==
  /\ guest[g] \in {"open", "closed"}
  /\ Goto(w, g, "identify", "add")
  /\ render' = [render EXCEPT ![g] = "read"]
  /\ write' = [write EXCEPT ![g] = "pop"]
  /\ UNCHANGED <<accepting, accepted, connVars, stopped, queueVars>>

Add(w, g) ==
  /\ container = NoOne
  /\ Goto(w, g, "add", "arm")
  /\ connections' = Added(connections, g)
  /\ UNCHANGED <<accepting, accepted, container, reading, stopped, queueVars,
                 render, write>>

Arm(w, g) ==
  /\ Goto(w, g, "arm", "return")
  /\ reading' = reading \cup {g}
  /\ UNCHANGED <<accepting, accepted, connections, container, stopped, queueVars,
                 render, write>>

(***************************************************************************)
(* create_connection_for drops its reference, and the acceptor accepts     *)
(* again.  When the connection has been removed in the meantime this is    *)
(* the last reference, and the acceptor's worker destroys it.              *)
(***************************************************************************)
Return(w, g) ==
  /\ \/ /\ g \in connections
        /\ Ends(w, g, "return")
        /\ accepting' = TRUE
     \/ /\ g \notin connections
        /\ Goto(w, g, "return", "stop")
        /\ UNCHANGED accepting
  /\ UNCHANGED <<accepted, connVars, stopped, queueVars, render, write>>

-----------------------------------------------------------------------------
(* A worker: OpenGlesSocketConnection::on_read_size *)

Receive(w, g) ==
  /\ g \in reading
  /\ posted[g] < sent[g]
  /\ Starts(w, g, "post")
  /\ reading' = reading \ {g}
  /\ UNCHANGED <<accepting, accepted, connections, container, stopped, queueVars,
                 render, write>>

HasRoom(g) == buffers[g] < InCapacity

\* One read takes some of what is in the socket; post_data waits while in_queue_ is full.
PostData(w, g) ==
  /\ HasRoom(g)
  /\ Ends(w, g, "post")
  /\ buffers' = [buffers EXCEPT ![g] = @ + 1]
  /\ \E n \in 1 .. sent[g] - posted[g] :
       /\ posted' = [posted EXCEPT ![g] = @ + n]
       /\ queued' = [queued EXCEPT ![g] = @ + n]
  /\ reading' = reading \cup {g}
  /\ UNCHANGED <<accepting, accepted, connections, container, stopped, render,
                 write>>

ReadFails(w, g) ==
  /\ g \in reading
  /\ guest[g] = "closed" /\ posted[g] = sent[g]
  /\ Starts(w, g, "remove")
  /\ reading' = reading \ {g}
  /\ UNCHANGED <<accepting, accepted, connections, container, stopped, queueVars,
                 render, write>>

Held_Borrowed(g) == FALSE

\* The acceptor has yet to drop its reference.
Held(g) == \E v \in Workers : job[v] = <<"return", g>>

Remove(w, g) ==
  /\ container = NoOne
  /\ connections' = Removed(connections, g)
  /\ \/ /\ Held(g)
        /\ Ends(w, g, "remove")
        /\ UNCHANGED container
     \/ /\ ~Held(g)
        /\ Goto(w, g, "remove", "stop")
        /\ container' = w
  /\ UNCHANGED <<accepting, accepted, reading, stopped, queueVars, render,
                 write>>

-----------------------------------------------------------------------------
(* A worker: the destruction of a connection *)

\* forceStop closes out_queue_ without the mutex its waiter uses: it may sleep on.
Oversleeps(g) ==
  /\ out_queue[g] = 0
  /\ WriteGoto(g, "pop", "asleep")

Stop_Nothing(w, g) ==
  /\ Goto(w, g, "stop", "wait")
  /\ UNCHANGED <<accepting, accepted, connVars, stopped, queueVars, render,
                 write>>

Stop(w, g) ==
  /\ Goto(w, g, "stop", "wait")
  /\ stopped' = stopped \cup {g}
  /\ Oversleeps(g) \/ UNCHANGED write
  /\ UNCHANGED <<accepting, accepted, connVars, queueVars, render>>

Wait(w, g) ==
  /\ render[g] = "done"
  /\ Goto(w, g, "wait", "join")
  /\ UNCHANGED <<accepting, accepted, connVars, stopped, queueVars, render,
                 write>>

Released_Kept(w) == container

\* remove returns, or else the acceptor does.
Released(w) == IF container = w THEN NoOne ELSE container

Join(w, g) ==
  /\ write[g] = "done"
  /\ Ends(w, g, "join")
  /\ container' = Released(w)
  /\ accepting' = (accepting \/ container # w)
  /\ UNCHANGED <<accepted, connections, reading, stopped, queueVars, render,
                 write>>

Work(w) ==
  /\ \E g \in Guests :
       \/ Accept(w, g) \/ Identify(w, g) \/ Add(w, g) \/ Arm(w, g) \/ Return(w, g)
       \/ Receive(w, g) \/ PostData(w, g) \/ ReadFails(w, g) \/ Remove(w, g)
       \/ Stop(w, g) \/ Wait(w, g) \/ Join(w, g)
  /\ UNCHANGED <<guestVars, buffered, decoded, global_lock, out_queue>>

-----------------------------------------------------------------------------
(* A render thread: RenderThread::main *)

\* getData takes all there is.
Read(g) ==
  /\ buffers[g] > 0
  /\ RenderGoto(g, "read", "lock")
  /\ buffered' = [buffered EXCEPT ![g] = @ + queued[g]]
  /\ queued' = [queued EXCEPT ![g] = 0]
  /\ buffers' = [buffers EXCEPT ![g] = 0]
  /\ UNCHANGED <<decoded, global_lock, out_queue>>

ReadEnds(g) ==
  /\ buffers[g] = 0 /\ g \in stopped
  /\ RenderGoto(g, "read", "done")
  /\ UNCHANGED <<buffers, queued, buffered, decoded, global_lock, out_queue>>

Lock(g) ==
  /\ global_lock = NoOne
  /\ RenderGoto(g, "lock", "decode")
  /\ global_lock' = g
  /\ UNCHANGED <<buffers, queued, buffered, decoded, out_queue>>

After_Answered(kind) == IF kind = "post" THEN "frame" ELSE "reply"

After(kind) == [cast |-> "decoded", call |-> "reply", post |-> "frame"][kind]

Decode(g) ==
  /\ render[g] \in {"decode", "decoded"}
  /\ buffered[g] > 0
  /\ buffered' = [buffered EXCEPT ![g] = @ - 1]
  /\ decoded' = [decoded EXCEPT ![g] = @ + 1]
  /\ render' = [render EXCEPT ![g] = After(Requests[g][decoded[g] + 1])]
  /\ UNCHANGED <<buffers, queued, global_lock, out_queue>>

\* The write thread holds out_lock_ from the pop of an answer until it has sent it.
OutLocked(g) == write[g] = "send"

\* allocBuffer and commitBuffer; a queue that is closed takes nothing.
Reply(g) ==
  /\ ~OutLocked(g)
  /\ RenderGoto(g, "reply", "decoded")
  /\ out_queue' = IF g \in stopped THEN out_queue ELSE [out_queue EXCEPT ![g] = @ + 1]
  /\ UNCHANGED <<buffers, queued, buffered, decoded, global_lock>>

(***************************************************************************)
(* rcPostAllLayersDone: submit_layers, and send_frame to the viewers, one  *)
(* after the other.  It lasts until each of them has taken its frame.      *)
(***************************************************************************)
Frame(g) ==
  /\ RenderGoto(g, "frame", "decoded")
  /\ UNCHANGED <<buffers, queued, buffered, decoded, global_lock, out_queue>>

AfterPass_Once == "read"

AfterPass == "lock"

(***************************************************************************)
(* The three decoders have had their turn.  With progress there is another *)
(* pass, with the mutex released in between; a pass that finds nothing is  *)
(* the last.                                                               *)
(***************************************************************************)
EndPass(g) ==
  /\ \/ RenderGoto(g, "decoded", AfterPass)
     \/ buffered[g] = 0 /\ RenderGoto(g, "decode", "read")
  /\ global_lock' = NoOne
  /\ UNCHANGED <<buffers, queued, buffered, decoded, out_queue>>

Render(g) ==
  /\ \/ Read(g) \/ ReadEnds(g) \/ Lock(g) \/ Decode(g)
     \/ Reply(g) \/ Frame(g) \/ EndPass(g)
  /\ UNCHANGED <<guestVars, poolVars, connVars, stopped, posted, write>>

-----------------------------------------------------------------------------
(* A write thread: BufferedIOStream::thread_main *)

WritePops(g) ==
  /\ out_queue[g] > 0
  /\ WriteGoto(g, "pop", "send")
  /\ out_queue' = [out_queue EXCEPT ![g] = @ - 1]

SendFails(g) ==
  /\ guest[g] = "closed"
  /\ WriteGoto(g, "send", "pop")
  /\ UNCHANGED out_queue

WriteEnds(g) ==
  /\ out_queue[g] = 0 /\ g \in stopped
  /\ WriteGoto(g, "pop", "done")
  /\ UNCHANGED out_queue

Write(g) ==
  /\ WritePops(g) \/ SendFails(g) \/ WriteEnds(g)
  /\ UNCHANGED <<guestVars, poolVars, connVars, stopped, queueVars,
                 renderVars>>

\* The last of an answer fits in the socket when the guest reads it: that may be never.
SendEnds(g) ==
  /\ guest[g] = "open"
  /\ WriteGoto(g, "send", "pop")
  /\ awaiting' = [awaiting EXCEPT ![g] = FALSE]
  /\ UNCHANGED <<guest, sent, poolVars, connVars, stopped, queueVars,
                 renderVars, out_queue>>

-----------------------------------------------------------------------------
Init ==
  /\ guest = [g \in Guests |-> "away"]
  /\ sent = [g \in Guests |-> 0]
  /\ awaiting = [g \in Guests |-> FALSE]
  /\ accepting = TRUE
  /\ accepted = {}
  /\ job = [w \in Workers |-> Idle]
  /\ connections = Cleared
  /\ container = NoOne
  /\ reading = {}
  /\ stopped = {}
  /\ posted = [g \in Guests |-> 0]
  /\ buffers = [g \in Guests |-> 0]
  /\ queued = [g \in Guests |-> 0]
  /\ buffered = [g \in Guests |-> 0]
  /\ decoded = [g \in Guests |-> 0]
  /\ render = [g \in Guests |-> "none"]
  /\ global_lock = NoOne
  /\ write = [g \in Guests |-> "none"]
  /\ out_queue = [g \in Guests |-> 0]

System ==
  \/ \E w \in Workers : Work(w)
  \/ \E g \in Guests : Render(g) \/ Write(g) \/ GuestNames(g)

Next ==
  \/ System
  \/ \E g \in Guests : GuestConnects(g) \/ GuestSends(g) \/ GuestCloses(g) \/ SendEnds(g)

Spec == Init /\ [][Next]_vars

(***************************************************************************)
(* The server does not rest while one of its threads can go on, a guest's  *)
(* library sends the name, and the viewers take their frames in the end.   *)
(* What a guest sends is bounded, so no thread is passed over for ever.    *)
(* Nothing is assumed of what the guests send and when they read.          *)
(***************************************************************************)
Fairness == WF_vars(System)

FairSpec == Spec /\ Fairness

-----------------------------------------------------------------------------
TypeOK ==
  /\ guest \in [Guests -> GuestStages]
  /\ sent \in [Guests -> Nat] /\ \A g \in Guests : sent[g] <= Len(Requests[g])
  /\ awaiting \in [Guests -> BOOLEAN]
  /\ accepting \in BOOLEAN
  /\ job \in [Workers -> {Idle} \cup (WorkerLabels \X Guests)]
  /\ container \in Workers \cup {NoOne}
  /\ accepted \subseteq Guests /\ connections \subseteq Guests
  /\ reading \subseteq Guests /\ stopped \subseteq Guests
  /\ posted \in [Guests -> Nat] /\ decoded \in [Guests -> Nat]
  /\ buffers \in [Guests -> Nat] /\ queued \in [Guests -> Nat]
  /\ buffered \in [Guests -> Nat] /\ out_queue \in [Guests -> Nat]
  /\ render \in [Guests -> RenderLabels]
  /\ global_lock \in Guests \cup {NoOne}
  /\ write \in [Guests -> WriteLabels]

(***************************************************************************)
(* A render thread that holds the mutex of all of them never waits there   *)
(* for its own guest to read: when it commits an answer the write thread   *)
(* is done with the one before, which the guest has read to send its next  *)
(* request.  Only a viewer can make it wait.                               *)
(***************************************************************************)
MutexWaitsForNoGuest ==
  \A g \in Guests : render[g] = "reply" => global_lock = g /\ ~OutLocked(g)

Destroys(w, g) == job[w] \in {<<"stop", g>>, <<"wait", g>>, <<"join", g>>}

(***************************************************************************)
(* Handlers hold a bare this, and two workers can drop the last reference: *)
(* the destructor runs on one worker only, and when it does no handler of  *)
(* the connection runs, none can come, and the acceptor is done with it.   *)
(***************************************************************************)
NobodyUsesDestroyed ==
  \A w \in Workers : \A g \in Guests :
    Destroys(w, g) =>
      /\ g \notin connections \cup reading
      /\ \A v \in Workers \ {w} : \A label \in WorkerLabels : job[v] # <<label, g>>

\* A write thread has missed its wake-up: BufferedStream's DestructionEnds.
Overslept == \E g \in Guests : write[g] = "asleep"

(***************************************************************************)
(* Whatever the other guests do, and also when they do not read their      *)
(* answers: what a guest has sent is decoded in the end, even when it has  *)
(* closed since.                                                           *)
(***************************************************************************)
RequestsDecoded == \A g \in Guests : []<>(decoded[g] = sent[g] \/ Overslept)

Gone(g) == g \notin connections /\ render[g] = "done" /\ write[g] = "done"

\* A guest that closes is removed, and its threads end, on either way to the destructor.
ClosedGuestsGo == \A g \in Guests : guest[g] = "closed" ~> Gone(g) \/ Overslept

(***************************************************************************)
(* However the workers are kept waiting, in post_data, in add, or in a     *)
(* destructor that holds the container's mutex: another guest still gets   *)
(* in, because a worker is free in the end and the acceptor accepts again. *)
(***************************************************************************)
GuestsGetIn ==
  \A g \in Guests :
    guest[g] = "connecting" ~> g \in connections \/ Gone(g) \/ Overslept
=============================================================================
