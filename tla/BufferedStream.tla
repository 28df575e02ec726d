--------------------------- MODULE BufferedStream ---------------------------
(***************************************************************************)
(* One OpenGL client of the host: graphics/buffered_io_stream.cpp between  *)
(*   conn    the worker that runs the connection's handlers: it posts what *)
(*           the client sends, and destroys the message processor when the *)
(*           client has closed;                                            *)
(*   render  the RenderThread: it reads commands and commits replies;      *)
(*   write   the stream's own thread, which sends the replies.             *)
(*                                                                         *)
(* in_queue_ is used under lock_ only.  out_queue_ is used by commitBuffer *)
(* and thread_main under out_lock_, but closed by forceStop, which holds   *)
(* lock_ alone: its accesses to out_queue_ are steps of their own, and so  *)
(* are the look at closed_ and the wait that follows it.                   *)
(*                                                                         *)
(* The bytes of each direction are numbered.  A wait ends by a notify or   *)
(* spuriously; the waiter then takes the mutex again and goes through the  *)
(* loop again.  Each condition variable has at most one waiter, so         *)
(* notify_one and notify_all do the same.                                  *)
(***************************************************************************)
EXTENDS BufferQueue

CONSTANTS
  InCapacity,   \* in_queue_'s capacity, 1024
  OutCapacity,  \* out_queue_'s capacity, 16
  MaxBuffer,    \* bound: bytes in one buffer
  MaxRead,      \* bound: bytes one read() asks for
  MaxIn,        \* bound: bytes the client sends
  MaxOut,       \* bound: bytes the render thread answers
  Window,       \* bytes the client's socket holds unread
  MaxSpurious   \* bound: spurious wakeups

ASSUME StreamAssumption ==
  /\ InCapacity \in Nat \ {0}
  /\ OutCapacity \in Nat \ {0}
  /\ {MaxBuffer, MaxRead, MaxIn, MaxOut, Window, MaxSpurious} \subseteq Nat

Threads == {"conn", "render", "write"}
NoThread == "none"

ConnLabels ==
  {"idle", "post", "post_wait", "stop", "stop_out", "stop_push", "stop_pop",
   "wait", "join", "gone"}
RenderLabels ==
  {"read", "read_wait", "read_woken", "read_loop", "decode", "commit",
   "commit_blocks", "commit_wait", "done"}
WriteLabels == {"pop", "pop_blocks", "pop_wait", "send", "done"}

VARIABLES
  pc,                \* where each thread is
  lock,              \* the owner of lock_
  out_lock,          \* the owner of out_lock_
  in_queue,
  out_queue,
  peer_open,         \* the client has not closed its end
  posted,            \* how many bytes the connection has received
  data,              \* those post_data has yet to push
  stops,             \* how many calls of forceStop have returned
  wanted,            \* *inout_len, as read() was given it
  count,             \* the bytes read() has copied
  read_buffer,
  read_buffer_left,
  taken,             \* all bytes read() has copied, in order
  committed,         \* how many bytes have been committed
  reply,             \* those commitBuffer has yet to push
  sending,           \* those thread_main has yet to write
  wire,              \* the bytes written to the socket, in order
  unread,            \* how many of those the client has yet to read
  spurious           \* how many spurious wakeups there were

readVars == <<wanted, count, read_buffer, read_buffer_left, taken>>
sendVars == <<sending, wire, unread>>
vars == <<pc, lock, out_lock, in_queue, out_queue, peer_open, posted, data, stops,
          readVars, committed, reply, sendVars, spurious>>

Bytes(first, n) == [k \in 1 .. n |-> first + k]
Buffers == {Bytes(first, n) : first \in 0 .. MaxIn + MaxOut, n \in 1 .. MaxBuffer}

Goto(t, from, to) == pc[t] = from /\ pc' = [pc EXCEPT ![t] = to]

\* t goes to a label, and if wakes holds, u from its wait to the loop's head.
GotoAndWake(t, from, to, wakes, u, waiting, woken) ==
  /\ pc[t] = from
  /\ pc' = [pc EXCEPT ![t] = to,
                      ![u] = IF wakes /\ @ = waiting THEN woken ELSE @]

-----------------------------------------------------------------------------
(* The client, and spurious wakeups *)

PeerReads ==
  /\ unread > 0
  /\ unread' = unread - 1
  /\ UNCHANGED <<pc, lock, out_lock, in_queue, out_queue, peer_open, posted, data,
                 stops, readVars, committed, reply, sending, wire, spurious>>

PeerCloses ==
  /\ peer_open
  /\ peer_open' = FALSE
  /\ UNCHANGED <<pc, lock, out_lock, in_queue, out_queue, posted, data, stops,
                 readVars, committed, reply, sendVars, spurious>>

Spurious ==
  /\ spurious < MaxSpurious
  /\ spurious' = spurious + 1
  /\ \/ Goto("conn", "post_wait", "post")
     \/ Goto("render", "read_wait", "read_woken")
     \/ Goto("render", "commit_wait", "commit")
     \/ Goto("write", "pop_wait", "pop")
  /\ UNCHANGED <<lock, out_lock, in_queue, out_queue, peer_open, posted, data, stops,
                 readVars, committed, reply, sendVars>>

-----------------------------------------------------------------------------
(* conn: OpenGlesSocketConnection::on_read_size and post_data *)

Receive ==
  /\ peer_open
  /\ Goto("conn", "idle", "post")
  /\ \E n \in 1 .. MaxBuffer :
       /\ posted + n <= MaxIn
       /\ data' = Bytes(posted, n)
       /\ posted' = posted + n
  /\ UNCHANGED <<lock, out_lock, in_queue, out_queue, peer_open, stops, readVars,
                 committed, reply, sendVars, spurious>>

PostData ==
  /\ lock = NoThread
  /\ \/ /\ IsFull(in_queue)
        /\ Goto("conn", "post", "post_wait")
        /\ UNCHANGED <<in_queue, data>>
     \/ /\ ~IsFull(in_queue)
        /\ in_queue' = TryPush(in_queue, data)
        /\ GotoAndWake("conn", "post", "idle", WakesPopper(in_queue, in_queue'),
                       "render", "read_wait", "read_woken")
        /\ data' = <<>>
  /\ UNCHANGED <<lock, out_lock, out_queue, peer_open, posted, stops, readVars,
                 committed, reply, sendVars, spurious>>

-----------------------------------------------------------------------------
(***************************************************************************)
(* conn: the read fails, connections_->remove destroys the connection and  *)
(* with it the OpenGlesMessageProcessor: forceStop and wait(), then the    *)
(* forceStop of ~RenderThread, then the forceStop and the join of          *)
(* ~BufferedIOStream.                                                      *)
(***************************************************************************)
ReadFails ==
  /\ ~peer_open
  /\ Goto("conn", "idle", "stop")
  /\ UNCHANGED <<lock, out_lock, in_queue, out_queue, peer_open, posted, data, stops,
                 readVars, committed, reply, sendVars, spurious>>

StopIn ==
  /\ lock = NoThread
  /\ lock' = "conn"
  /\ in_queue' = Closed(in_queue)
  /\ GotoAndWake("conn", "stop", "stop_out", CloseWakesPopper(in_queue),
                 "render", "read_wait", "read_woken")
  /\ UNCHANGED <<out_lock, out_queue, peer_open, posted, data, stops, readVars,
                 committed, reply, sendVars, spurious>>

StopOut ==
  /\ Goto("conn", "stop_out", "stop_push")
  /\ out_queue' = Closed(out_queue)
  /\ UNCHANGED <<lock, out_lock, in_queue, peer_open, posted, data, stops, readVars,
                 committed, reply, sendVars, spurious>>

StopWakesPusher ==
  /\ GotoAndWake("conn", "stop_push", "stop_pop", CloseWakesPusher(out_queue),
                 "render", "commit_wait", "commit")
  /\ UNCHANGED <<lock, out_lock, in_queue, out_queue, peer_open, posted, data, stops,
                 readVars, committed, reply, sendVars, spurious>>

StopWakesPopper ==
  /\ GotoAndWake("conn", "stop_pop",
                 CASE stops = 0 -> "wait" [] stops = 1 -> "stop" [] OTHER -> "join",
                 CloseWakesPopper(out_queue), "write", "pop_wait", "pop")
  /\ stops' = stops + 1
  /\ lock' = NoThread
  /\ UNCHANGED <<out_lock, in_queue, out_queue, peer_open, posted, data, readVars,
                 committed, reply, sendVars, spurious>>

WaitForRender ==
  /\ pc["render"] = "done"
  /\ Goto("conn", "wait", "stop")
  /\ UNCHANGED <<lock, out_lock, in_queue, out_queue, peer_open, posted, data, stops,
                 readVars, committed, reply, sendVars, spurious>>

Join ==
  /\ pc["write"] = "done"
  /\ Goto("conn", "join", "gone")
  /\ UNCHANGED <<lock, out_lock, in_queue, out_queue, peer_open, posted, data, stops,
                 readVars, committed, reply, sendVars, spurious>>

-----------------------------------------------------------------------------
(* render: read(), holding lock_ from its first iteration to its return *)

ReadBegins ==
  /\ lock = NoThread
  /\ Goto("render", "read", "read_loop")
  /\ lock' = "render"
  /\ wanted' \in 1 .. MaxRead
  /\ count' = 0
  /\ UNCHANGED <<out_lock, in_queue, out_queue, peer_open, posted, data, stops,
                 read_buffer, read_buffer_left, taken, committed, reply, sendVars,
                 spurious>>

\* The next n bytes of read_buffer_.
Unread_Front(n) == SubSeq(read_buffer, 1, n)

Unread(n) ==
  LET read == Len(read_buffer) - read_buffer_left
  IN  SubSeq(read_buffer, read + 1, read + n)

ReadCopies ==
  /\ pc["render"] = "read_loop"
  /\ count < wanted
  /\ read_buffer_left > 0
  /\ \E avail \in {wanted - count, read_buffer_left} :
       /\ avail <= wanted - count
       /\ avail <= read_buffer_left
       /\ taken' = taken \o Unread(avail)
       /\ count' = count + avail
       /\ read_buffer_left' = read_buffer_left - avail
  /\ UNCHANGED <<pc, lock, out_lock, in_queue, out_queue, peer_open, posted, data,
                 stops, wanted, read_buffer, committed, reply, sendVars, spurious>>

\* pop_locked or try_pop_locked, as no byte or some have been copied.
ReadPops ==
  /\ count < wanted
  /\ read_buffer_left = 0
  /\ ~IsEmpty(in_queue)
  /\ in_queue' = Popped(in_queue)
  /\ GotoAndWake("render", "read_loop", "read_loop", WakesPusher(in_queue, in_queue'),
                 "conn", "post_wait", "post")
  /\ read_buffer' = Front(in_queue)
  /\ read_buffer_left' = Len(read_buffer')
  /\ UNCHANGED <<lock, out_lock, out_queue, peer_open, posted, data, stops, wanted,
                 count, taken, committed, reply, sendVars, spurious>>

ReadWaits ==
  /\ count = 0
  /\ read_buffer_left = 0
  /\ IsEmpty(in_queue)
  /\ ~in_queue.closed
  /\ Goto("render", "read_loop", "read_wait")
  /\ lock' = NoThread
  /\ UNCHANGED <<out_lock, in_queue, out_queue, peer_open, posted, data, stops,
                 readVars, committed, reply, sendVars, spurious>>

ReadWoken ==
  /\ lock = NoThread
  /\ Goto("render", "read_woken", "read_loop")
  /\ lock' = "render"
  /\ UNCHANGED <<out_lock, in_queue, out_queue, peer_open, posted, data, stops,
                 readVars, committed, reply, sendVars, spurious>>

ReadReturns ==
  /\ \/ count = wanted
     \/ count > 0 /\ read_buffer_left = 0 /\ IsEmpty(in_queue)
  /\ Goto("render", "read_loop", "decode")
  /\ lock' = NoThread
  /\ wanted' = 0 /\ count' = 0
  /\ UNCHANGED <<out_lock, in_queue, out_queue, peer_open, posted, data, stops,
                 read_buffer, read_buffer_left, taken, committed, reply, sendVars,
                 spurious>>

EndOfInput_Early == count = 0 /\ read_buffer_left = 0 /\ in_queue.closed

\* pop_locked returns -EIO before a byte has been copied.
EndOfInput ==
  count = 0 /\ read_buffer_left = 0 /\ IsEmpty(in_queue) /\ in_queue.closed

\* read() returns nullptr, getData() -1, and RenderThread::main ends.
ReadEnds ==
  /\ EndOfInput
  /\ Goto("render", "read_loop", "done")
  /\ lock' = NoThread
  /\ UNCHANGED <<out_lock, in_queue, out_queue, peer_open, posted, data, stops,
                 readVars, committed, reply, sendVars, spurious>>

-----------------------------------------------------------------------------
(* render: the decoders, allocBuffer and commitBuffer *)

DecodeEnds ==
  /\ Goto("render", "decode", "read")
  /\ UNCHANGED <<lock, out_lock, in_queue, out_queue, peer_open, posted, data, stops,
                 readVars, committed, reply, sendVars, spurious>>

DecodeReplies ==
  /\ Goto("render", "decode", "commit")
  /\ \E n \in 1 .. MaxBuffer :
       /\ committed + n <= MaxOut
       /\ reply' = Bytes(committed, n)
       /\ committed' = committed + n
  /\ UNCHANGED <<lock, out_lock, in_queue, out_queue, peer_open, posted, data, stops,
                 readVars, sendVars, spurious>>

\* commitBuffer ignores what push_locked returns: a closed queue drops the reply.
CommitPushes ==
  /\ out_lock = NoThread
  /\ ~IsFull(out_queue) \/ out_queue.closed
  /\ out_queue' = TryPush(out_queue, reply)
  /\ GotoAndWake("render", "commit", "decode", WakesPopper(out_queue, out_queue'),
                 "write", "pop_wait", "pop")
  /\ reply' = <<>>
  /\ UNCHANGED <<lock, out_lock, in_queue, peer_open, posted, data, stops, readVars,
                 committed, sendVars, spurious>>

CommitBlocks ==
  /\ out_lock = NoThread
  /\ IsFull(out_queue)
  /\ ~out_queue.closed
  /\ Goto("render", "commit", "commit_blocks")
  /\ out_lock' = "render"
  /\ UNCHANGED <<lock, in_queue, out_queue, peer_open, posted, data, stops, readVars,
                 committed, reply, sendVars, spurious>>

CommitWaits ==
  /\ Goto("render", "commit_blocks", "commit_wait")
  /\ out_lock' = NoThread
  /\ UNCHANGED <<lock, in_queue, out_queue, peer_open, posted, data, stops, readVars,
                 committed, reply, sendVars, spurious>>

-----------------------------------------------------------------------------
(* write: thread_main *)

WritePops ==
  /\ out_lock = NoThread
  /\ ~IsEmpty(out_queue)
  /\ out_lock' = "write"
  /\ out_queue' = Popped(out_queue)
  /\ GotoAndWake("write", "pop", "send", WakesPusher(out_queue, out_queue'),
                 "render", "commit_wait", "commit")
  /\ sending' = Front(out_queue)
  /\ UNCHANGED <<lock, in_queue, peer_open, posted, data, stops, readVars, committed,
                 reply, wire, unread, spurious>>

WriteBlocks ==
  /\ out_lock = NoThread
  /\ IsEmpty(out_queue)
  /\ ~out_queue.closed
  /\ Goto("write", "pop", "pop_blocks")
  /\ out_lock' = "write"
  /\ UNCHANGED <<lock, in_queue, out_queue, peer_open, posted, data, stops, readVars,
                 committed, reply, sendVars, spurious>>

WriteWaits ==
  /\ Goto("write", "pop_blocks", "pop_wait")
  /\ out_lock' = NoThread
  /\ UNCHANGED <<lock, in_queue, out_queue, peer_open, posted, data, stops, readVars,
                 committed, reply, sendVars, spurious>>

WriteEnds ==
  /\ out_lock = NoThread
  /\ IsEmpty(out_queue)
  /\ out_queue.closed
  /\ Goto("write", "pop", "done")
  /\ UNCHANGED <<lock, out_lock, in_queue, out_queue, peer_open, posted, data, stops,
                 readVars, committed, reply, sendVars, spurious>>

Rest_Again(n) == SubSeq(sending, n, Len(sending))

\* What is left of the buffer once n of its bytes are written.
Rest(n) == SubSeq(sending, n + 1, Len(sending))

\* send_raw takes n bytes; with no room it is -EAGAIN, and the loop spins.
Send ==
  /\ pc["write"] = "send"
  /\ peer_open
  /\ \E n \in 1 .. Len(sending) :
       /\ unread + n <= Window
       /\ wire' = wire \o SubSeq(sending, 1, n)
       /\ unread' = unread + n
       /\ sending' = Rest(n)
  /\ UNCHANGED <<pc, lock, out_lock, in_queue, out_queue, peer_open, posted, data,
                 stops, readVars, committed, reply, spurious>>

\* EPIPE: the rest of the buffer is dropped, and the loop goes on.
SendFails ==
  /\ pc["write"] = "send"
  /\ ~peer_open
  /\ sending # <<>>
  /\ sending' = <<>>
  /\ UNCHANGED <<pc, lock, out_lock, in_queue, out_queue, peer_open, posted, data,
                 stops, readVars, committed, reply, wire, unread, spurious>>

SendEnds ==
  /\ sending = <<>>
  /\ Goto("write", "send", "pop")
  /\ out_lock' = NoThread
  /\ UNCHANGED <<lock, in_queue, out_queue, peer_open, posted, data, stops, readVars,
                 committed, reply, sendVars, spurious>>

-----------------------------------------------------------------------------
Init ==
  /\ pc = [conn |-> "idle", render |-> "read", write |-> "pop"]
  /\ lock = NoThread
  /\ out_lock = NoThread
  /\ in_queue = NewQueue(InCapacity)
  /\ out_queue = NewQueue(OutCapacity)
  /\ peer_open = TRUE
  /\ posted = 0
  /\ data = <<>>
  /\ stops = 0
  /\ wanted = 0
  /\ count = 0
  /\ read_buffer = <<>>
  /\ read_buffer_left = 0
  /\ taken = <<>>
  /\ committed = 0
  /\ reply = <<>>
  /\ sending = <<>>
  /\ wire = <<>>
  /\ unread = 0
  /\ spurious = 0

Peer == PeerReads \/ PeerCloses

Conn ==
  \/ PostData \/ ReadFails \/ StopIn \/ StopOut \/ StopWakesPusher
  \/ StopWakesPopper \/ WaitForRender \/ Join

Render ==
  \/ ReadBegins \/ ReadCopies \/ ReadPops \/ ReadWaits \/ ReadWoken \/ ReadReturns
  \/ ReadEnds \/ DecodeEnds \/ DecodeReplies \/ CommitPushes \/ CommitBlocks
  \/ CommitWaits

Write ==
  \/ WritePops \/ WriteBlocks \/ WriteWaits \/ WriteEnds \/ Send \/ SendFails
  \/ SendEnds

Next == Peer \/ Spurious \/ Receive \/ Conn \/ Render \/ Write

Spec == Init /\ [][Next]_vars

(***************************************************************************)
(* The scheduler runs each thread that can go on, and the client reads the *)
(* replies it asked for.  Nothing makes it send or close.                  *)
(***************************************************************************)
Fairness ==
  /\ WF_vars(Conn)
  /\ WF_vars(Render)
  /\ WF_vars(Write)
  /\ WF_vars(PeerReads)

FairSpec == Spec /\ Fairness

-----------------------------------------------------------------------------
(* Properties *)

Chunks == Buffers \cup {<<>>}

\* The type invariant.
TypeOK ==
  /\ pc \in [Threads -> ConnLabels \cup RenderLabels \cup WriteLabels]
  /\ pc["conn"] \in ConnLabels
  /\ pc["render"] \in RenderLabels
  /\ pc["write"] \in WriteLabels
  /\ lock \in {NoThread, "conn", "render"}
  /\ out_lock \in {NoThread, "render", "write"}
  /\ in_queue \in Queues(InCapacity, Chunks)
  /\ out_queue \in Queues(OutCapacity, Chunks)
  /\ peer_open \in BOOLEAN
  /\ posted \in 0 .. MaxIn
  /\ committed \in 0 .. MaxOut
  /\ data \in Chunks /\ reply \in Chunks /\ read_buffer \in Chunks
  /\ stops \in Nat
  /\ wanted \in 0 .. MaxRead /\ count \in 0 .. wanted
  /\ read_buffer_left \in 0 .. Len(read_buffer)
  /\ taken \in Seq(Nat) /\ sending \in Seq(Nat) /\ wire \in Seq(Nat)
  /\ unread \in 0 .. Window
  /\ spurious \in 0 .. MaxSpurious

InOrder(s) == \A k \in DOMAIN s : s[k] = k

\* The render thread reads the bytes the client sent, in order, none twice and
\* none left out, across the borders of buffers and of reads.
ReadInOrder == InOrder(taken)

\* The client is sent the bytes that were committed, likewise.
WireInOrder == InOrder(wire)

\* The render thread ends only when it has read all that was posted: closing the
\* queue cuts nothing off.
DrainedAtTheEnd == pc["render"] = "done" => Len(taken) = posted

\* A thread that waits, and has not been woken, still has to: the queue is empty
\* or full, and for in_queue_, open.
NobodyOversleeps ==
  /\ pc["conn"] = "post_wait" => IsFull(in_queue)
  /\ pc["render"] = "read_wait" => IsEmpty(in_queue) /\ ~in_queue.closed
  /\ pc["render"] = "commit_wait" => IsFull(out_queue)
  /\ pc["write"] = "pop_wait" => IsEmpty(out_queue)

In == INSTANCE Fifo WITH items <- Contents(in_queue), closed <- in_queue.closed,
                         Capacity <- InCapacity, Item <- Buffers
Out == INSTANCE Fifo WITH items <- Contents(out_queue), closed <- out_queue.closed,
                          Capacity <- OutCapacity, Item <- Buffers

\* Each circular buffer is a queue, whatever the three threads do to it.
QueuesAreFifos == In!Spec /\ Out!Spec

\* Every byte received is read in the end, even if the client closes meanwhile.
EverythingIsRead ==
  \A n \in 1 .. MaxIn : (posted >= n) ~> (Len(taken) >= n)

\* Every byte committed is sent, unless the client closes.
EverythingIsSent ==
  \A n \in 1 .. MaxOut : (committed >= n) ~> (Len(wire) >= n \/ ~peer_open)

\* No byte of either direction stays behind for ever, however the queues fill and empty.
NothingStaysBehind == EverythingIsRead /\ EverythingIsSent

\* When the client has closed, the render thread ends.
RenderThreadEnds == ~peer_open ~> pc["render"] = "done"

\* buffer_queue.cpp:83 says of the close: Wake any potential waiters.  So the
\* destructor that joins the writing thread after the close comes to its end.
DestructionEnds == (pc["conn"] = "join") ~> (pc["conn"] = "gone")
=============================================================================
