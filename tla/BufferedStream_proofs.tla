----------------------- MODULE BufferedStream_proofs -----------------------
(***************************************************************************)
(* The circular buffer is a queue, for every capacity and every Buffer.    *)
(* For any capacities, sizes and numbers of bytes: types, the two queues   *)
(* are FIFOs, no thread sleeps when it should not, and the bytes of each   *)
(* direction arrive complete and in order.                                 *)
(*                                                                         *)
(* On its way a byte is in the buffer that is being pushed, in one of the  *)
(* buffers of the queue, in the buffer that was popped last, or it has     *)
(* arrived.  InOrderInv and OutOrderInv say that these four, put together, *)
(* are the bytes from the first to the last: no step tears them apart.     *)
(***************************************************************************)
EXTENDS BufferedStream, SequenceTheorems, TLAPS

-----------------------------------------------------------------------------
(* BufferQueue *)

LEMMA NewQueueType ==
  ASSUME NEW c \in Nat \ {0}, NEW B, <<>> \in B
  PROVE  /\ NewQueue(c) \in Queues(c, B)
         /\ Contents(NewQueue(c)) = <<>>
BY DEF NewQueue, Queues, Contents

\* A place wraps around once: the arithmetic, apart from any queue.
LEMMA PlaceInRange ==
  ASSUME NEW c \in Nat \ {0}, NEW pos \in 0 .. c - 1, NEW k \in 0 .. c
  PROVE  (IF pos + k >= c THEN pos + k - c ELSE pos + k) \in 0 .. c - 1
OBVIOUS

\* Two buffers of the queue are in two places.
LEMMA PlacesDiffer ==
  ASSUME NEW c \in Nat \ {0}, NEW pos \in 0 .. c - 1, NEW n \in 0 .. c - 1,
         NEW k \in 0 .. n - 1
  PROVE  (IF pos + k >= c THEN pos + k - c ELSE pos + k)
           # (IF pos + n >= c THEN pos + n - c ELSE pos + n)
<1>1. CASE pos + k >= c
  BY <1>1
<1>2. CASE pos + k < c /\ pos + n >= c
  BY <1>2
<1>3. CASE pos + k < c /\ pos + n < c
  BY <1>3
<1> QED
  BY <1>1, <1>2, <1>3

LEMMA SlotInRange ==
  ASSUME NEW c \in Nat \ {0}, NEW B, NEW q \in Queues(c, B), NEW k \in 0 .. c
  PROVE  /\ Slot(q, k) \in 0 .. c - 1
         /\ Slot(q, k) = IF q.pos + k >= c THEN q.pos + k - c ELSE q.pos + k
<1>1. q.pos \in 0 .. c - 1 /\ q.capacity = c
  BY DEF Queues
<1>2. Slot(q, k) = IF q.pos + k >= c THEN q.pos + k - c ELSE q.pos + k
  BY <1>1 DEF Slot
<1>3. (IF q.pos + k >= c THEN q.pos + k - c ELSE q.pos + k) \in 0 .. c - 1
  BY <1>1, PlaceInRange
<1> QED
  BY <1>2, <1>3

LEMMA SlotsDiffer ==
  ASSUME NEW c \in Nat \ {0}, NEW B, NEW q \in Queues(c, B), ~IsFull(q),
         NEW k \in 0 .. q.count - 1
  PROVE  Slot(q, k) # Slot(q, q.count)
<1>1. q.pos \in 0 .. c - 1 /\ q.capacity = c /\ q.count \in 0 .. c - 1
  BY DEF Queues, IsFull
<1>2. k \in 0 .. c
  BY <1>1
<1>3. /\ Slot(q, k) = IF q.pos + k >= c THEN q.pos + k - c ELSE q.pos + k
      /\ Slot(q, q.count) = IF q.pos + q.count >= c THEN q.pos + q.count - c
                                                    ELSE q.pos + q.count
  BY <1>1 DEF Slot
<1>4. (IF q.pos + k >= c THEN q.pos + k - c ELSE q.pos + k)
        # (IF q.pos + q.count >= c THEN q.pos + q.count - c ELSE q.pos + q.count)
  BY <1>1, PlacesDiffer
<1> QED
  BY <1>3, <1>4

LEMMA ContentsType ==
  ASSUME NEW c \in Nat \ {0}, NEW B, NEW q \in Queues(c, B)
  PROVE  Contents(q) \in Seq(B) /\ Len(Contents(q)) = q.count
<1>1. q.count \in 0 .. c /\ q.buffers \in [0 .. c - 1 -> B]
  BY DEF Queues
<1>2. \A k \in 1 .. q.count : q.buffers[Slot(q, k - 1)] \in B
  <2> TAKE k \in 1 .. q.count
  <2>1. k - 1 \in 0 .. c
    BY <1>1
  <2>2. Slot(q, k - 1) \in 0 .. c - 1
    BY <2>1, SlotInRange
  <2> QED
    BY <1>1, <2>2
<1>3. Contents(q) \in [1 .. q.count -> B]
  BY <1>2 DEF Contents
<1>4. Contents(q) \in Seq(B)
  BY <1>1, <1>3, SeqDef
<1> QED
  BY <1>1, <1>3, <1>4, LenProperties

\* Pushing puts the buffer behind all the others and moves none of them.
THEOREM PushAppends ==
  ASSUME NEW c \in Nat \ {0}, NEW B, NEW q \in Queues(c, B), NEW b \in B, ~IsFull(q)
  PROVE  /\ Pushed(q, b) \in Queues(c, B)
         /\ Contents(Pushed(q, b)) = Append(Contents(q), b)
<1> DEFINE r == Pushed(q, b)
           s == Slot(q, q.count)
<1>1. /\ q.capacity = c /\ q.pos \in 0 .. c - 1 /\ q.count \in 0 .. c - 1
      /\ q.closed \in BOOLEAN /\ q.buffers \in [0 .. c - 1 -> B]
  BY DEF Queues, IsFull
<1>2. s \in 0 .. c - 1
  BY <1>1, SlotInRange
<1>3. /\ r.capacity = c /\ r.pos = q.pos /\ r.count = q.count + 1 /\ r.closed = q.closed
      /\ r.buffers = [q.buffers EXCEPT ![s] = b]
  BY <1>1 DEF Pushed, Queues
<1>4. r \in Queues(c, B)
  <2>1. [q.buffers EXCEPT ![s] = b] \in [0 .. c - 1 -> B]
    BY <1>1, <1>2
  <2>2. q.count + 1 \in 0 .. c
    BY <1>1
  <2>3. r = [q EXCEPT !.buffers = [q.buffers EXCEPT ![s] = b], !.count = q.count + 1]
    BY DEF Pushed
  <2> QED
    BY <2>1, <2>2, <2>3 DEF Queues
<1>5. \A k \in 0 .. c : Slot(r, k) = Slot(q, k)
  BY <1>1, <1>3 DEF Slot
<1>6. \A k \in 0 .. q.count - 1 : Slot(q, k) \in 0 .. c - 1 /\ Slot(q, k) # s
  <2> TAKE k \in 0 .. q.count - 1
  <2>1. k \in 0 .. c
    BY <1>1
  <2> QED
    BY <2>1, SlotInRange, SlotsDiffer
<1>7. \A k \in 1 .. q.count : r.buffers[Slot(r, k - 1)] = q.buffers[Slot(q, k - 1)]
  <2> TAKE k \in 1 .. q.count
  <2>1. k - 1 \in 0 .. q.count - 1 /\ k - 1 \in 0 .. c
    BY <1>1
  <2> QED
    BY <1>1, <1>3, <1>5, <1>6, <2>1
<1>8. r.buffers[Slot(r, r.count - 1)] = b
  BY <1>1, <1>2, <1>3, <1>5
<1>9. /\ Contents(q) \in Seq(B) /\ Len(Contents(q)) = q.count
      /\ Contents(r) \in Seq(B) /\ Len(Contents(r)) = q.count + 1
  BY <1>3, <1>4, ContentsType
<1>10. \A k \in 1 .. q.count + 1 : Contents(r)[k] = Append(Contents(q), b)[k]
  BY <1>1, <1>3, <1>7, <1>8, <1>9 DEF Contents
<1>11. /\ Append(Contents(q), b) \in Seq(B)
       /\ Len(Append(Contents(q), b)) = q.count + 1
  BY <1>9, AppendProperties
<1>12. Contents(r) = Append(Contents(q), b)
  BY <1>9, <1>10, <1>11, SeqEqual
<1> QED
  BY <1>4, <1>12

\* Popping takes the oldest buffer and moves none of the others.
THEOREM PopTakesFirst ==
  ASSUME NEW c \in Nat \ {0}, NEW B, NEW q \in Queues(c, B), ~IsEmpty(q)
  PROVE  /\ Popped(q) \in Queues(c, B)
         /\ Front(q) = Head(Contents(q))
         /\ Contents(Popped(q)) = Tail(Contents(q))
<1> DEFINE r == Popped(q)
<1>1. /\ q.capacity = c /\ q.pos \in 0 .. c - 1 /\ q.count \in 1 .. c
      /\ q.closed \in BOOLEAN /\ q.buffers \in [0 .. c - 1 -> B]
  BY DEF Queues, IsEmpty
<1>2. Slot(q, 1) \in 0 .. c - 1 /\ Slot(q, 0) = q.pos
  <2>1. /\ Slot(q, 1) = IF q.pos + 1 >= c THEN q.pos + 1 - c ELSE q.pos + 1
        /\ Slot(q, 0) = IF q.pos + 0 >= c THEN q.pos + 0 - c ELSE q.pos + 0
    BY <1>1 DEF Slot
  <2> QED
    BY <1>1, <2>1
<1>3. /\ r.capacity = c /\ r.pos = Slot(q, 1) /\ r.count = q.count - 1
      /\ r.closed = q.closed /\ r.buffers = q.buffers
  BY <1>1 DEF Popped, Queues
<1>4. r \in Queues(c, B)
  <2>1. q.count - 1 \in 0 .. c
    BY <1>1
  <2> QED
    BY <1>2, <2>1 DEF Popped, Queues
<1>5. \A k \in 0 .. c - 1 : Slot(r, k) = Slot(q, k + 1)
  <2> TAKE k \in 0 .. c - 1
  <2>1. /\ Slot(r, k) = IF r.pos + k >= c THEN r.pos + k - c ELSE r.pos + k
        /\ Slot(q, k + 1) = IF q.pos + (k + 1) >= c THEN q.pos + (k + 1) - c
                                                    ELSE q.pos + (k + 1)
    BY <1>1, <1>3 DEF Slot
  <2>2. r.pos = IF q.pos + 1 >= c THEN q.pos + 1 - c ELSE q.pos + 1
    BY <1>1, <1>3 DEF Slot
  <2>3. CASE q.pos + 1 >= c
    <3>1. r.pos = 0 /\ q.pos = c - 1
      BY <1>1, <2>2, <2>3
    <3> QED
      BY <2>1, <3>1
  <2>4. CASE q.pos + 1 < c
    <3>1. r.pos = q.pos + 1
      BY <1>1, <2>2, <2>4
    <3>2. r.pos + k = q.pos + (k + 1) /\ r.pos + k \in Int
      BY <1>1, <3>1
    <3>3. CASE r.pos + k >= c
      <4>1. Slot(r, k) = r.pos + k - c /\ Slot(q, k + 1) = q.pos + (k + 1) - c
        BY <2>1, <3>2, <3>3
      <4> QED
        BY <1>1, <3>1, <4>1
    <3>4. CASE ~(r.pos + k >= c)
      <4>1. Slot(r, k) = r.pos + k /\ Slot(q, k + 1) = q.pos + (k + 1)
        BY <2>1, <3>2, <3>4
      <4> QED
        BY <1>1, <3>1, <4>1
    <3> QED
      BY <3>3, <3>4
  <2> QED
    BY <1>1, <2>3, <2>4
<1>6. /\ Contents(q) \in Seq(B) /\ Len(Contents(q)) = q.count
      /\ Contents(r) \in Seq(B) /\ Len(Contents(r)) = q.count - 1
  BY <1>3, <1>4, ContentsType
<1>7. \A k \in 1 .. q.count - 1 : Contents(r)[k] = Contents(q)[k + 1]
  BY <1>1, <1>3, <1>5 DEF Contents
<1>8. Front(q) = Contents(q)[1]
  BY <1>1, <1>2 DEF Front, Contents
<1>9. /\ Contents(q) # <<>> /\ Head(Contents(q)) = Contents(q)[1]
      /\ Tail(Contents(q)) \in Seq(B) /\ Len(Tail(Contents(q))) = q.count - 1
      /\ \A k \in 1 .. q.count - 1 : Tail(Contents(q))[k] = Contents(q)[k + 1]
  <2>1. Contents(q) # <<>>
    BY <1>1, <1>6, EmptySeq
  <2> QED
    BY <1>1, <1>6, <2>1, HeadTailProperties
<1>10. Contents(r) = Tail(Contents(q))
  BY <1>1, <1>6, <1>7, <1>9, SeqEqual
<1> QED
  BY <1>4, <1>8, <1>9, <1>10

LEMMA CloseKeepsContents ==
  ASSUME NEW c \in Nat \ {0}, NEW B, NEW q \in Queues(c, B)
  PROVE  /\ Closed(q) \in Queues(c, B)
         /\ Contents(Closed(q)) = Contents(q)
         /\ Closed(q).closed = TRUE /\ Closed(q).count = q.count
         /\ Closed(q).capacity = q.capacity
BY DEF Closed, Queues, Contents, Slot

USE DEF NoThread

-----------------------------------------------------------------------------
(* Labels *)

PcTypes ==
  /\ pc \in [Threads -> ConnLabels \cup RenderLabels \cup WriteLabels]
  /\ pc["conn"] \in ConnLabels
  /\ pc["render"] \in RenderLabels
  /\ pc["write"] \in WriteLabels

LEMMA PcStep == PcTypes /\ [Next]_vars => PcTypes'
<1> SUFFICES ASSUME PcTypes, [Next]_vars
             PROVE  PcTypes'
  OBVIOUS
<1> USE DEF PcTypes, Threads, ConnLabels, RenderLabels, WriteLabels, Goto, GotoAndWake
<1>1. CASE Peer
  BY <1>1 DEF Peer, PeerReads, PeerCloses
<1>2. CASE Spurious
  BY <1>2 DEF Spurious
<1>3. CASE Receive \/ Conn
  BY <1>3 DEF Receive, Conn, PostData, ReadFails, StopIn, StopOut, StopWakesPusher,
              StopWakesPopper, WaitForRender, Join
<1>4. CASE Render
  BY <1>4 DEF Render, ReadBegins, ReadCopies, ReadPops, ReadWaits, ReadWoken,
              ReadReturns, ReadEnds, DecodeEnds, DecodeReplies, CommitPushes,
              CommitBlocks, CommitWaits
<1>5. CASE Write
  BY <1>5 DEF Write, WritePops, WriteBlocks, WriteWaits, WriteEnds, Send, SendFails,
              SendEnds
<1>6. CASE UNCHANGED vars
  BY <1>6 DEF vars
<1> QED
  BY <1>1, <1>2, <1>3, <1>4, <1>5, <1>6 DEF Next

-----------------------------------------------------------------------------
(* Which actions touch which variables *)

inVars == <<in_queue, posted, data, read_buffer, read_buffer_left, taken>>
outVars == <<out_queue, committed, reply, sending, wire>>

InStep == Receive \/ PostData \/ StopIn \/ ReadCopies \/ ReadPops
OutStep ==
  DecodeReplies \/ CommitPushes \/ StopOut \/ WritePops \/ Send \/ SendFails

LEMMA OnlyInStep == [Next]_vars => InStep \/ UNCHANGED inVars
<1> SUFFICES ASSUME [Next]_vars
             PROVE  InStep \/ UNCHANGED inVars
  OBVIOUS
<1> USE DEF InStep, inVars, vars, readVars
<1>1. CASE Peer
  BY <1>1 DEF Peer, PeerReads, PeerCloses
<1>2. CASE Spurious
  BY <1>2 DEF Spurious
<1>3. CASE Receive \/ Conn
  BY <1>3 DEF Conn, ReadFails, StopOut, StopWakesPusher, StopWakesPopper,
              WaitForRender, Join
<1>4. CASE Render
  BY <1>4 DEF Render, ReadBegins, ReadWaits, ReadWoken, ReadReturns, ReadEnds,
              DecodeEnds, DecodeReplies, CommitPushes, CommitBlocks, CommitWaits
<1>5. CASE Write
  BY <1>5 DEF Write, WritePops, WriteBlocks, WriteWaits, WriteEnds, Send, SendFails,
              SendEnds
<1> QED
  BY <1>1, <1>2, <1>3, <1>4, <1>5 DEF Next

LEMMA OnlyOutStep == [Next]_vars => OutStep \/ UNCHANGED outVars
<1> SUFFICES ASSUME [Next]_vars
             PROVE  OutStep \/ UNCHANGED outVars
  OBVIOUS
<1> USE DEF OutStep, outVars, vars, sendVars
<1>1. CASE Peer
  BY <1>1 DEF Peer, PeerReads, PeerCloses
<1>2. CASE Spurious
  BY <1>2 DEF Spurious
<1>3. CASE Receive \/ Conn
  BY <1>3 DEF Receive, Conn, PostData, ReadFails, StopIn, StopWakesPusher,
              StopWakesPopper, WaitForRender, Join
<1>4. CASE Render
  BY <1>4 DEF Render, ReadBegins, ReadCopies, ReadPops, ReadWaits, ReadWoken,
              ReadReturns, ReadEnds, DecodeEnds, CommitBlocks, CommitWaits
<1>5. CASE Write
  BY <1>5 DEF Write, WriteBlocks, WriteWaits, WriteEnds, SendEnds
<1> QED
  BY <1>1, <1>2, <1>3, <1>4, <1>5 DEF Next

Posting == pc["conn"] \in {"post", "post_wait"}
Receiving == pc["conn"] \in {"idle", "post", "post_wait"}
Committing == pc["render"] \in {"commit", "commit_blocks", "commit_wait"}

\* Only these steps begin or end a post_data, or a commitBuffer.
LEMMA PhaseSteps ==
  ASSUME PcTypes, [Next]_vars
  PROVE  /\ Receive \/ PostData \/ (Posting' <=> Posting)
         /\ ~Receiving => ~Receiving'
         /\ DecodeReplies \/ CommitPushes \/ (Committing' <=> Committing)
         /\ pc["render"] = "done" => pc'["render"] = "done"
<1> USE DEF PcTypes, Threads, ConnLabels, RenderLabels, WriteLabels, Goto, GotoAndWake,
            Posting, Receiving, Committing
<1>1. CASE Peer
  BY <1>1 DEF Peer, PeerReads, PeerCloses
<1>2. CASE Spurious
  BY <1>2 DEF Spurious
<1>3. CASE Receive
  BY <1>3 DEF Receive
<1>4. CASE Conn
  BY <1>4 DEF Conn, PostData, ReadFails, StopIn, StopOut, StopWakesPusher,
              StopWakesPopper, WaitForRender, Join
<1>5. CASE Render
  BY <1>5 DEF Render, ReadBegins, ReadCopies, ReadPops, ReadWaits, ReadWoken,
              ReadReturns, ReadEnds, DecodeEnds, DecodeReplies, CommitPushes,
              CommitBlocks, CommitWaits
<1>6. CASE Write
  BY <1>6 DEF Write, WritePops, WriteBlocks, WriteWaits, WriteEnds, Send, SendFails,
              SendEnds
<1>7. CASE UNCHANGED vars
  BY <1>7 DEF vars
<1> QED
  BY <1>1, <1>2, <1>3, <1>4, <1>5, <1>6, <1>7 DEF Next

-----------------------------------------------------------------------------
(* Types *)

LEMMA BytesType ==
  ASSUME NEW first \in Nat, NEW n \in Nat
  PROVE  /\ Bytes(first, n) \in Seq(Nat) /\ Len(Bytes(first, n)) = n
         /\ DOMAIN Bytes(first, n) = 1 .. n
         /\ \A k \in 1 .. n : Bytes(first, n)[k] = first + k
<1>1. Bytes(first, n) \in [1 .. n -> Nat]
  BY DEF Bytes
<1>2. Bytes(first, n) \in Seq(Nat)
  BY <1>1, SeqDef
<1> QED
  BY <1>1, <1>2, LenProperties DEF Bytes

LEMMA ChunkType == Buffers \subseteq Chunks /\ Chunks \subseteq Seq(Nat) /\ <<>> \in Chunks
<1>1. \A b \in Buffers : b \in Seq(Nat)
  BY BytesType, StreamAssumption DEF Buffers
<1> QED
  BY <1>1, EmptySeq DEF Chunks

LEMMA BufferOf ==
  ASSUME NEW first \in 0 .. MaxIn + MaxOut, NEW n \in 1 .. MaxBuffer
  PROVE  Bytes(first, n) \in Buffers
BY DEF Buffers

\* What is being posted is a buffer, and nothing is posted to a closed queue.
InTypes ==
  /\ in_queue \in Queues(InCapacity, Chunks)
  /\ posted \in 0 .. MaxIn
  /\ data \in Chunks /\ read_buffer \in Chunks
  /\ read_buffer_left \in 0 .. Len(read_buffer)
  /\ taken \in Seq(Nat)
  /\ IF Posting THEN data \in Buffers ELSE data = <<>>
  /\ in_queue.closed => ~Receiving

OutTypes ==
  /\ out_queue \in Queues(OutCapacity, Chunks)
  /\ committed \in 0 .. MaxOut
  /\ reply \in Chunks
  /\ sending \in Seq(Nat) /\ wire \in Seq(Nat)
  /\ IF Committing THEN reply \in Buffers ELSE reply = <<>>

\* TryPush, when there is room.
LEMMA PushStep ==
  ASSUME NEW c \in Nat \ {0}, NEW B, NEW q \in Queues(c, B), NEW b \in B, ~IsFull(q)
  PROVE  /\ TryPush(q, b) \in Queues(c, B)
         /\ TryPush(q, b).closed = q.closed
         /\ q.closed => TryPush(q, b) = q
         /\ ~q.closed => /\ Contents(TryPush(q, b)) = Append(Contents(q), b)
                         /\ TryPush(q, b).count = q.count + 1
<1>1. Pushed(q, b).closed = q.closed /\ Pushed(q, b).count = q.count + 1
  BY DEF Pushed, Queues
<1> QED
  BY <1>1, PushAppends DEF TryPush

\* A queue from which the first buffer is taken.
LEMMA PopStep ==
  ASSUME NEW c \in Nat \ {0}, NEW B, NEW q \in Queues(c, B), ~IsEmpty(q)
  PROVE  /\ Popped(q) \in Queues(c, B)
         /\ Popped(q).closed = q.closed /\ Popped(q).count = q.count - 1
         /\ Front(q) \in B
         /\ Contents(q) # <<>>
         /\ Contents(Popped(q)) = Tail(Contents(q))
<1>1. q.pos \in 0 .. c - 1 /\ q.buffers \in [0 .. c - 1 -> B]
  BY DEF Queues
<1>2. Popped(q).closed = q.closed /\ Popped(q).count = q.count - 1
  BY DEF Popped, Queues
<1>3. Contents(q) # <<>>
  <2>1. q.count \in 1 .. c
    BY DEF Queues, IsEmpty
  <2> QED
    BY <2>1, ContentsType, EmptySeq
<1> QED
  BY <1>1, <1>2, <1>3, PopTakesFirst DEF Front

ReadTypes == wanted \in 0 .. MaxRead /\ count \in 0 .. wanted

LEMMA ReadTypesStep ==
  ASSUME InTypes, ReadTypes, [Next]_vars
  PROVE  ReadTypes'
<1> USE StreamAssumption DEF ReadTypes
<1>1. CASE ReadCopies
  <2>1. read_buffer_left \in Nat
    BY DEF InTypes, Chunks
  <2>2. PICK avail \in {wanted - count, read_buffer_left} :
             /\ avail <= wanted - count
             /\ count' = count + avail
    BY <1>1 DEF ReadCopies
  <2> QED
    BY <1>1, <2>1, <2>2 DEF ReadCopies
<1>2. CASE ReadBegins \/ ReadReturns
  BY <1>2 DEF ReadBegins, ReadReturns
<1>3. CASE Peer
  BY <1>3 DEF Peer, PeerReads, PeerCloses, readVars
<1>4. CASE Spurious \/ Receive \/ Conn
  BY <1>4 DEF Spurious, Receive, Conn, PostData, ReadFails, StopIn, StopOut,
              StopWakesPusher, StopWakesPopper, WaitForRender, Join, readVars
<1>5. CASE ReadPops \/ ReadWaits \/ ReadWoken \/ ReadEnds
  BY <1>5 DEF ReadPops, ReadWaits, ReadWoken, ReadEnds, readVars
<1>6. CASE DecodeEnds \/ DecodeReplies \/ CommitPushes \/ CommitBlocks \/ CommitWaits
  BY <1>6 DEF DecodeEnds, DecodeReplies, CommitPushes, CommitBlocks, CommitWaits, readVars
<1>7. CASE Write
  BY <1>7 DEF Write, WritePops, WriteBlocks, WriteWaits, WriteEnds, Send, SendFails,
              SendEnds, readVars
<1>8. CASE UNCHANGED vars
  BY <1>8 DEF vars, readVars
<1> QED
  BY <1>1, <1>2, <1>3, <1>4, <1>5, <1>6, <1>7, <1>8 DEF Next, Render

\* Bytes that are still unread are those a read can copy.
LEMMA UnreadType ==
  ASSUME InTypes, NEW n \in 1 .. read_buffer_left
  PROVE  /\ Unread(n) \in Seq(Nat) /\ Len(Unread(n)) = n
         /\ \A k \in 1 .. n :
              Unread(n)[k] = read_buffer[Len(read_buffer) - read_buffer_left + k]
<1> DEFINE read == Len(read_buffer) - read_buffer_left
<1>1. read_buffer \in Seq(Nat) /\ Len(read_buffer) \in Nat
  BY ChunkType, LenProperties DEF InTypes
<1>2. read \in Nat /\ read + n <= Len(read_buffer)
  BY <1>1 DEF InTypes
<1>3. \A k \in read + 1 .. read + n : read_buffer[k] \in Nat
  BY <1>1, <1>2, ElementOfSeq
<1>4. Unread(n) = SubSeq(read_buffer, read + 1, read + n)
  BY DEF Unread
<1> HIDE DEF read
<1>5. /\ SubSeq(read_buffer, read + 1, read + n) \in Seq(Nat)
      /\ Len(SubSeq(read_buffer, read + 1, read + n)) = n
      /\ \A k \in 1 .. n :
           SubSeq(read_buffer, read + 1, read + n)[k] = read_buffer[read + k]
  BY <1>2, <1>3, SubSeqProperties
<1> QED
  BY <1>4, <1>5 DEF read

\* How ReadCopies goes, with the arithmetic done.
LEMMA ReadCopiesStep ==
  ASSUME InTypes, ReadTypes, ReadCopies
  PROVE  \E n \in 1 .. read_buffer_left :
           /\ taken' = taken \o Unread(n)
           /\ read_buffer_left' = read_buffer_left - n
<1>1. wanted \in Int /\ count \in Int /\ read_buffer_left \in Nat
  BY StreamAssumption DEF ReadTypes, InTypes
<1>2. PICK avail \in {wanted - count, read_buffer_left} :
           /\ avail <= wanted - count /\ avail <= read_buffer_left
           /\ taken' = taken \o Unread(avail)
           /\ read_buffer_left' = read_buffer_left - avail
  BY DEF ReadCopies
<1>3. avail \in 1 .. read_buffer_left
  BY <1>1, <1>2 DEF ReadCopies
<1> QED
  BY <1>2, <1>3

LEMMA InTypesStep ==
  ASSUME PcTypes, InTypes, ReadTypes, [Next]_vars
  PROVE  InTypes'
<1> USE StreamAssumption
<1>1. CASE Receive
  <2>1. pc["conn"] = "idle" /\ pc'["conn"] = "post"
    BY <1>1 DEF Receive, Goto, PcTypes, Threads
  <2>2. PICK n \in 1 .. MaxBuffer : /\ posted + n <= MaxIn
                                    /\ data' = Bytes(posted, n)
                                    /\ posted' = posted + n
    BY <1>1 DEF Receive
  <2>3. posted \in 0 .. MaxIn + MaxOut /\ posted \in Nat
    BY DEF InTypes
  <2>4. posted' \in 0 .. MaxIn /\ data' \in Buffers
    BY <2>2, <2>3, BufferOf
  <2> QED
    BY <1>1, <2>1, <2>4, ChunkType DEF Receive, InTypes, Posting, Receiving, readVars
<1>2. CASE PostData
  <2>1. CASE IsFull(in_queue) /\ Goto("conn", "post", "post_wait") /\ UNCHANGED <<in_queue, data>>
    <3>1. pc["conn"] = "post" /\ pc'["conn"] = "post_wait"
      BY <2>1 DEF Goto, PcTypes, Threads
    <3> QED
      BY <1>2, <2>1, <3>1 DEF PostData, InTypes, Posting, Receiving, readVars
  <2>2. CASE /\ ~IsFull(in_queue)
             /\ in_queue' = TryPush(in_queue, data)
             /\ GotoAndWake("conn", "post", "idle", WakesPopper(in_queue, in_queue'),
                            "render", "read_wait", "read_woken")
             /\ data' = <<>>
    <3>1. pc["conn"] = "post" /\ pc'["conn"] = "idle"
      BY <2>2 DEF GotoAndWake, PcTypes, Threads
    <3>2. in_queue' \in Queues(InCapacity, Chunks) /\ in_queue'.closed = in_queue.closed
      BY <2>2, PushStep DEF InTypes
    <3> QED
      BY <1>2, <2>2, <3>1, <3>2, ChunkType DEF PostData, InTypes, Posting, Receiving, readVars
  <2> QED
    BY <1>2, <2>1, <2>2 DEF PostData
<1>3. CASE StopIn
  <2>1. pc["conn"] = "stop" /\ pc'["conn"] = "stop_out"
    BY <1>3 DEF StopIn, GotoAndWake, PcTypes, Threads
  <2>2. in_queue' \in Queues(InCapacity, Chunks)
    BY <1>3, CloseKeepsContents DEF StopIn, InTypes
  <2> QED
    BY <1>3, <2>1, <2>2 DEF StopIn, InTypes, Posting, Receiving, readVars
<1>4. CASE ReadCopies
  <2>1. PICK n \in 1 .. read_buffer_left :
             /\ taken' = taken \o Unread(n)
             /\ read_buffer_left' = read_buffer_left - n
    BY <1>4, ReadCopiesStep
  <2>2. taken' \in Seq(Nat)
    BY <2>1, UnreadType, ConcatProperties DEF InTypes
  <2>3. read_buffer_left' \in 0 .. Len(read_buffer)
    <3>1. Len(read_buffer) \in Nat
      BY ChunkType, LenProperties DEF InTypes
    <3> QED
      BY <2>1, <3>1 DEF InTypes
  <2> QED
    BY <1>4, <2>2, <2>3 DEF ReadCopies, InTypes, Posting, Receiving
<1>5. CASE ReadPops
  <2>1. Posting' <=> Posting
    BY <1>5 DEF ReadPops, GotoAndWake, PcTypes, Threads, Posting
  <2>2. ~Receiving => ~Receiving'
    BY <1>5 DEF ReadPops, GotoAndWake, PcTypes, Threads, Receiving
  <2>3. /\ in_queue' \in Queues(InCapacity, Chunks) /\ in_queue'.closed = in_queue.closed
        /\ read_buffer' \in Chunks
    BY <1>5, PopStep DEF ReadPops, InTypes
  <2>4. read_buffer_left' = Len(read_buffer') /\ Len(read_buffer') \in Nat
    BY <1>5, <2>3, ChunkType, LenProperties DEF ReadPops
  <2> QED
    BY <1>5, <2>1, <2>2, <2>3, <2>4 DEF ReadPops, InTypes
<1>6. CASE UNCHANGED inVars /\ ~Receive /\ ~PostData
  BY <1>6, PhaseSteps DEF inVars, InTypes
<1> QED
  BY <1>1, <1>2, <1>3, <1>4, <1>5, <1>6, OnlyInStep DEF InStep

\* What a Send writes, and what it leaves.
LEMMA SendStep ==
  ASSUME OutTypes, Send
  PROVE  \E n \in 1 .. Len(sending) :
           /\ wire' = wire \o SubSeq(sending, 1, n)
           /\ sending' = SubSeq(sending, n + 1, Len(sending))
           /\ SubSeq(sending, 1, n) \in Seq(Nat) /\ Len(SubSeq(sending, 1, n)) = n
           /\ \A k \in 1 .. n : SubSeq(sending, 1, n)[k] = sending[k]
           /\ sending' \in Seq(Nat) /\ Len(sending') = Len(sending) - n
           /\ \A k \in 1 .. Len(sending) - n : sending'[k] = sending[n + k]
<1>1. PICK n \in 1 .. Len(sending) : /\ wire' = wire \o SubSeq(sending, 1, n)
                                     /\ sending' = SubSeq(sending, n + 1, Len(sending))
  BY DEF Send, Rest
<1>2. sending \in Seq(Nat) /\ Len(sending) \in Nat
  BY LenProperties DEF OutTypes
<1>3. \A k \in 1 .. Len(sending) : sending[k] \in Nat
  BY <1>2, ElementOfSeq
<1>4. /\ SubSeq(sending, 1, n) \in Seq(Nat) /\ Len(SubSeq(sending, 1, n)) = n
      /\ \A k \in 1 .. n : SubSeq(sending, 1, n)[k] = sending[k]
  <2>1. \A k \in 1 .. n : sending[k] \in Nat
    BY <1>2, <1>3
  <2> QED
    BY <1>2, <2>1, SubSeqProperties
<1>5. /\ SubSeq(sending, n + 1, Len(sending)) \in Seq(Nat)
      /\ Len(SubSeq(sending, n + 1, Len(sending))) = Len(sending) - n
      /\ \A k \in 1 .. Len(sending) - n :
           SubSeq(sending, n + 1, Len(sending))[k] = sending[n + k]
  <2>1. \A k \in n + 1 .. Len(sending) : sending[k] \in Nat
    BY <1>2, <1>3
  <2> QED
    BY <1>2, <2>1, SubSeqProperties
<1> QED
  BY <1>1, <1>4, <1>5

LEMMA OutTypesStep ==
  ASSUME PcTypes, OutTypes, [Next]_vars
  PROVE  OutTypes'
<1> USE StreamAssumption
<1>1. CASE DecodeReplies
  <2>1. pc["render"] = "decode" /\ pc'["render"] = "commit"
    BY <1>1 DEF DecodeReplies, Goto, PcTypes, Threads
  <2>2. PICK n \in 1 .. MaxBuffer : /\ committed + n <= MaxOut
                                    /\ reply' = Bytes(committed, n)
                                    /\ committed' = committed + n
    BY <1>1 DEF DecodeReplies
  <2>3. committed \in 0 .. MaxIn + MaxOut /\ committed \in Nat
    BY DEF OutTypes
  <2>4. committed' \in 0 .. MaxOut /\ reply' \in Buffers
    BY <2>2, <2>3, BufferOf
  <2> QED
    BY <1>1, <2>1, <2>4, ChunkType DEF DecodeReplies, OutTypes, Committing, sendVars
<1>2. CASE CommitPushes
  <2>1. pc["render"] = "commit" /\ pc'["render"] = "decode"
    BY <1>2 DEF CommitPushes, GotoAndWake, PcTypes, Threads
  <2>2. out_queue' \in Queues(OutCapacity, Chunks)
    <3>1. CASE IsFull(out_queue)
      BY <1>2, <3>1 DEF CommitPushes, TryPush, OutTypes
    <3>2. CASE ~IsFull(out_queue)
      BY <1>2, <3>2, PushStep DEF CommitPushes, OutTypes
    <3> QED
      BY <3>1, <3>2
  <2> QED
    BY <1>2, <2>1, <2>2, ChunkType DEF CommitPushes, OutTypes, Committing, sendVars
<1>3. CASE StopOut
  <2>1. Committing' <=> Committing
    BY <1>3, PhaseSteps DEF StopOut, Goto, DecodeReplies, CommitPushes, GotoAndWake,
                            PcTypes, Threads, Committing
  <2>2. out_queue' \in Queues(OutCapacity, Chunks)
    BY <1>3, CloseKeepsContents DEF StopOut, OutTypes
  <2> QED
    BY <1>3, <2>1, <2>2 DEF StopOut, OutTypes, sendVars
<1>4. CASE WritePops
  <2>1. Committing' <=> Committing
    BY <1>4 DEF WritePops, GotoAndWake, PcTypes, Threads, Committing
  <2>2. out_queue \in Queues(OutCapacity, Chunks) /\ ~IsEmpty(out_queue)
    BY <1>4 DEF WritePops, OutTypes
  <2>3. /\ Popped(out_queue) \in Queues(OutCapacity, Chunks)
        /\ Front(out_queue) \in Chunks
    BY <2>2, PopStep
  <2>4. out_queue' \in Queues(OutCapacity, Chunks) /\ sending' \in Chunks
    BY <1>4, <2>3 DEF WritePops
  <2> QED
    BY <1>4, <2>1, <2>4, ChunkType DEF WritePops, OutTypes
<1>5. CASE Send
  <2>1. wire' \in Seq(Nat) /\ sending' \in Seq(Nat)
    <3>1. PICK n \in 1 .. Len(sending) : /\ wire' = wire \o SubSeq(sending, 1, n)
                                         /\ SubSeq(sending, 1, n) \in Seq(Nat)
                                         /\ sending' \in Seq(Nat)
      BY <1>5, SendStep
    <3>2. wire \in Seq(Nat)
      BY DEF OutTypes
    <3>3. wire \o SubSeq(sending, 1, n) \in Seq(Nat)
      BY <3>1, <3>2, ConcatProperties
    <3> QED
      BY <3>1, <3>3
  <2> QED
    BY <1>5, <2>1 DEF Send, OutTypes, Committing
<1>6. CASE SendFails
  BY <1>6, EmptySeq DEF SendFails, OutTypes, Committing
<1>7. CASE UNCHANGED outVars /\ ~DecodeReplies /\ ~CommitPushes
  BY <1>7, PhaseSteps DEF outVars, OutTypes
<1> QED
  BY <1>1, <1>2, <1>3, <1>4, <1>5, <1>6, <1>7, OnlyOutStep DEF OutStep

PeerTypes ==
  /\ lock \in {NoThread, "conn", "render"}
  /\ out_lock \in {NoThread, "render", "write"}
  /\ peer_open \in BOOLEAN
  /\ stops \in Nat
  /\ unread \in 0 .. Window
  /\ spurious \in 0 .. MaxSpurious

LEMMA PeerTypesStep ==
  ASSUME OutTypes, PeerTypes, [Next]_vars
  PROVE  PeerTypes'
<1> USE StreamAssumption DEF PeerTypes
<1> Window \in Nat /\ MaxSpurious \in Nat
  OBVIOUS
<1>1. CASE Peer
  <2>1. CASE PeerReads
    BY <2>1 DEF PeerReads
  <2>2. CASE PeerCloses
    BY <2>2 DEF PeerCloses, sendVars
  <2> QED
    BY <1>1, <2>1, <2>2 DEF Peer
<1>2. CASE Spurious
  BY <1>2 DEF Spurious, sendVars
<1>3. CASE Receive \/ Conn
  BY <1>3 DEF Receive, Conn, PostData, ReadFails, StopIn, StopOut, StopWakesPusher,
              StopWakesPopper, WaitForRender, Join, sendVars
<1>4. CASE Render
  <2>1. CASE ReadBegins \/ ReadCopies \/ ReadPops \/ ReadWaits
    BY <2>1 DEF ReadBegins, ReadCopies, ReadPops, ReadWaits, sendVars
  <2>2. CASE ReadWoken \/ ReadReturns \/ ReadEnds \/ DecodeEnds
    BY <2>2 DEF ReadWoken, ReadReturns, ReadEnds, DecodeEnds, sendVars
  <2>3. CASE DecodeReplies \/ CommitPushes \/ CommitBlocks \/ CommitWaits
    BY <2>3 DEF DecodeReplies, CommitPushes, CommitBlocks, CommitWaits, sendVars
  <2> QED
    BY <1>4, <2>1, <2>2, <2>3 DEF Render
<1>5. CASE Send
  <2>1. sending \in Seq(Nat)
    BY DEF OutTypes
  <2>2. Len(sending) \in Nat
    BY <2>1, LenProperties
  <2>3. PICK n \in 1 .. Len(sending) : unread + n <= Window /\ unread' = unread + n
    BY <1>5 DEF Send
  <2>4. unread' \in 0 .. Window
    BY <2>2, <2>3
  <2> QED
    BY <1>5, <2>4 DEF Send
<1>6. CASE Write /\ ~Send
  BY <1>6 DEF Write, WritePops, WriteBlocks, WriteWaits, WriteEnds, SendFails,
              SendEnds, sendVars
<1>7. CASE UNCHANGED vars
  BY <1>7 DEF vars, sendVars
<1> QED
  BY <1>1, <1>2, <1>3, <1>4, <1>5, <1>6, <1>7 DEF Next

-----------------------------------------------------------------------------
Types == PcTypes /\ InTypes /\ ReadTypes /\ OutTypes /\ PeerTypes

LEMMA InitTypes == Init => Types
<1> SUFFICES ASSUME Init
             PROVE  Types
  OBVIOUS
<1> USE StreamAssumption DEF Init
<1>1. PcTypes
  BY DEF PcTypes, Threads, ConnLabels, RenderLabels, WriteLabels
<1>2. InTypes
  <2>1. in_queue \in Queues(InCapacity, Chunks)
    BY ChunkType, NewQueueType
  <2>2. ~in_queue.closed
    BY DEF NewQueue
  <2>3. Len(read_buffer) = 0 /\ taken \in Seq(Nat)
    OBVIOUS
  <2>4. MaxIn \in Nat
    OBVIOUS
  <2> QED
    BY <2>1, <2>2, <2>3, <2>4, ChunkType DEF InTypes, Posting
<1>3. ReadTypes /\ PeerTypes
  BY DEF ReadTypes, PeerTypes
<1>4. OutTypes
  BY ChunkType, NewQueueType, EmptySeq DEF OutTypes, Committing
<1> QED
  BY <1>1, <1>2, <1>3, <1>4 DEF Types

LEMMA TypesStep == Types /\ [Next]_vars => Types'
BY PcStep, InTypesStep, ReadTypesStep, OutTypesStep, PeerTypesStep DEF Types

LEMMA AlwaysTypes == Spec => []Types
BY InitTypes, TypesStep, PTL DEF Spec

\* Every variable keeps its type: the queues are well formed, with at most as many
\* buffers as they hold, and no read goes beyond the buffer it reads.
THEOREM TypeCorrect == Spec => []TypeOK
<1>1. Types => TypeOK
  BY DEF Types, TypeOK, PcTypes, InTypes, ReadTypes, OutTypes, PeerTypes
<1> QED
  BY <1>1, AlwaysTypes, PTL

-----------------------------------------------------------------------------
(* Who waits, and who holds out_lock_ *)

SleepsIn ==
  /\ pc["conn"] = "post_wait" => IsFull(in_queue)
  /\ pc["render"] = "read_wait" => IsEmpty(in_queue) /\ ~in_queue.closed

\* Between the look at the queue and the wait out_lock_ is held, so nothing is
\* pushed or popped there; forceStop closes the queue without it.
SleepsOut ==
  /\ pc["render"] = "commit_blocks" => out_lock = "render" /\ IsFull(out_queue)
  /\ pc["render"] = "commit_wait" => IsFull(out_queue)
  /\ pc["write"] = "send" => out_lock = "write"
  /\ pc["write"] = "pop_blocks" => out_lock = "write" /\ IsEmpty(out_queue)
  /\ pc["write"] = "pop_wait" => IsEmpty(out_queue)

\* Only these steps put a thread to sleep.
LEMMA SleepSteps ==
  ASSUME PcTypes, [Next]_vars
  PROVE  /\ pc'["conn"] = "post_wait" => pc["conn"] = "post_wait" \/ PostData
         /\ pc'["render"] = "read_wait" => pc["render"] = "read_wait" \/ ReadWaits
         /\ pc'["render"] = "commit_blocks" =>
              pc["render"] = "commit_blocks" \/ CommitBlocks
         /\ pc'["render"] = "commit_wait" => pc["render"] = "commit_wait" \/ CommitWaits
         /\ pc'["write"] = "send" => pc["write"] = "send" \/ WritePops
         /\ pc'["write"] = "pop_blocks" => pc["write"] = "pop_blocks" \/ WriteBlocks
         /\ pc'["write"] = "pop_wait" => pc["write"] = "pop_wait" \/ WriteWaits
<1> USE DEF PcTypes, Threads, ConnLabels, RenderLabels, WriteLabels, Goto, GotoAndWake
<1>1. CASE Peer
  BY <1>1 DEF Peer, PeerReads, PeerCloses
<1>2. CASE Spurious \/ Receive
  BY <1>2 DEF Spurious, Receive
<1>3. CASE Conn
  BY <1>3 DEF Conn, ReadFails, StopIn, StopOut, StopWakesPusher,
              StopWakesPopper, WaitForRender, Join, PostData
<1>4. CASE Render
  BY <1>4 DEF Render, ReadBegins, ReadCopies, ReadPops, ReadWaits, ReadWoken,
              ReadReturns, ReadEnds, DecodeEnds, DecodeReplies, CommitPushes,
              CommitBlocks, CommitWaits
<1>5. CASE Write
  BY <1>5 DEF Write, WritePops, WriteBlocks, WriteWaits, WriteEnds, Send, SendFails,
              SendEnds
<1>6. CASE UNCHANGED vars
  BY <1>6 DEF vars
<1> QED
  BY <1>1, <1>2, <1>3, <1>4, <1>5, <1>6 DEF Next

LEMMA SleepsInStep ==
  ASSUME Types, SleepsIn, [Next]_vars
  PROVE  SleepsIn'
<1> USE StreamAssumption
<1>1. in_queue \in Queues(InCapacity, Chunks)
  BY DEF Types, InTypes
<1>2. in_queue.count \in 0 .. InCapacity /\ in_queue.capacity = InCapacity
  BY <1>1 DEF Queues
<1>3. CASE PostData
  <2>1. CASE /\ IsFull(in_queue)
             /\ Goto("conn", "post", "post_wait")
             /\ UNCHANGED <<in_queue, data>>
    BY <2>1 DEF Goto, SleepsIn, Types, PcTypes, Threads, IsFull, IsEmpty
  <2>2. CASE /\ ~IsFull(in_queue)
             /\ in_queue' = TryPush(in_queue, data)
             /\ GotoAndWake("conn", "post", "idle", WakesPopper(in_queue, in_queue'),
                            "render", "read_wait", "read_woken")
    <3>1. data \in Chunks
      BY DEF Types, InTypes
    <3>2. /\ in_queue'.closed = in_queue.closed
          /\ ~in_queue.closed => in_queue'.count = in_queue.count + 1
      BY <1>1, <2>2, <3>1, PushStep
    <3>3. /\ pc'["conn"] = "idle"
          /\ pc'["render"] = "read_wait" =>
               pc["render"] = "read_wait" /\ ~WakesPopper(in_queue, in_queue')
      BY <2>2 DEF GotoAndWake, Types, PcTypes, Threads
    <3>4. pc'["render"] # "read_wait"
      BY <1>2, <3>2, <3>3 DEF SleepsIn, WakesPopper, IsEmpty
    <3> QED
      BY <3>3, <3>4 DEF SleepsIn
  <2> QED
    BY <1>3, <2>1, <2>2 DEF PostData
<1>4. CASE StopIn
  BY <1>4 DEF StopIn, GotoAndWake, CloseWakesPopper, SleepsIn, Types, PcTypes, Threads
<1>5. CASE ReadPops
  <2>1. in_queue'.count = in_queue.count - 1
    BY <1>1, <1>5, PopStep DEF ReadPops
  <2>2. /\ pc'["render"] = "read_loop"
        /\ pc'["conn"] = "post_wait" =>
             pc["conn"] = "post_wait" /\ ~WakesPusher(in_queue, in_queue')
    BY <1>5 DEF ReadPops, GotoAndWake, Types, PcTypes, Threads
  <2> QED
    BY <2>1, <2>2 DEF SleepsIn, WakesPusher
<1>6. CASE ReadWaits
  BY <1>6 DEF ReadWaits, Goto, SleepsIn, Types, PcTypes, Threads
<1>7. CASE in_queue' = in_queue /\ ~PostData /\ ~ReadWaits
  BY <1>7, SleepSteps DEF SleepsIn, Types
<1>8. CASE UNCHANGED inVars \/ Receive \/ ReadCopies
  BY <1>3, <1>6, <1>7, <1>8 DEF inVars, Receive, ReadCopies
<1> QED
  BY <1>3, <1>4, <1>5, <1>8, OnlyInStep DEF InStep

\* Only these steps take or release out_lock_.
LEMMA OutLockSteps ==
  ASSUME [Next]_vars
  PROVE  \/ CommitBlocks \/ CommitWaits \/ WritePops \/ WriteBlocks \/ WriteWaits
         \/ SendEnds \/ out_lock' = out_lock
<1>1. CASE Peer
  BY <1>1 DEF Peer, PeerReads, PeerCloses
<1>2. CASE Spurious \/ Receive
  BY <1>2 DEF Spurious, Receive
<1>3. CASE Conn
  BY <1>3 DEF Conn, ReadFails, StopIn, StopOut, StopWakesPusher,
              StopWakesPopper, WaitForRender, Join, PostData
<1>4. CASE Render
  BY <1>4 DEF Render, ReadBegins, ReadCopies, ReadPops, ReadWaits, ReadWoken,
              ReadReturns, ReadEnds, DecodeEnds, DecodeReplies, CommitPushes
<1>5. CASE Write
  BY <1>5 DEF Write, WriteEnds, Send, SendFails
<1>6. CASE UNCHANGED vars
  BY <1>6 DEF vars
<1> QED
  BY <1>1, <1>2, <1>3, <1>4, <1>5, <1>6 DEF Next

LEMMA SleepsOutStep ==
  ASSUME Types, SleepsOut, [Next]_vars
  PROVE  SleepsOut'
<1> USE StreamAssumption
<1>1. out_queue \in Queues(OutCapacity, Chunks)
  BY DEF Types, OutTypes
<1>2. out_queue.count \in 0 .. OutCapacity /\ out_queue.capacity = OutCapacity
  BY <1>1 DEF Queues
<1>3. CASE CommitPushes
  <2>1. reply \in Chunks
    BY DEF Types, OutTypes
  <2>2. \/ out_queue' = out_queue
        \/ out_queue'.count = out_queue.count + 1
    <3>1. CASE IsFull(out_queue)
      BY <1>3, <3>1 DEF CommitPushes, TryPush
    <3>2. CASE ~IsFull(out_queue)
      BY <1>1, <1>3, <2>1, <3>2, PushStep DEF CommitPushes
    <3> QED
      BY <3>1, <3>2
  <2>3. /\ pc'["render"] = "decode" /\ out_lock = NoThread /\ out_lock' = NoThread
        /\ pc'["write"] = pc["write"] \/ pc'["write"] = "pop"
        /\ pc'["write"] = "pop_wait" =>
             pc["write"] = "pop_wait" /\ ~WakesPopper(out_queue, out_queue')
    BY <1>3 DEF CommitPushes, GotoAndWake, Types, PcTypes, Threads
  <2>4. pc'["write"] = "pop_wait" => out_queue' = out_queue
    BY <1>2, <2>2, <2>3 DEF SleepsOut, WakesPopper, IsEmpty
  <2> QED
    BY <2>3, <2>4 DEF SleepsOut
<1>4. CASE StopOut
  <2>1. out_queue'.count = out_queue.count /\ out_queue'.capacity = out_queue.capacity
    BY <1>1, <1>4, CloseKeepsContents DEF StopOut
  <2>2. /\ pc'["render"] = pc["render"] /\ pc'["write"] = pc["write"]
        /\ out_lock' = out_lock
    BY <1>4 DEF StopOut, Goto, Types, PcTypes, Threads
  <2> QED
    BY <2>1, <2>2 DEF SleepsOut, IsFull, IsEmpty
<1>5. CASE WritePops
  <2>1. out_queue'.count = out_queue.count - 1
    BY <1>1, <1>5, PopStep DEF WritePops
  <2>2. /\ pc'["write"] = "send" /\ out_lock = NoThread /\ out_lock' = "write"
        /\ pc'["render"] = pc["render"] \/ pc'["render"] = "commit"
        /\ pc'["render"] = "commit_wait" =>
             pc["render"] = "commit_wait" /\ ~WakesPusher(out_queue, out_queue')
    BY <1>5 DEF WritePops, GotoAndWake, Types, PcTypes, Threads
  <2> QED
    BY <2>1, <2>2 DEF SleepsOut, WakesPusher
<1>6. CASE CommitBlocks \/ CommitWaits
  BY <1>6 DEF CommitBlocks, CommitWaits, Goto, SleepsOut, Types, PcTypes, Threads
<1>7. CASE WriteBlocks \/ WriteWaits
  BY <1>7 DEF WriteBlocks, WriteWaits, Goto, SleepsOut, Types, PcTypes, Threads
<1>8. CASE SendEnds
  BY <1>8 DEF SendEnds, Goto, SleepsOut, Types, PcTypes, Threads, sendVars
<1>9. CASE /\ out_queue' = out_queue /\ out_lock' = out_lock
           /\ ~CommitBlocks /\ ~CommitWaits /\ ~WritePops /\ ~WriteBlocks /\ ~WriteWaits
  BY <1>9, SleepSteps DEF SleepsOut, Types
<1>10. CASE UNCHANGED outVars \/ DecodeReplies \/ Send \/ SendFails
  BY <1>5, <1>6, <1>7, <1>8, <1>9, <1>10, OutLockSteps
     DEF outVars, DecodeReplies, Send, SendFails
<1> QED
  BY <1>3, <1>4, <1>5, <1>10, OnlyOutStep DEF OutStep

\* A thread waits only while the queue still makes it wait: no notify is missed
\* except the one that tells of the close of out_queue_.
THEOREM NoOversleeping == Spec => []NobodyOversleeps
<1>1. Init => SleepsIn /\ SleepsOut
  BY DEF Init, SleepsIn, SleepsOut
<1>2. Types /\ SleepsIn /\ SleepsOut /\ [Next]_vars => SleepsIn' /\ SleepsOut'
  BY SleepsInStep, SleepsOutStep
<1>3. SleepsIn /\ SleepsOut => NobodyOversleeps
  BY DEF SleepsIn, SleepsOut, NobodyOversleeps
<1> QED
  BY <1>1, <1>2, <1>3, AlwaysTypes, PTL DEF Spec

-----------------------------------------------------------------------------
(* The queues are FIFOs *)

LEMMA InIsFifo ==
  ASSUME Types, [Next]_vars
  PROVE  [In!Next]_<<Contents(in_queue), in_queue.closed>>
<1> DEFINE items == Contents(in_queue)
           closed == in_queue.closed
<1> USE StreamAssumption
<1>1. in_queue \in Queues(InCapacity, Chunks)
  BY DEF Types, InTypes
<1>2. Len(items) = in_queue.count /\ in_queue.count \in 0 .. InCapacity
  BY <1>1, ContentsType DEF Queues
<1>3. in_queue.capacity = InCapacity
  BY <1>1 DEF Queues
<1>4. CASE PostData /\ in_queue' # in_queue
  <2>1. ~IsFull(in_queue) /\ in_queue' = TryPush(in_queue, data) /\ pc["conn"] = "post"
    BY <1>4 DEF PostData, GotoAndWake
  <2>2. data \in Buffers /\ data \in Chunks
    BY <2>1, ChunkType DEF Types, InTypes, Posting
  <2>3. /\ ~closed /\ in_queue'.closed = closed
        /\ Contents(in_queue') = Append(items, data)
    BY <1>1, <1>4, <2>1, <2>2, PushStep
  <2>4. Len(items) < InCapacity
    BY <1>2, <1>3, <2>1 DEF IsFull
  <2>5. In!Push(data)
    BY <2>3, <2>4 DEF In!Push
  <2> QED
    BY <2>2, <2>5 DEF In!Next
<1>5. CASE StopIn
  <2>1. in_queue' = Closed(in_queue)
    BY <1>5 DEF StopIn
  <2>2. Contents(in_queue') = items /\ in_queue'.closed = TRUE
    BY <1>1, <2>1, CloseKeepsContents
  <2> QED
    BY <2>2 DEF In!Close, In!Next
<1>6. CASE ReadPops
  <2>1. ~IsEmpty(in_queue) /\ in_queue' = Popped(in_queue)
    BY <1>6 DEF ReadPops
  <2>2. items # <<>> /\ Contents(in_queue') = Tail(items) /\ in_queue'.closed = closed
    BY <1>1, <2>1, PopStep
  <2> QED
    BY <2>2 DEF In!Pop, In!Next
<1>7. CASE in_queue' = in_queue
  BY <1>7
<1>8. CASE UNCHANGED inVars \/ Receive \/ ReadCopies
  BY <1>7, <1>8 DEF inVars, Receive, ReadCopies
<1> QED
  BY <1>4, <1>5, <1>6, <1>7, <1>8, OnlyInStep DEF InStep

LEMMA OutIsFifo ==
  ASSUME Types, [Next]_vars
  PROVE  [Out!Next]_<<Contents(out_queue), out_queue.closed>>
<1> DEFINE items == Contents(out_queue)
           closed == out_queue.closed
<1> USE StreamAssumption
<1>1. out_queue \in Queues(OutCapacity, Chunks)
  BY DEF Types, OutTypes
<1>2. Len(items) = out_queue.count /\ out_queue.count \in 0 .. OutCapacity
  BY <1>1, ContentsType DEF Queues
<1>3. out_queue.capacity = OutCapacity
  BY <1>1 DEF Queues
<1>4. CASE CommitPushes /\ out_queue' # out_queue
  <2>1. out_queue' = TryPush(out_queue, reply) /\ pc["render"] = "commit"
    BY <1>4 DEF CommitPushes, GotoAndWake
  <2>2. ~IsFull(out_queue)
    BY <1>4, <2>1 DEF TryPush
  <2>3. reply \in Buffers /\ reply \in Chunks
    BY <2>1, ChunkType DEF Types, OutTypes, Committing
  <2>4. /\ ~closed /\ out_queue'.closed = closed
        /\ Contents(out_queue') = Append(items, reply)
    BY <1>1, <1>4, <2>1, <2>2, <2>3, PushStep
  <2>5. Len(items) < OutCapacity
    BY <1>2, <1>3, <2>2 DEF IsFull
  <2>6. Out!Push(reply)
    BY <2>4, <2>5 DEF Out!Push
  <2> QED
    BY <2>3, <2>6 DEF Out!Next
<1>5. CASE StopOut
  <2>1. out_queue' = Closed(out_queue)
    BY <1>5 DEF StopOut
  <2>2. Contents(out_queue') = items /\ out_queue'.closed = TRUE
    BY <1>1, <2>1, CloseKeepsContents
  <2> QED
    BY <2>2 DEF Out!Close, Out!Next
<1>6. CASE WritePops
  <2>1. ~IsEmpty(out_queue) /\ out_queue' = Popped(out_queue)
    BY <1>6 DEF WritePops
  <2>2. items # <<>> /\ Contents(out_queue') = Tail(items) /\ out_queue'.closed = closed
    BY <1>1, <2>1, PopStep
  <2> QED
    BY <2>2 DEF Out!Pop, Out!Next
<1>7. CASE out_queue' = out_queue
  BY <1>7
<1>8. CASE UNCHANGED outVars \/ DecodeReplies \/ Send \/ SendFails
  BY <1>7, <1>8 DEF outVars, DecodeReplies, Send, SendFails
<1> QED
  BY <1>4, <1>5, <1>6, <1>7, <1>8, OnlyOutStep DEF OutStep

\* The stream implements two FIFOs: with Contents as the refinement mapping, every
\* step pushes, pops or closes, or leaves the queue as it was.
THEOREM Refinement == Spec => QueuesAreFifos
<1>1. Init => In!Init /\ Out!Init
  <2> SUFFICES ASSUME Init
               PROVE  In!Init /\ Out!Init
    OBVIOUS
  <2>1. /\ Contents(NewQueue(InCapacity)) = <<>>
        /\ Contents(NewQueue(OutCapacity)) = <<>>
    BY StreamAssumption, ChunkType, NewQueueType
  <2> QED
    BY <2>1 DEF Init, In!Init, Out!Init, NewQueue
<1>2. Types /\ [Next]_vars => /\ [In!Next]_<<Contents(in_queue), in_queue.closed>>
                              /\ [Out!Next]_<<Contents(out_queue), out_queue.closed>>
  BY InIsFifo, OutIsFifo
<1> QED
  BY <1>1, <1>2, AlwaysTypes, PTL DEF Spec, QueuesAreFifos, In!Spec, Out!Spec

-----------------------------------------------------------------------------
(* Buffers that follow each other *)

\* s is the bytes that come after the n-th.
Follows(s, n) == \A k \in DOMAIN s : s[k] = n + k

\* at tells where each of the buffers in s ends: after byte lo + ... up to hi.
Ends(at, s, lo, hi) ==
  /\ at[0] = lo /\ at[Len(s)] = hi
  /\ \A k \in 1 .. Len(s) : at[k] = at[k - 1] + Len(s[k]) /\ Follows(s[k], at[k - 1])

\* The buffers of s, put together, are the bytes after the lo-th up to the hi-th.
Chain(s, lo, hi) == \E at \in [0 .. Len(s) -> Nat] : Ends(at, s, lo, hi)

LEMMA ChainEmpty ==
  ASSUME NEW lo \in Nat
  PROVE  /\ Chain(<<>>, lo, lo)
         /\ \A hi \in Nat : Chain(<<>>, lo, hi) => lo = hi
<1>1. Len(<<>>) = 0
  OBVIOUS
<1>2. Chain(<<>>, lo, lo)
  <2> DEFINE at == [k \in 0 .. 0 |-> lo]
  <2>1. at \in [0 .. Len(<<>>) -> Nat] /\ at[0] = lo
    BY <1>1
  <2>2. Ends(at, <<>>, lo, lo)
    BY <1>1, <2>1 DEF Ends
  <2> QED BY <2>1, <2>2 DEF Chain
<1> QED
  BY <1>1, <1>2 DEF Chain, Ends

LEMMA ChainAppend ==
  ASSUME NEW s \in Seq(Seq(Nat)), NEW b \in Seq(Nat), NEW lo \in Nat, NEW hi \in Nat,
         Chain(s, lo, hi), Follows(b, hi)
  PROVE  Chain(Append(s, b), lo, hi + Len(b))
<1> DEFINE n == Len(s)
           t == Append(s, b)
<1>1. n \in Nat /\ Len(b) \in Nat /\ Len(t) = n + 1
      /\ (\A k \in 1 .. n : t[k] = s[k]) /\ t[n + 1] = b
  BY LenProperties, AppendProperties
<1>2. PICK at \in [0 .. n -> Nat] : Ends(at, s, lo, hi)
  BY DEF Chain
<1>3. /\ at[0] = lo /\ at[n] = hi
      /\ \A k \in 1 .. n : at[k] = at[k - 1] + Len(s[k]) /\ Follows(s[k], at[k - 1])
  BY <1>2 DEF Ends
<1> HIDE DEF n, t
<1> DEFINE to == [k \in 0 .. n + 1 |-> IF k = n + 1 THEN hi + Len(b) ELSE at[k]]
<1>4. to \in [0 .. n + 1 -> Nat]
  BY <1>1
<1>5. to[0] = lo /\ to[n + 1] = hi + Len(b) /\ (\A k \in 0 .. n : to[k] = at[k])
  BY <1>1, <1>3
<1> HIDE DEF to
<1>6. \A k \in 1 .. n + 1 : to[k] = to[k - 1] + Len(t[k]) /\ Follows(t[k], to[k - 1])
  <2>1. ASSUME NEW k \in 1 .. n
        PROVE  to[k] = to[k - 1] + Len(t[k]) /\ Follows(t[k], to[k - 1])
    <3>1. k \in 0 .. n /\ k - 1 \in 0 .. n
      BY <1>1
    <3>2. to[k] = at[k] /\ to[k - 1] = at[k - 1] /\ t[k] = s[k]
      BY <1>1, <1>5, <3>1
    <3> QED BY <1>3, <3>2
  <2>2. to[n + 1] = to[n] + Len(t[n + 1]) /\ Follows(t[n + 1], to[n])
    <3>1. to[n] = hi
      BY <1>1, <1>3, <1>5
    <3> QED BY <1>1, <1>5, <3>1
  <2>3. ASSUME NEW k \in 1 .. n + 1 PROVE k \in 1 .. n \/ (k = n + 1 /\ k - 1 = n)
    BY <1>1
  <2> QED BY <2>1, <2>2, <2>3
<1>7. Ends(to, t, lo, hi + Len(b))
  BY <1>1, <1>5, <1>6 DEF Ends
<1> QED
  BY <1>1, <1>4, <1>7 DEF Chain, t

LEMMA ChainTail ==
  ASSUME NEW s \in Seq(Seq(Nat)), NEW lo \in Nat, NEW hi \in Nat,
         Chain(s, lo, hi), s # <<>>
  PROVE  /\ Follows(Head(s), lo)
         /\ Chain(Tail(s), lo + Len(Head(s)), hi)
<1> DEFINE n == Len(s) - 1
           t == Tail(s)
<1>1. n \in Nat /\ Len(s) = n + 1 /\ Len(t) = n /\ Head(s) = s[1]
      /\ \A k \in 1 .. n : t[k] = s[k + 1]
  BY LenProperties, HeadTailProperties, EmptySeq
<1>2. PICK at \in [0 .. n + 1 -> Nat] : Ends(at, s, lo, hi)
  BY <1>1 DEF Chain
<1>3. /\ at[0] = lo /\ at[n + 1] = hi
      /\ \A k \in 1 .. n + 1 : at[k] = at[k - 1] + Len(s[k]) /\ Follows(s[k], at[k - 1])
  BY <1>1, <1>2 DEF Ends
<1> HIDE DEF n, t
<1>4. at[1] = lo + Len(s[1]) /\ Follows(s[1], lo)
  <2>1. 1 \in 1 .. n + 1 /\ 1 - 1 = 0
    BY <1>1
  <2> QED BY <1>3, <2>1
<1> DEFINE to == [k \in 0 .. n |-> at[k + 1]]
<1>5. to \in [0 .. n -> Nat]
  BY <1>1
<1>6. \A k \in 0 .. n : to[k] = at[k + 1]
  OBVIOUS
<1> HIDE DEF to
<1>7. ASSUME NEW k \in 1 .. n
      PROVE  to[k] = to[k - 1] + Len(t[k]) /\ Follows(t[k], to[k - 1])
  <2>1. k \in 0 .. n /\ k - 1 \in 0 .. n /\ k + 1 \in 1 .. n + 1
        /\ (k - 1) + 1 = k /\ (k + 1) - 1 = k
    BY <1>1
  <2>2. to[k] = at[k + 1] /\ to[k - 1] = at[k] /\ t[k] = s[k + 1]
    BY <1>1, <1>6, <2>1
  <2>3. at[k + 1] = at[k] + Len(s[k + 1]) /\ Follows(s[k + 1], at[k])
    BY <1>3, <2>1
  <2> QED BY <2>2, <2>3
<1>8. to[0] = lo + Len(Head(s)) /\ to[n] = hi
  BY <1>1, <1>3, <1>4, <1>6
<1>9. Ends(to, t, lo + Len(Head(s)), hi)
  BY <1>1, <1>7, <1>8 DEF Ends
<1> QED
  BY <1>1, <1>4, <1>5, <1>9 DEF Chain, t

\* Bytes that come after the last ones of s can be put behind them.
LEMMA FollowsConcat ==
  ASSUME NEW s \in Seq(Nat), NEW t \in Seq(Nat), Follows(s, 0), Follows(t, Len(s))
  PROVE  Follows(s \o t, 0) /\ s \o t \in Seq(Nat) /\ Len(s \o t) = Len(s) + Len(t)
<1>1. /\ s \o t \in Seq(Nat) /\ Len(s \o t) = Len(s) + Len(t)
      /\ Len(s) \in Nat /\ Len(t) \in Nat
      /\ DOMAIN s = 1 .. Len(s) /\ DOMAIN t = 1 .. Len(t)
      /\ DOMAIN (s \o t) = 1 .. Len(s) + Len(t)
  BY ConcatProperties, LenProperties
<1>2. ASSUME NEW k \in 1 .. Len(s) + Len(t) PROVE (s \o t)[k] = 0 + k
  <2>1. CASE k <= Len(s)
    <3>1. (s \o t)[k] = s[k] /\ k \in DOMAIN s
      BY <1>1, <2>1, ConcatProperties
    <3> QED BY <3>1 DEF Follows
  <2>2. CASE k > Len(s)
    <3>1. (s \o t)[k] = t[k - Len(s)] /\ k - Len(s) \in DOMAIN t
      BY <1>1, <2>2, ConcatProperties
    <3>2. t[k - Len(s)] = Len(s) + (k - Len(s))
      BY <3>1 DEF Follows
    <3> QED BY <1>1, <3>1, <3>2
  <2> QED BY <1>1, <2>1, <2>2
<1> QED
  BY <1>1, <1>2 DEF Follows

LEMMA FollowsBytes ==
  ASSUME NEW first \in Nat, NEW n \in Nat
  PROVE  Follows(Bytes(first, n), first) /\ Len(Bytes(first, n)) = n
BY BytesType DEF Follows

\* The buffer that is popped next is the first one of the contents.
LEMMA FrontIsHead ==
  ASSUME NEW c \in Nat \ {0}, NEW B, NEW q \in Queues(c, B), ~IsEmpty(q)
  PROVE  Front(q) = Head(Contents(q))
<1>1. q.count \in 1 .. c /\ q.pos \in 0 .. c - 1 /\ q.capacity = c
  BY DEF Queues, IsEmpty
<1>2. Slot(q, 1 - 1) = q.pos
  BY <1>1 DEF Slot
<1>3. Contents(q) \in Seq(B) /\ Contents(q) # <<>>
  BY <1>1, ContentsType, PopStep
<1>4. Contents(q)[1] = q.buffers[q.pos]
  BY <1>1, <1>2 DEF Contents
<1> QED
  BY <1>3, <1>4, HeadTailProperties DEF Front

\* What a queue of the stream holds, as a sequence of sequences of bytes.
LEMMA ContentsOfChunks ==
  ASSUME NEW c \in Nat \ {0}, NEW q \in Queues(c, Chunks)
  PROVE  /\ Contents(q) \in Seq(Seq(Nat))
         /\ IsEmpty(q) <=> Contents(q) = <<>>
<1>1. Contents(q) \in Seq(Chunks) /\ Len(Contents(q)) = q.count /\ q.count \in Nat
  BY ContentsType DEF Queues
<1>2. Contents(q) \in Seq(Seq(Nat))
  <2>1. \A k \in 1 .. Len(Contents(q)) : Contents(q)[k] \in Seq(Nat)
    BY <1>1, ChunkType, ElementOfSeq
  <2>2. Contents(q) = [k \in 1 .. Len(Contents(q)) |-> Contents(q)[k]]
    BY <1>1
  <2> QED BY <1>1, <2>1, <2>2, SeqDef
<1> QED
  BY <1>1, <1>2, EmptySeq DEF IsEmpty

\* A queue whose buffers are a chain, and one more buffer that comes after them.
LEMMA ChainPushed ==
  ASSUME NEW c \in Nat \ {0}, NEW q \in Queues(c, Chunks), NEW b \in Chunks,
         NEW lo \in Nat, NEW hi \in Nat, ~IsFull(q), ~q.closed,
         Chain(Contents(q), lo, hi), Follows(b, hi)
  PROVE  Chain(Contents(TryPush(q, b)), lo, hi + Len(b))
<1>1. Contents(TryPush(q, b)) = Append(Contents(q), b)
  BY PushStep
<1>2. Contents(q) \in Seq(Seq(Nat)) /\ b \in Seq(Nat)
  BY ContentsOfChunks, ChunkType
<1> QED
  BY <1>1, <1>2, ChainAppend

\* A queue whose buffers are a chain, and its first buffer taken away.
LEMMA ChainPopped ==
  ASSUME NEW c \in Nat \ {0}, NEW q \in Queues(c, Chunks), NEW lo \in Nat, NEW hi \in Nat,
         ~IsEmpty(q), Chain(Contents(q), lo, hi)
  PROVE  /\ Follows(Front(q), lo)
         /\ Chain(Contents(Popped(q)), lo + Len(Front(q)), hi)
<1>1. Contents(q) \in Seq(Seq(Nat)) /\ Contents(q) # <<>>
  BY ContentsOfChunks
<1>2. Front(q) = Head(Contents(q)) /\ Contents(Popped(q)) = Tail(Contents(q))
  BY FrontIsHead, PopStep
<1> QED
  BY <1>1, <1>2, ChainTail

-----------------------------------------------------------------------------
(* From the client to the render thread *)

\* The bytes of read_buffer_ that have not been copied yet.
Left == [k \in 1 .. read_buffer_left |-> read_buffer[Len(read_buffer) - read_buffer_left + k]]

\* The bytes that have been read, those of read_buffer_, of the queue and of the
\* buffer being posted are all that was received.  A render thread that has ended has
\* read them all, and nothing will be posted.
InOrderInv ==
  /\ InOrder(taken)
  /\ Follows(Left, Len(taken))
  /\ Chain(Contents(in_queue), Len(taken) + read_buffer_left, posted - Len(data))
  /\ Follows(data, posted - Len(data)) /\ Len(data) <= posted
  /\ pc["render"] = "done" => in_queue.closed /\ Len(taken) = posted

LEMMA InOrderInit == Init => InOrderInv
<1> SUFFICES ASSUME Init PROVE InOrderInv
  OBVIOUS
<1>1. Contents(in_queue) = <<>>
  BY StreamAssumption, ChunkType, NewQueueType DEF Init
<1>2. InOrder(taken) /\ Follows(data, 0) /\ Len(data) = 0 /\ Len(taken) = 0 /\ posted = 0
  BY DEF Init, InOrder, Follows
<1>3. Follows(Left, 0) /\ read_buffer_left = 0
  BY DEF Init, Left, Follows
<1> QED
  BY <1>1, <1>2, <1>3, ChainEmpty DEF Init, InOrderInv

LEMMA InNumbers ==
  ASSUME InTypes
  PROVE  /\ read_buffer \in Seq(Nat) /\ Len(read_buffer) \in Nat
         /\ data \in Seq(Nat) /\ Len(data) \in Nat
         /\ taken \in Seq(Nat) /\ Len(taken) \in Nat
         /\ read_buffer_left \in 0 .. Len(read_buffer) /\ posted \in Nat
  BY ChunkType, LenProperties, StreamAssumption DEF InTypes

LEMMA ReceiveKeepsOrder == InTypes /\ PcTypes /\ InOrderInv /\ Receive => InOrderInv'
<1> SUFFICES ASSUME InTypes, PcTypes, InOrderInv, Receive PROVE InOrderInv'
  OBVIOUS
<1>1. pc["conn"] = "idle" /\ pc'["render"] = pc["render"]
  BY DEF Receive, Goto, PcTypes, Threads
<1>2. data = <<>> /\ ~in_queue.closed
  BY <1>1 DEF InTypes, Posting, Receiving
<1>3. PICK n \in 1 .. MaxBuffer : data' = Bytes(posted, n) /\ posted' = posted + n
  BY DEF Receive
<1>4. n \in Nat /\ posted \in Nat /\ Len(data) = 0
  BY <1>2, InNumbers, StreamAssumption
<1>5. Len(data') = n /\ Follows(data', posted' - Len(data')) /\ posted' - Len(data') = posted
  <2>1. Len(data') = n /\ Follows(data', posted)
    BY <1>3, <1>4, FollowsBytes
  <2>2. posted' - Len(data') = posted
    BY <1>3, <1>4, <2>1
  <2> QED BY <2>1, <2>2
<1>6. UNCHANGED <<in_queue, taken, read_buffer, read_buffer_left>>
  BY DEF Receive, readVars
<1>7. posted - Len(data) = posted' - Len(data') /\ Len(data') <= posted'
  BY <1>3, <1>4, <1>5
<1>8. InOrder(taken)' /\ Follows(Left, Len(taken))'
  <2>1. Left' = Left
    BY <1>6 DEF Left
  <2> QED BY <1>6, <2>1 DEF InOrderInv
<1>9. Chain(Contents(in_queue'), Len(taken') + read_buffer_left', posted' - Len(data'))
  BY <1>6, <1>7 DEF InOrderInv
<1>10. pc'["render"] # "done"
  BY <1>1, <1>2 DEF InOrderInv
<1> QED
  BY <1>5, <1>7, <1>8, <1>9, <1>10 DEF InOrderInv

LEMMA PostDataKeepsOrder == InTypes /\ PcTypes /\ InOrderInv /\ PostData => InOrderInv'
<1> SUFFICES ASSUME InTypes, PcTypes, InOrderInv, PostData PROVE InOrderInv'
  OBVIOUS
<1>1. UNCHANGED <<taken, read_buffer, read_buffer_left, posted>>
  BY DEF PostData, readVars
<1>2. Left' = Left
  BY <1>1 DEF Left
<1>3. /\ pc["conn"] = "post" /\ Posting /\ ~in_queue.closed
      /\ (pc'["render"] = "done" => pc["render"] = "done")
  BY DEF PostData, Goto, GotoAndWake, PcTypes, Threads, Posting, InTypes, Receiving
<1>4. CASE UNCHANGED <<in_queue, data>>
  BY <1>1, <1>2, <1>3, <1>4 DEF InOrderInv
<1>5. CASE ~IsFull(in_queue) /\ in_queue' = TryPush(in_queue, data) /\ data' = <<>>
  <2>1. data \in Chunks /\ in_queue \in Queues(InCapacity, Chunks)
    BY DEF InTypes
  <2>2. /\ Len(taken) + read_buffer_left \in Nat
        /\ posted - Len(data) \in Nat /\ (posted - Len(data)) + Len(data) = posted
    BY InNumbers DEF InOrderInv
  <2>3. Chain(Contents(in_queue'), Len(taken) + read_buffer_left, posted)
    <3>1. /\ Chain(Contents(in_queue), Len(taken) + read_buffer_left, posted - Len(data))
          /\ Follows(data, posted - Len(data))
      BY DEF InOrderInv
    <3>2. Chain(Contents(in_queue'), Len(taken) + read_buffer_left,
                (posted - Len(data)) + Len(data))
      BY <1>3, <1>5, <2>1, <2>2, <3>1, ChainPushed, StreamAssumption
    <3> QED BY <2>2, <3>2
  <2>4. Len(data') = 0 /\ Follows(data', posted') /\ posted' - Len(data') = posted
        /\ posted \in Nat
    BY <1>1, <1>5, InNumbers DEF Follows
  <2>5. pc["render"] # "done"
    BY <1>3 DEF InOrderInv
  <2> QED
    BY <1>1, <1>2, <1>3, <2>3, <2>4, <2>5 DEF InOrderInv
<1> QED
  BY <1>4, <1>5 DEF PostData

LEMMA CopyKeepsOrder == InTypes /\ ReadTypes /\ InOrderInv /\ ReadCopies => InOrderInv'
<1> SUFFICES ASSUME InTypes, ReadTypes, InOrderInv, ReadCopies PROVE InOrderInv'
  OBVIOUS
<1>1. PICK n \in 1 .. read_buffer_left :
           taken' = taken \o Unread(n) /\ read_buffer_left' = read_buffer_left - n
  BY ReadCopiesStep
<1>2. /\ Unread(n) \in Seq(Nat) /\ Len(Unread(n)) = n
      /\ \A k \in 1 .. n :
           Unread(n)[k] = read_buffer[Len(read_buffer) - read_buffer_left + k]
  BY UnreadType
<1>3. UNCHANGED <<pc, in_queue, posted, data, read_buffer>>
  BY DEF ReadCopies
<1>4. \A k \in 1 .. read_buffer_left :
        read_buffer[Len(read_buffer) - read_buffer_left + k] = Len(taken) + k
  BY DEF InOrderInv, Follows, Left
<1>5. n \in Nat /\ read_buffer_left \in Nat /\ Len(taken) \in Nat /\ n <= read_buffer_left
      /\ Len(read_buffer) \in Nat
  BY InNumbers
<1>6. Follows(Unread(n), Len(taken))
  <2>1. DOMAIN Unread(n) = 1 .. n
    BY <1>2, LenProperties
  <2>2. ASSUME NEW k \in 1 .. n PROVE Unread(n)[k] = Len(taken) + k
    <3>1. k \in 1 .. read_buffer_left
      BY <1>5
    <3> QED BY <1>2, <1>4, <3>1
  <2> QED BY <2>1, <2>2 DEF Follows
<1>7. InOrder(taken') /\ Len(taken') = Len(taken) + n
  <2>1. Follows(taken, 0)
    BY InNumbers DEF InOrderInv, InOrder, Follows
  <2>2. Follows(taken', 0) /\ taken' \in Seq(Nat) /\ Len(taken') = Len(taken) + n
    BY <1>1, <1>2, <1>6, <2>1, FollowsConcat, InNumbers
  <2>3. DOMAIN taken' = 1 .. Len(taken')
    BY <2>2, LenProperties
  <2> QED BY <2>2, <2>3, LenProperties DEF Follows, InOrder
<1>8. Len(taken') + read_buffer_left' = Len(taken) + read_buffer_left
  BY <1>1, <1>5, <1>7
<1>9. Follows(Left', Len(taken'))
  <2>1. ASSUME NEW k \in 1 .. read_buffer_left - n
        PROVE  read_buffer[Len(read_buffer) - (read_buffer_left - n) + k] = Len(taken') + k
    <3>1. n + k \in 1 .. read_buffer_left
      BY <1>5
    <3>2. read_buffer[Len(read_buffer) - read_buffer_left + (n + k)] = Len(taken) + (n + k)
      BY <1>4, <3>1
    <3>3. Len(read_buffer) - (read_buffer_left - n) + k
            = Len(read_buffer) - read_buffer_left + (n + k)
      BY <1>5, <3>1
    <3> QED BY <1>5, <1>7, <3>2, <3>3
  <2>2. Left' = [k \in 1 .. read_buffer_left - n |->
                  read_buffer[Len(read_buffer) - (read_buffer_left - n) + k]]
    BY <1>1, <1>3 DEF Left
  <2> QED BY <2>1, <2>2 DEF Follows
<1>10. pc["render"] # "done"
  BY DEF ReadCopies
<1> QED
  BY <1>3, <1>7, <1>8, <1>9, <1>10 DEF InOrderInv

LEMMA PopKeepsOrder == InTypes /\ PcTypes /\ InOrderInv /\ ReadPops => InOrderInv'
<1> SUFFICES ASSUME InTypes, PcTypes, InOrderInv, ReadPops PROVE InOrderInv'
  OBVIOUS
<1>1. /\ UNCHANGED <<taken, posted, data>> /\ read_buffer_left = 0 /\ ~IsEmpty(in_queue)
      /\ in_queue' = Popped(in_queue) /\ read_buffer' = Front(in_queue)
      /\ read_buffer_left' = Len(Front(in_queue))
  BY DEF ReadPops
<1>2. in_queue \in Queues(InCapacity, Chunks) /\ Front(in_queue) \in Seq(Nat)
  BY <1>1, PopStep, ChunkType, StreamAssumption DEF InTypes
<1>3. /\ Len(taken) \in Nat /\ posted - Len(data) \in Nat /\ Len(taken) + 0 = Len(taken)
      /\ Len(Front(in_queue)) \in Nat
  BY <1>2, InNumbers, LenProperties DEF InOrderInv
<1>4. /\ Follows(Front(in_queue), Len(taken))
      /\ Chain(Contents(in_queue'), Len(taken) + Len(Front(in_queue)), posted - Len(data))
  <2>1. Chain(Contents(in_queue), Len(taken), posted - Len(data))
    BY <1>1, <1>3 DEF InOrderInv
  <2> QED BY <1>1, <1>2, <1>3, <2>1, ChainPopped, StreamAssumption
<1>5. Follows(Left', Len(taken))
  <2>1. Left' = [k \in 1 .. Len(Front(in_queue)) |->
                  Front(in_queue)[Len(Front(in_queue)) - Len(Front(in_queue)) + k]]
    BY <1>1 DEF Left
  <2>2. \A k \in 1 .. Len(Front(in_queue)) :
          /\ Len(Front(in_queue)) - Len(Front(in_queue)) + k = k
          /\ k \in DOMAIN Front(in_queue)
    BY <1>2, <1>3, LenProperties
  <2> QED BY <1>4, <2>1, <2>2 DEF Follows
<1>6. pc'["render"] # "done"
  BY DEF ReadPops, GotoAndWake, PcTypes, Threads
<1> QED
  BY <1>1, <1>4, <1>5, <1>6 DEF InOrderInv

LEMMA StopInKeepsOrder == InTypes /\ PcTypes /\ InOrderInv /\ StopIn => InOrderInv'
<1> SUFFICES ASSUME InTypes, PcTypes, InOrderInv, StopIn PROVE InOrderInv'
  OBVIOUS
<1>1. UNCHANGED <<taken, read_buffer, read_buffer_left, posted, data>>
  BY DEF StopIn, readVars
<1>2. Contents(in_queue') = Contents(in_queue) /\ in_queue'.closed
  BY CloseKeepsContents, StreamAssumption DEF StopIn, InTypes
<1>3. pc'["render"] = "done" => pc["render"] = "done"
  BY DEF StopIn, GotoAndWake, PcTypes, Threads
<1>4. Left' = Left
  BY <1>1 DEF Left
<1> QED
  BY <1>1, <1>2, <1>3, <1>4 DEF InOrderInv

\* The render thread ends: what it has read is all there was.
LEMMA ReadEndsKeepsOrder == InTypes /\ InOrderInv /\ ReadEnds => InOrderInv'
<1> SUFFICES ASSUME InTypes, InOrderInv, ReadEnds PROVE InOrderInv'
  OBVIOUS
<1>1. UNCHANGED <<in_queue, posted, data, readVars>>
  BY DEF ReadEnds
<1>2. read_buffer_left = 0 /\ IsEmpty(in_queue) /\ in_queue.closed
  BY DEF ReadEnds, EndOfInput
<1>3. data = <<>>
  BY <1>2 DEF InTypes, Posting, Receiving
<1>4. Contents(in_queue) = <<>>
  BY <1>2, ContentsOfChunks, StreamAssumption DEF InTypes
<1>5. Len(taken) = posted
  <2>1. Len(data) = 0 /\ posted - Len(data) = posted /\ Len(taken) + read_buffer_left = Len(taken)
    BY <1>2, <1>3, InNumbers
  <2> QED BY <1>4, <2>1, ChainEmpty, InNumbers DEF InOrderInv
<1>6. Left' = Left
  BY <1>1 DEF Left, readVars
<1> QED
  BY <1>1, <1>2, <1>5, <1>6 DEF InOrderInv, readVars

LEMMA OnlyReadEnds ==
  ASSUME PcTypes, [Next]_vars, ~ReadEnds
  PROVE  pc'["render"] = "done" => pc["render"] = "done"
<1> USE DEF PcTypes, Threads, Goto, GotoAndWake
<1>1. CASE Peer
  BY <1>1 DEF Peer, PeerReads, PeerCloses
<1>2. CASE Spurious \/ Receive
  BY <1>2 DEF Spurious, Receive
<1>3. CASE Conn
  BY <1>3 DEF Conn, PostData, ReadFails, StopIn, StopOut, StopWakesPusher,
              StopWakesPopper, WaitForRender, Join
<1>4. CASE Render
  BY <1>4 DEF Render, ReadBegins, ReadCopies, ReadPops, ReadWaits, ReadWoken,
              ReadReturns, DecodeEnds, DecodeReplies, CommitPushes,
              CommitBlocks, CommitWaits
<1>5. CASE Write
  BY <1>5 DEF Write, WritePops, WriteBlocks, WriteWaits, WriteEnds, Send, SendFails,
              SendEnds
<1>6. CASE UNCHANGED vars
  BY <1>6 DEF vars
<1> QED
  BY <1>1, <1>2, <1>3, <1>4, <1>5, <1>6 DEF Next

LEMMA InOrderStep == Types /\ InOrderInv /\ [Next]_vars => InOrderInv'
<1> SUFFICES ASSUME Types, InOrderInv, [Next]_vars PROVE InOrderInv'
  OBVIOUS
<1>1. InTypes /\ PcTypes /\ ReadTypes
  BY DEF Types
<1>2. CASE InStep
  BY <1>1, <1>2, ReceiveKeepsOrder, PostDataKeepsOrder, StopInKeepsOrder, CopyKeepsOrder,
     PopKeepsOrder DEF InStep
<1>3. CASE ReadEnds
  BY <1>1, <1>3, ReadEndsKeepsOrder
<1>4. CASE UNCHANGED inVars /\ ~ReadEnds
  <2>1. pc'["render"] = "done" => pc["render"] = "done"
    BY <1>1, <1>4, OnlyReadEnds
  <2>2. Left' = Left
    BY <1>4 DEF Left, inVars
  <2> QED BY <1>4, <2>1, <2>2 DEF InOrderInv, inVars
<1> QED
  BY <1>2, <1>3, <1>4, OnlyInStep

LEMMA AlwaysInOrder == Spec => []InOrderInv
BY InOrderInit, InOrderStep, AlwaysTypes, PTL DEF Spec

\* The render thread reads the bytes the client sent, in order, none twice and none
\* left out, whatever the borders of buffers and of reads.
THEOREM ReadsInOrder == Spec => []ReadInOrder
<1>1. InOrderInv => ReadInOrder
  BY DEF InOrderInv, ReadInOrder
<1> QED
  BY <1>1, AlwaysInOrder, PTL

\* The render thread ends only when it has read all that was posted.
THEOREM DrainsAtTheEnd == Spec => []DrainedAtTheEnd
<1>1. InOrderInv => DrainedAtTheEnd
  BY DEF InOrderInv, DrainedAtTheEnd
<1> QED
  BY <1>1, AlwaysInOrder, PTL

-----------------------------------------------------------------------------
(* From the render thread to the client *)

\* As long as the client is there out_queue_ is open, and the bytes that have been
\* written, those being sent, of the queue and of the reply being committed are all
\* that was committed.  Once it has closed nothing more is written.
OutOrderInv ==
  /\ InOrder(wire)
  /\ ~Receiving => ~peer_open
  /\ pc["write"] # "send" => sending = <<>>
  /\ peer_open =>
       /\ ~out_queue.closed
       /\ Follows(sending, Len(wire))
       /\ Chain(Contents(out_queue), Len(wire) + Len(sending), committed - Len(reply))
       /\ Follows(reply, committed - Len(reply)) /\ Len(reply) <= committed

LEMMA OutOrderInit == Init => OutOrderInv
<1> SUFFICES ASSUME Init PROVE OutOrderInv
  OBVIOUS
<1>1. Contents(out_queue) = <<>> /\ ~out_queue.closed
  BY StreamAssumption, ChunkType, NewQueueType DEF Init, NewQueue
<1>2. /\ InOrder(wire) /\ Follows(sending, 0) /\ Follows(reply, 0)
      /\ Len(wire) = 0 /\ Len(sending) = 0 /\ Len(reply) = 0 /\ committed = 0
  BY DEF Init, InOrder, Follows
<1>3. Receiving
  BY DEF Init, Receiving
<1> QED
  BY <1>1, <1>2, <1>3, ChainEmpty DEF Init, OutOrderInv

LEMMA OutNumbers ==
  ASSUME OutTypes
  PROVE  /\ wire \in Seq(Nat) /\ Len(wire) \in Nat
         /\ sending \in Seq(Nat) /\ Len(sending) \in Nat
         /\ reply \in Seq(Nat) /\ Len(reply) \in Nat /\ committed \in Nat
         /\ out_queue \in Queues(OutCapacity, Chunks)
  BY ChunkType, LenProperties, StreamAssumption DEF OutTypes

\* Where conn and write are: conn leaves its handlers only when the client has closed,
\* and write has a buffer only while it sends.
LEMMA ConnAndWrite ==
  ASSUME PcTypes, OutOrderInv, [Next]_vars
  PROVE  /\ ~Receiving' => ~peer_open'
         /\ peer_open' => peer_open
         /\ SendEnds \/ (pc["write"] = "send" => pc'["write"] = "send")
<1> USE DEF PcTypes, Threads, ConnLabels, RenderLabels, WriteLabels, Goto, GotoAndWake,
            Receiving, OutOrderInv
<1>1. CASE Peer
  BY <1>1 DEF Peer, PeerReads, PeerCloses
<1>2. CASE Spurious \/ Receive
  BY <1>2 DEF Spurious, Receive
<1>3. CASE Conn
  BY <1>3 DEF Conn, PostData, ReadFails, StopIn, StopOut, StopWakesPusher,
              StopWakesPopper, WaitForRender, Join
<1>4. CASE Render
  BY <1>4 DEF Render, ReadBegins, ReadCopies, ReadPops, ReadWaits, ReadWoken,
              ReadReturns, ReadEnds, DecodeEnds, DecodeReplies, CommitPushes,
              CommitBlocks, CommitWaits
<1>5. CASE Write
  BY <1>5 DEF Write, WritePops, WriteBlocks, WriteWaits, WriteEnds, Send, SendFails,
              SendEnds
<1>6. CASE UNCHANGED vars
  BY <1>6 DEF vars
<1> QED
  BY <1>1, <1>2, <1>3, <1>4, <1>5, <1>6 DEF Next

LEMMA ReplyKeepsOrder == Types /\ OutOrderInv /\ DecodeReplies => OutOrderInv'
<1> SUFFICES ASSUME Types, OutOrderInv, DecodeReplies PROVE OutOrderInv'
  OBVIOUS
<1>1. UNCHANGED <<out_queue, sending, wire, peer_open>>
  BY DEF DecodeReplies, sendVars
<1>2. /\ pc["render"] = "decode" /\ pc'["write"] = pc["write"] /\ pc'["conn"] = pc["conn"]
  BY DEF DecodeReplies, Goto, Types, PcTypes, Threads
<1>3. reply = <<>> /\ OutTypes
  BY <1>2 DEF Types, OutTypes, Committing
<1>4. PICK n \in 1 .. MaxBuffer : reply' = Bytes(committed, n) /\ committed' = committed + n
  BY DEF DecodeReplies
<1>5. n \in Nat /\ committed \in Nat /\ Len(reply) = 0
  BY <1>3, OutNumbers, StreamAssumption
<1>6. Len(reply') = n /\ Follows(reply', committed)
  BY <1>4, <1>5, FollowsBytes
<1>7. /\ committed' - Len(reply') = committed /\ committed - Len(reply) = committed
      /\ Len(reply') <= committed'
  BY <1>4, <1>5, <1>6
<1>8. ~Receiving' => ~peer_open'
  BY <1>1, <1>2 DEF OutOrderInv, Receiving
<1> QED
  BY <1>1, <1>2, <1>6, <1>7, <1>8 DEF OutOrderInv

LEMMA CommitKeepsOrder == Types /\ OutOrderInv /\ CommitPushes => OutOrderInv'
<1> SUFFICES ASSUME Types, OutOrderInv, CommitPushes PROVE OutOrderInv'
  OBVIOUS
<1>1. /\ UNCHANGED <<committed, sending, wire, peer_open>> /\ reply' = <<>>
      /\ out_queue' = TryPush(out_queue, reply) /\ (~IsFull(out_queue) \/ out_queue.closed)
  BY DEF CommitPushes, sendVars
<1>2. /\ pc'["conn"] = pc["conn"] /\ (pc["write"] = "send" => pc'["write"] = "send")
  BY DEF CommitPushes, GotoAndWake, Types, PcTypes, Threads
<1>3. ASSUME peer_open
      PROVE  /\ ~out_queue'.closed
             /\ Chain(Contents(out_queue'), Len(wire) + Len(sending), committed)
  <2>1. /\ ~out_queue.closed /\ ~IsFull(out_queue) /\ Follows(reply, committed - Len(reply))
        /\ Chain(Contents(out_queue), Len(wire) + Len(sending), committed - Len(reply))
    BY <1>1, <1>3 DEF OutOrderInv
  <2>2. out_queue \in Queues(OutCapacity, Chunks) /\ reply \in Chunks
    BY DEF Types, OutTypes
  <2>3. /\ Len(wire) + Len(sending) \in Nat
        /\ committed - Len(reply) \in Nat /\ (committed - Len(reply)) + Len(reply) = committed
    BY <1>3, OutNumbers DEF Types, OutOrderInv
  <2>4. Chain(Contents(out_queue'), Len(wire) + Len(sending),
              (committed - Len(reply)) + Len(reply))
    BY <1>1, <2>1, <2>2, <2>3, ChainPushed, StreamAssumption
  <2>5. ~out_queue'.closed
    BY <1>1, <2>1, <2>2, PushStep, StreamAssumption
  <2> QED BY <2>3, <2>4, <2>5
<1>4. /\ Len(reply') = 0 /\ committed \in Nat /\ committed' - Len(reply') = committed
      /\ Follows(reply', committed)
  BY <1>1, OutNumbers DEF Types, Follows
<1>5. ~Receiving' => ~peer_open'
  BY <1>1, <1>2 DEF OutOrderInv, Receiving
<1> QED
  BY <1>1, <1>2, <1>3, <1>4, <1>5 DEF OutOrderInv

LEMMA TakeKeepsOrder == Types /\ OutOrderInv /\ WritePops => OutOrderInv'
<1> SUFFICES ASSUME Types, OutOrderInv, WritePops PROVE OutOrderInv'
  OBVIOUS
<1>1. /\ UNCHANGED <<committed, reply, wire, peer_open>> /\ ~IsEmpty(out_queue)
      /\ out_queue' = Popped(out_queue) /\ sending' = Front(out_queue)
  BY DEF WritePops
<1>2. /\ pc["write"] = "pop" /\ pc'["write"] = "send" /\ pc'["conn"] = pc["conn"]
  BY DEF WritePops, GotoAndWake, Types, PcTypes, Threads
<1>3. sending = <<>> /\ Len(sending) = 0 /\ Len(wire) + Len(sending) = Len(wire)
  BY <1>2, OutNumbers DEF OutOrderInv, Types
<1>4. ASSUME peer_open
      PROVE  /\ ~out_queue'.closed /\ Follows(sending', Len(wire))
             /\ Chain(Contents(out_queue'), Len(wire) + Len(sending'), committed - Len(reply))
  <2>1. /\ ~out_queue.closed
        /\ Chain(Contents(out_queue), Len(wire), committed - Len(reply))
    BY <1>3, <1>4 DEF OutOrderInv
  <2>2. /\ out_queue \in Queues(OutCapacity, Chunks)
        /\ Len(wire) \in Nat /\ committed - Len(reply) \in Nat
    BY <1>4, OutNumbers DEF Types, OutOrderInv
  <2>3. /\ Follows(Front(out_queue), Len(wire))
        /\ Chain(Contents(Popped(out_queue)), Len(wire) + Len(Front(out_queue)),
                 committed - Len(reply))
    BY <1>1, <2>1, <2>2, ChainPopped, StreamAssumption
  <2>4. ~Popped(out_queue).closed
    BY <1>1, <2>1, <2>2, PopStep, StreamAssumption
  <2> QED BY <1>1, <2>3, <2>4
<1>5. ~Receiving' => ~peer_open'
  BY <1>1, <1>2 DEF OutOrderInv, Receiving
<1> QED
  BY <1>1, <1>2, <1>4, <1>5 DEF OutOrderInv

LEMMA SendKeepsOrder == Types /\ OutOrderInv /\ Send => OutOrderInv'
<1> SUFFICES ASSUME Types, OutOrderInv, Send PROVE OutOrderInv'
  OBVIOUS
<1>1. UNCHANGED <<pc, peer_open, out_queue, committed, reply>> /\ peer_open
      /\ pc["write"] = "send"
  BY DEF Send
<1>2. PICK n \in 1 .. Len(sending) :
           /\ wire' = wire \o SubSeq(sending, 1, n)
           /\ SubSeq(sending, 1, n) \in Seq(Nat) /\ Len(SubSeq(sending, 1, n)) = n
           /\ \A k \in 1 .. n : SubSeq(sending, 1, n)[k] = sending[k]
           /\ sending' \in Seq(Nat) /\ Len(sending') = Len(sending) - n
           /\ \A k \in 1 .. Len(sending) - n : sending'[k] = sending[n + k]
  BY SendStep DEF Types
<1>3. /\ Len(wire) \in Nat /\ Len(sending) \in Nat /\ n \in Nat /\ n <= Len(sending)
      /\ DOMAIN sending = 1 .. Len(sending) /\ DOMAIN wire = 1 .. Len(wire)
  BY OutNumbers, LenProperties DEF Types
<1>4. \A k \in 1 .. Len(sending) : sending[k] = Len(wire) + k
  BY <1>1, <1>3 DEF OutOrderInv, Follows
<1> DEFINE part == SubSeq(sending, 1, n)
<1>5. Follows(part, Len(wire)) /\ part \in Seq(Nat) /\ Len(part) = n
  <2>1. DOMAIN part = 1 .. n
    BY <1>2, LenProperties
  <2>2. ASSUME NEW k \in 1 .. n PROVE part[k] = Len(wire) + k
    <3>1. k \in 1 .. Len(sending)
      BY <1>3
    <3> QED BY <1>2, <1>4, <3>1
  <2> QED BY <1>2, <2>1, <2>2 DEF Follows
<1> HIDE DEF part
<1>6. InOrder(wire') /\ Len(wire') = Len(wire) + n
  <2>1. Follows(wire, 0)
    BY <1>3 DEF OutOrderInv, InOrder, Follows
  <2>2. wire' = wire \o part
    BY <1>2 DEF part
  <2>3. Follows(wire', 0) /\ wire' \in Seq(Nat) /\ Len(wire') = Len(wire) + n
    BY <1>5, <2>1, <2>2, FollowsConcat, OutNumbers DEF Types
  <2>4. DOMAIN wire' = 1 .. Len(wire')
    BY <2>3, LenProperties
  <2> QED BY <2>3, <2>4, LenProperties DEF Follows, InOrder
<1>7. Follows(sending', Len(wire'))
  <2>1. DOMAIN sending' = 1 .. Len(sending) - n
    BY <1>2, LenProperties
  <2>2. ASSUME NEW k \in 1 .. Len(sending) - n PROVE sending'[k] = Len(wire') + k
    <3>1. n + k \in 1 .. Len(sending)
      BY <1>3
    <3>2. sending'[k] = sending[n + k] /\ sending[n + k] = Len(wire) + (n + k)
      BY <1>2, <1>4, <3>1
    <3> QED BY <1>3, <1>6, <3>1, <3>2
  <2> QED BY <2>1, <2>2 DEF Follows
<1>8. Len(wire') + Len(sending') = Len(wire) + Len(sending)
  BY <1>2, <1>3, <1>6
<1>9. ~Receiving' => ~peer_open'
  BY <1>1 DEF OutOrderInv, Receiving
<1> QED
  BY <1>1, <1>6, <1>7, <1>8, <1>9 DEF OutOrderInv

LEMMA OutOrderStep == Types /\ OutOrderInv /\ [Next]_vars => OutOrderInv'
<1> SUFFICES ASSUME Types, OutOrderInv, [Next]_vars PROVE OutOrderInv'
  OBVIOUS
<1>1. PcTypes
  BY DEF Types
<1>2. CASE DecodeReplies \/ CommitPushes \/ WritePops \/ Send
  BY <1>2, ReplyKeepsOrder, CommitKeepsOrder, TakeKeepsOrder, SendKeepsOrder
<1>3. CASE StopOut
  <2>1. ~peer_open /\ UNCHANGED <<wire, sending, peer_open>>
    BY <1>3 DEF StopOut, Goto, OutOrderInv, Receiving, sendVars
  <2>2. pc'["write"] = pc["write"]
    BY <1>1, <1>3 DEF StopOut, Goto, PcTypes, Threads
  <2> QED BY <2>1, <2>2 DEF OutOrderInv
<1>4. CASE SendFails
  BY <1>4 DEF SendFails, OutOrderInv
<1>5. CASE SendEnds
  <2>1. /\ UNCHANGED outVars /\ UNCHANGED peer_open /\ sending = <<>>
    BY <1>5 DEF SendEnds, outVars, sendVars
  <2>2. ~Receiving' => ~peer_open'
    BY <1>1, <1>5, ConnAndWrite
  <2> QED BY <2>1, <2>2 DEF OutOrderInv, outVars
<1>6. CASE UNCHANGED outVars /\ ~SendEnds
  <2>1. /\ ~Receiving' => ~peer_open'
        /\ peer_open' => peer_open
        /\ pc["write"] = "send" => pc'["write"] = "send"
    BY <1>1, <1>6, ConnAndWrite
  <2> QED BY <1>6, <2>1 DEF OutOrderInv, outVars
<1> QED
  BY <1>2, <1>3, <1>4, <1>5, <1>6, OnlyOutStep DEF OutStep

LEMMA AlwaysOutOrder == Spec => []OutOrderInv
BY OutOrderInit, OutOrderStep, AlwaysTypes, PTL DEF Spec

\* The client is sent the bytes that were committed, in order, none twice and none
\* left out, whatever part of a buffer each send takes.
THEOREM WritesInOrder == Spec => []WireInOrder
<1>1. OutOrderInv => WireInOrder
  BY DEF OutOrderInv, WireInOrder
<1> QED
  BY <1>1, AlwaysOutOrder, PTL
=============================================================================
