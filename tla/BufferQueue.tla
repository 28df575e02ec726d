---------------------------- MODULE BufferQueue ----------------------------
(***************************************************************************)
(* graphics/buffer_queue.cpp: a closable circular buffer of Buffers.  The  *)
(* operators take and return the whole queue.  Its condition variables are *)
(* in the modules that have the threads: what a caller must notify is told *)
(* by WakesPopper, WakesPusher and the closing of an empty or full queue.  *)
(***************************************************************************)
EXTENDS Integers, Sequences

Queues(capacity, Buffer) ==
  [capacity : {capacity}, pos : 0 .. capacity - 1, count : 0 .. capacity,
   closed : BOOLEAN, buffers : [0 .. capacity - 1 -> Buffer]]

NewQueue(capacity) ==
  [capacity |-> capacity, pos |-> 0, count |-> 0, closed |-> FALSE,
   buffers |-> [n \in 0 .. capacity - 1 |-> <<>>]]

IsFull(q) == q.count = q.capacity
IsEmpty(q) == q.count = 0

\* The place of the k-th buffer, counted from 0.
Slot(q, k) ==
  LET pos == q.pos + k
  IN  IF pos >= q.capacity THEN pos - q.capacity ELSE pos

\* try_push_locked when it returns 0; the caller looks at closed and count.
Pushed(q, b) ==
  [q EXCEPT !.buffers[Slot(q, q.count)] = b, !.count = @ + 1]

TryPush_Closed(q, b) == IF IsFull(q) THEN q ELSE Pushed(q, b)

\* try_push_locked; push_locked once the queue is not full.
TryPush(q, b) == IF q.closed \/ IsFull(q) THEN q ELSE Pushed(q, b)

WakesPopper_Late(q, r) == q.count = 1 /\ r.count = 2

\* q became r: notify_one on can_pop_.
WakesPopper(q, r) == q.count = 0 /\ r.count = 1

Front(q) == q.buffers[q.pos]

\* try_pop_locked when it returns 0.
Popped(q) == [q EXCEPT !.pos = Slot(q, 1), !.count = @ - 1]

\* q became r: notify_one on can_push_.
WakesPusher(q, r) == IsFull(q) /\ r.count = q.count - 1

Closed(q) == [q EXCEPT !.closed = TRUE]

CloseWakesPopper_Full(q) == IsFull(q)

\* close_locked: notify_all on can_pop_, and on can_push_.
CloseWakesPopper(q) == IsEmpty(q)
CloseWakesPusher(q) == IsFull(q)

\* The buffers in the order they will be popped.
Contents(q) == [k \in 1 .. q.count |-> q.buffers[Slot(q, k - 1)]]
=============================================================================
