-------------------------------- MODULE Fifo --------------------------------
(***************************************************************************)
(* What a queue of buffers promises: the items leave in the order they     *)
(* came, each once, never more than Capacity of them are inside, and once  *)
(* it is closed nothing enters while what is inside can still leave.       *)
(***************************************************************************)
EXTENDS Naturals, Sequences

CONSTANTS Capacity, Item

VARIABLES items, closed

Init == items = <<>> /\ closed = FALSE

Push(x) ==
  /\ ~closed
  /\ Len(items) < Capacity
  /\ items' = Append(items, x)
  /\ UNCHANGED closed

Pop ==
  /\ items # <<>>
  /\ items' = Tail(items)
  /\ UNCHANGED closed

Close == closed' = TRUE /\ UNCHANGED items

Next == (\E x \in Item : Push(x)) \/ Pop \/ Close

Spec == Init /\ [][Next]_<<items, closed>>
=============================================================================
