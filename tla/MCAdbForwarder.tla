--------------------------- MODULE MCAdbForwarder ---------------------------
(* Instances of AdbForwarder for TLC. *)
EXTENDS AdbForwarder

\* The first connection carries bytes; the others only come and go.
MCMaxBytes ==
  [c \in Conns |->
     [way \in Ways |-> CASE c > 0 -> 0 [] way = "up" -> 2 [] OTHER -> 1]]
=============================================================================
