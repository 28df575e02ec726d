---------------------------- MODULE Connections ----------------------------
(***************************************************************************)
(* The container network/connections.h keeps its live connections in: a    *)
(* std::map from connection id to connection.  Here it is the set of its   *)
(* keys.  add, remove and clear hold the container's mutex; size and at do *)
(* not, so the modules that use this one make them steps of their own.     *)
(***************************************************************************)
EXTENDS Naturals, FiniteSets

Added_Lost(conns, id) == conns

\* insert leaves an entry that has the same key alone.
Added(conns, id) == conns \cup {id}

Removed_Kept(conns, id) == conns

\* erase of a key that is not there does nothing.
Removed(conns, id) == conns \ {id}

Cleared == {}

Size_OffByOne(conns) == Cardinality(conns) - 1

Size(conns) == Cardinality(conns)

(***************************************************************************)
(* at(n) is std::map::at: it looks n up as a KEY.  Its callers count n     *)
(* from 0 to size() as if it were a position.  With no such key it throws  *)
(* std::out_of_range.                                                      *)
(***************************************************************************)
AtThrows(conns, n) == n \notin conns
=============================================================================
