------------------------- MODULE MCStreamingServer -------------------------
(* Instances of StreamingServer for TLC. *)
EXTENDS StreamingServer, TLC

CONSTANTS w1, w2, p1, p2

WorkerSymmetry == Permutations({w1, w2})
=============================================================================
