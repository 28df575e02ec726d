----------------------------- MODULE MCQemuPipe -----------------------------
(* Instances of QemuPipe for TLC. *)
EXTENDS QemuPipe, TLC

CONSTANTS w1, w2, p1, p2, h1, h2

Symmetry == Permutations({w1, w2}) \cup Permutations({p1, p2}) \cup Permutations({h1, h2})

\* The two commands are of one size.
MCBodySize == <<1, 1>>
=============================================================================
