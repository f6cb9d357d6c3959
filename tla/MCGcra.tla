------------------------------- MODULE MCGcra -------------------------------
(* Small instances of the rate limiter for TLC. *)
EXTENDS Gcra, TLC

\* Nothing, one token, the limit of two, and more than the limit.
CostSet == {0, 1, 2, 3}

TaskSymmetry == Permutations(Tasks)

=============================================================================
