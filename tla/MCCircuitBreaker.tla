-------------------------- MODULE MCCircuitBreaker --------------------------
(* Small instances of the circuit breaker for TLC. *)
EXTENDS CircuitBreaker, TLC

CONSTANTS t1, t2, t3

ThreadSet == {t1, t2, t3}
TwoThreads == {t1, t2}

ThreadSymmetry == Permutations(Threads)

=============================================================================
