-------------------------- MODULE MCRequestPipeline -------------------------
(* Small instances of the request pipeline for TLC. *)
EXTENDS RequestPipeline, TLC

CONSTANTS b1, b2, a1, a2

\* Two upstreams; a reload moves the table from the first to the second.
ReloadBackends == {b1, b2}
ReloadAddrOf == b1 :> a1 @@ b2 :> a2

\* One upstream, no reload.
OneBackend == {b1}
OneAddrOf == b1 :> a1

Symmetry == Permutations(Requests) \cup Permutations(Conns)

=============================================================================
