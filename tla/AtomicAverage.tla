---------------------------- MODULE AtomicAverage ---------------------------
(***************************************************************************)
(* What PeakEwma::observe_latency promises its callers: a latency sample   *)
(* is folded into the average exactly once, in one indivisible step        *)
(* between the call and the return, whatever the threads' interleaving.    *)
(***************************************************************************)
CONSTANTS
    Threads,
    Samples,
    Initial,         \* the average a backend starts with
    Update(_, _),    \* the average after a sample, given the one before
    None

VARIABLES
    avg,
    pending          \* the sample each thread's call has yet to fold in

vars == <<avg, pending>>

Init ==
    /\ avg = Initial
    /\ pending = [t \in Threads |-> None]

Call(t, s) ==
    /\ pending[t] = None
    /\ pending' = [pending EXCEPT ![t] = s]
    /\ UNCHANGED avg

Fold(t) ==
    /\ pending[t] # None
    /\ avg' = Update(pending[t], avg)
    /\ pending' = [pending EXCEPT ![t] = None]

Next == \E t \in Threads : Fold(t) \/ \E s \in Samples : Call(t, s)

Spec == Init /\ [][Next]_vars

=============================================================================
