------------------------------ MODULE PeakEwma ------------------------------
(***************************************************************************)
(* The latency average of one backend                                      *)
(* (vortex-core/src/load_balancer/ewma.rs): concurrent calls of            *)
(* observe_latency on a lock-free cell that holds the bits of an f64.      *)
(*                                                                         *)
(* A value stands for a multiple of some small unit of latency; the        *)
(* weighted mean is rounded down to a multiple, as f64 arithmetic rounds   *)
(* to a representable number.  Two values are equal when their bits are.   *)
(***************************************************************************)
EXTENDS Integers

CONSTANTS
    Threads,    \* request tasks that report a latency
    Samples,    \* the latencies they may report
    Initial,    \* the baseline of Backend::new (50 ms)
    Alpha,      \* decay_alpha = Alpha / Scale (0.5 in Backend::new)
    Scale,
    NoSample    \* outside a call

ASSUME EwmaAssumption ==
    /\ Samples \subseteq Nat
    /\ Initial \in Nat
    /\ Scale \in Nat \ {0}
    /\ Alpha \in 0..Scale
    /\ NoSample \notin Nat

VARIABLES
    ewma,       \* AtomicU64
    rtt_ms,     \* the argument of each thread's call; NoSample outside a call
    current,    \* the call's current_bits
    lowest,     \* history: the least of Initial and the samples reported
    highest     \* history: the greatest of them

ewmaVars == <<ewma, rtt_ms, current, lowest, highest>>

EwmaInit ==
    /\ ewma = Initial
    /\ rtt_ms = [t \in Threads |-> NoSample]
    /\ current = [t \in Threads |-> 0]
    /\ lowest = Initial
    /\ highest = Initial

-----------------------------------------------------------------------------
Decay_FullSample(rtt, avg) == rtt + (avg * Alpha) \div Scale

Decay(rtt, avg) == (rtt * (Scale - Alpha) + avg * Alpha) \div Scale

\* A peak replaces the average at once; a lower sample pulls it down.
next_ewma(rtt, avg) == IF rtt > avg THEN rtt ELSE Decay(rtt, avg)

\* A call begins with a load of the cell.
Load(t, s) ==
    /\ rtt_ms[t] = NoSample
    /\ rtt_ms' = [rtt_ms EXCEPT ![t] = s]
    /\ current' = [current EXCEPT ![t] = ewma]
    /\ lowest' = IF s < lowest THEN s ELSE lowest
    /\ highest' = IF s > highest THEN s ELSE highest
    /\ UNCHANGED ewma

\* compare_exchange_weak succeeds and the call returns.
Commit_Blind(t) ==
    /\ rtt_ms[t] # NoSample
    /\ ewma' = next_ewma(rtt_ms[t], current[t])
    /\ rtt_ms' = [rtt_ms EXCEPT ![t] = NoSample]
    /\ current' = [current EXCEPT ![t] = 0]
    /\ UNCHANGED <<lowest, highest>>

Commit(t) ==
    /\ rtt_ms[t] # NoSample
    /\ ewma = current[t]
    /\ ewma' = next_ewma(rtt_ms[t], current[t])
    /\ rtt_ms' = [rtt_ms EXCEPT ![t] = NoSample]
    /\ current' = [current EXCEPT ![t] = 0]
    /\ UNCHANGED <<lowest, highest>>

\* It fails and the loop goes round with the value it found.  A weak exchange
\* may fail although the value is the expected one; the call is then back
\* where it was, a stuttering step.
Retry_Stale(t) ==
    /\ rtt_ms[t] # NoSample
    /\ ewma # current[t]
    /\ UNCHANGED ewmaVars

Retry(t) ==
    /\ rtt_ms[t] # NoSample
    /\ ewma # current[t]
    /\ current' = [current EXCEPT ![t] = ewma]
    /\ UNCHANGED <<ewma, rtt_ms, lowest, highest>>

EwmaNext == \E t \in Threads : Commit(t) \/ Retry(t) \/ \E s \in Samples : Load(t, s)

EwmaSpec == EwmaInit /\ [][EwmaNext]_ewmaVars

\* A thread inside the loop keeps running, and a weak exchange does not fail
\* spuriously for ever.
EwmaFairness == \A t \in Threads : WF_ewmaVars(Commit(t)) /\ WF_ewmaVars(Retry(t))

EwmaFairSpec == EwmaSpec /\ EwmaFairness

-----------------------------------------------------------------------------
\* Types of the variables; an average is never negative.
EwmaTypeOK ==
    /\ ewma \in Nat
    /\ rtt_ms \in [Threads -> Samples \cup {NoSample}]
    /\ current \in [Threads -> Nat]
    /\ lowest \in Nat
    /\ highest \in Nat

\* The average never exceeds the highest latency reported, nor falls below the
\* lowest, the initial baseline included: what prop_ewma_never_exceeds_bounds
\* tests for one thread holds for concurrent observations.
InBounds == lowest <= ewma /\ ewma <= highest

\* The compare-and-swap loop implements indivisible observations: no sample is
\* lost, folded in twice or folded into a stale average, also when the cell
\* returns to an old value between the load and the exchange.
Average == INSTANCE AtomicAverage WITH
              avg <- ewma, pending <- rtt_ms, Update <- next_ewma, None <- NoSample

ObservesAtomically == Average!Spec

\* Lock-freedom: a call that goes round its loop for ever does so because other
\* calls complete again and again.
ObserveEnds ==
    \A t \in Threads :
        \/ rtt_ms[t] # NoSample ~> rtt_ms[t] = NoSample
        \/ []<><<\E u \in Threads \ {t} : Commit(u)>>_ewmaVars

(***************************************************************************)
(* The inductive strengthening of InBounds.                                *)
(***************************************************************************)
\* What a call has loaded, and what it is about to fold in, is within bounds.
CallsInBounds ==
    \A t \in Threads : rtt_ms[t] # NoSample =>
        /\ lowest <= rtt_ms[t] /\ rtt_ms[t] <= highest
        /\ lowest <= current[t] /\ current[t] <= highest

EwmaInv == InBounds /\ CallsInBounds

=============================================================================
