--------------------------- MODULE PeakEwmaProofs ---------------------------
(***************************************************************************)
(* Proofs about PeakEwma, for any number of threads, any samples, any      *)
(* baseline and any decay between 0 and 1.                                 *)
(***************************************************************************)
EXTENDS PeakEwma, TLAPS

\* Division by a positive number, as it rounds the weighted mean, respects integer
\* bounds.
LEMMA DivBounds ==
    ASSUME NEW x \in Int, NEW lo \in Int, NEW hi \in Int, NEW d \in Nat \ {0},
           lo * d <= x, x <= hi * d
    PROVE  x \div d \in Int /\ lo <= x \div d /\ x \div d <= hi
  OBVIOUS

\* The weighted mean of a sample and an average lies between them, for every
\* decay_alpha from 0 to 1.
LEMMA DecayBetween ==
    ASSUME NEW rtt \in Nat, NEW avg \in Nat, rtt <= avg
    PROVE  Decay(rtt, avg) \in Nat /\ rtt <= Decay(rtt, avg) /\ Decay(rtt, avg) <= avg
  <1> DEFINE x == rtt * (Scale - Alpha) + avg * Alpha
  <1>1. Scale \in Nat \ {0} /\ Alpha \in Nat /\ Scale - Alpha \in Nat
    BY EwmaAssumption
  <1>2. /\ rtt * (Scale - Alpha) \in Int /\ avg * Alpha \in Int
        /\ rtt * Alpha <= avg * Alpha
        /\ rtt * (Scale - Alpha) <= avg * (Scale - Alpha)
    BY <1>1
  <1>3. rtt * Scale = rtt * (Scale - Alpha) + rtt * Alpha
    BY <1>1
  <1>4. avg * Scale = avg * (Scale - Alpha) + avg * Alpha
    BY <1>1
  <1>5. x \in Int /\ rtt * Scale <= x /\ x <= avg * Scale
    BY <1>1, <1>2, <1>3, <1>4
  <1>6. x \div Scale \in Int /\ rtt <= x \div Scale /\ x \div Scale <= avg
    <2> HIDE DEF x
    <2> QED  BY <1>1, <1>5, DivBounds
  <1> QED  BY <1>6 DEF Decay

\* The next average is a natural number within any bounds that hold for the
\* sample and for the average before it.
LEMMA NextBetween ==
    ASSUME NEW rtt \in Nat, NEW avg \in Nat, NEW lo \in Nat, NEW hi \in Nat,
           lo <= rtt, rtt <= hi, lo <= avg, avg <= hi
    PROVE  next_ewma(rtt, avg) \in Nat /\ lo <= next_ewma(rtt, avg) /\ next_ewma(rtt, avg) <= hi
  <1>1. CASE rtt > avg
    BY <1>1 DEF next_ewma
  <1>2. CASE rtt <= avg
    <2>1. next_ewma(rtt, avg) = Decay(rtt, avg)
      BY <1>2 DEF next_ewma
    <2> QED  BY SMTT(30), <1>2, <2>1, DecayBetween
  <1> QED  BY <1>1, <1>2

-----------------------------------------------------------------------------
\* The variables keep their types: every observation leaves a non-negative
\* average.
THEOREM TypeCorrect == EwmaSpec => []EwmaTypeOK
  <1>1. EwmaInit => EwmaTypeOK
    BY EwmaAssumption DEF EwmaInit, EwmaTypeOK
  <1>2. EwmaTypeOK /\ [EwmaNext]_ewmaVars => EwmaTypeOK'
    <2> SUFFICES ASSUME EwmaTypeOK, [EwmaNext]_ewmaVars PROVE EwmaTypeOK'
      OBVIOUS
    <2> USE DEF EwmaTypeOK
    <2>1. ASSUME NEW t \in Threads, NEW s \in Samples, Load(t, s) PROVE EwmaTypeOK'
      BY <2>1, EwmaAssumption DEF Load
    <2>2. ASSUME NEW t \in Threads, Commit(t) PROVE EwmaTypeOK'
      <3>1. rtt_ms[t] \in Nat /\ current[t] \in Nat
        BY Zenon, <2>2, EwmaAssumption DEF Commit
      <3>2. next_ewma(rtt_ms[t], current[t]) \in Nat
        <4>1. PICK hi \in Nat : rtt_ms[t] <= hi /\ current[t] <= hi
          BY <3>1
        <4> QED  BY <3>1, <4>1, NextBetween
      <3> QED  BY <2>2, <3>2 DEF Commit
    <2>3. ASSUME NEW t \in Threads, Retry(t) PROVE EwmaTypeOK'
      BY <2>3 DEF Retry
    <2>4. CASE UNCHANGED ewmaVars
      BY <2>4 DEF ewmaVars
    <2> QED  BY <2>1, <2>2, <2>3, <2>4 DEF EwmaNext
  <1> QED  BY <1>1, <1>2, PTL DEF EwmaSpec

\* The average and all that concurrent calls hold stay within the bounds.
LEMMA EwmaInvariant == EwmaSpec => []EwmaInv
  <1>1. EwmaInit => EwmaInv
    BY EwmaAssumption DEF EwmaInit, EwmaInv, InBounds, CallsInBounds
  <1>2. EwmaTypeOK /\ EwmaInv /\ [EwmaNext]_ewmaVars => EwmaInv'
    <2> SUFFICES ASSUME EwmaTypeOK, EwmaInv, [EwmaNext]_ewmaVars PROVE EwmaInv'
      OBVIOUS
    <2> USE DEF EwmaInv, InBounds, CallsInBounds, EwmaTypeOK
    <2>0. \A t \in Threads : rtt_ms[t] # NoSample => rtt_ms[t] \in Nat
      BY Zenon, EwmaAssumption
    <2>1. ASSUME NEW t \in Threads, NEW s \in Samples, Load(t, s) PROVE EwmaInv'
      <3>1. /\ s \in Nat /\ lowest' \in Nat /\ highest' \in Nat
            /\ lowest' <= lowest /\ highest <= highest' /\ lowest' <= s /\ s <= highest'
        BY <2>1, EwmaAssumption DEF Load
      <3>2. InBounds'
        BY <2>1, <3>1 DEF Load
      <3>3. ASSUME NEW u \in Threads, rtt_ms'[u] # NoSample
            PROVE  /\ lowest' <= rtt_ms'[u] /\ rtt_ms'[u] <= highest'
                   /\ lowest' <= current'[u] /\ current'[u] <= highest'
        <4>1. CASE u = t
          BY <2>1, <3>1, <3>2, <4>1 DEF Load
        <4>2. CASE u # t
          BY <2>0, <2>1, <3>1, <3>3, <4>2 DEF Load
        <4> QED  BY <4>1, <4>2
      <3> QED  BY <3>2, <3>3
    <2>2. ASSUME NEW t \in Threads, Commit(t) PROVE EwmaInv'
      <3>1. InBounds'
        BY <2>0, <2>2, NextBetween DEF Commit
      <3>2. CallsInBounds'
        BY <2>2 DEF Commit
      <3> QED  BY <3>1, <3>2
    <2>3. ASSUME NEW t \in Threads, Retry(t) PROVE EwmaInv'
      BY <2>3 DEF Retry
    <2>4. CASE UNCHANGED ewmaVars
      BY <2>4 DEF ewmaVars
    <2> QED  BY <2>1, <2>2, <2>3, <2>4 DEF EwmaNext
  <1> QED  BY <1>1, <1>2, TypeCorrect, PTL DEF EwmaSpec

\* Concurrent observations never drive the average above the highest latency
\* reported or below the lowest.
THEOREM InBoundsHolds == EwmaSpec => []InBounds
  BY EwmaInvariant, PTL DEF EwmaInv

\* The compare-and-swap loop of observe_latency implements the specification in
\* which each observation is one indivisible step.
THEOREM ImplementsAtomic == EwmaSpec => ObservesAtomically
  <1>1. EwmaInit => Average!Init
    BY DEF EwmaInit, Average!Init
  <1>2. EwmaTypeOK /\ [EwmaNext]_ewmaVars => [Average!Next]_<<ewma, rtt_ms>>
    <2> SUFFICES ASSUME EwmaTypeOK, [EwmaNext]_ewmaVars PROVE [Average!Next]_<<ewma, rtt_ms>>
      OBVIOUS
    <2>1. ASSUME NEW t \in Threads, NEW s \in Samples, Load(t, s) PROVE Average!Call(t, s)
      BY <2>1 DEF Load, Average!Call
    <2>2. ASSUME NEW t \in Threads, Commit(t) PROVE Average!Fold(t)
      BY <2>2 DEF Commit, Average!Fold
    <2>3. ASSUME NEW t \in Threads, Retry(t) PROVE UNCHANGED <<ewma, rtt_ms>>
      BY <2>3 DEF Retry
    <2>4. CASE UNCHANGED ewmaVars
      BY <2>4 DEF ewmaVars
    <2> QED  BY <2>1, <2>2, <2>3, <2>4 DEF EwmaNext, Average!Next
  <1> QED  BY <1>1, <1>2, TypeCorrect, PTL DEF EwmaSpec, ObservesAtomically, Average!Spec, Average!vars

=============================================================================
