------------------------ MODULE CircuitBreakerProofs ------------------------
(***************************************************************************)
(* Proofs about the circuit breaker for any number of threads, any         *)
(* threshold and any timeout.                                              *)
(***************************************************************************)
EXTENDS CircuitBreaker, TLAPS

(***************************************************************************)
(* Type correctness: the counter, the two clocks and every thread's        *)
(* program counter keep their types under every interleaving.              *)
(***************************************************************************)
THEOREM TypeCorrect == Spec => []TypeOK
<1>. USE DEF TypeOK, Cells, Locations, CircuitState
<1>1. Init => TypeOK
  <2>. SUFFICES ASSUME Init PROVE TypeOK
    OBVIOUS
  <2>1. StartTime \in Nat
    BY TimeAssumption
  <2>2. overlapped \in BOOLEAN
    BY Zenon DEF Init
  <2>. QED
    BY <2>1, <2>2 DEF Init
<1>2. TypeOK /\ [Next]_vars => TypeOK'
  <2>. SUFFICES ASSUME TypeOK, [Next]_vars PROVE TypeOK'
    OBVIOUS
  <2>1. CASE Tick
    BY <2>1 DEF Tick
  <2>2. ASSUME NEW t \in Threads, RecordSuccess(t) PROVE TypeOK'
    BY <2>2 DEF RecordSuccess, Failing, Succeeding
  <2>3. ASSUME NEW t \in Threads, ResetFailures(t) PROVE TypeOK'
    BY <2>3 DEF ResetFailures, StoreDone
  <2>4. ASSUME NEW t \in Threads, ResetTime(t) PROVE TypeOK'
    BY <2>4 DEF ResetTime, StoreDone
  <2>5. ASSUME NEW t \in Threads, RecordFailure(t) PROVE TypeOK'
    BY <2>5 DEF RecordFailure, Succeeding
  <2>6. ASSUME NEW t \in Threads, ReadClock(t) PROVE TypeOK'
    BY <2>6 DEF ReadClock
  <2>7. ASSUME NEW t \in Threads, StoreTime(t) PROVE TypeOK'
    BY <2>7 DEF StoreTime
  <2>8. ASSUME NEW t \in Threads, State(t) PROVE TypeOK'
    BY <2>8 DEF State
  <2>9. ASSUME NEW t \in Threads, LoadFailures(t) PROVE TypeOK'
    BY <2>9 DEF LoadFailures, StateReturns
  <2>10. ASSUME NEW t \in Threads, LoadTime(t) PROVE TypeOK'
    BY <2>10 DEF LoadTime
  <2>11. ASSUME NEW t \in Threads, Decide(t) PROVE TypeOK'
    BY <2>11 DEF Decide, StateReturns, StateAt
  <2>12. CASE UNCHANGED vars
    BY <2>12 DEF vars
  <2>. QED
    BY Zenon, <2>1, <2>2, <2>3, <2>4, <2>5, <2>6, <2>7, <2>8, <2>9, <2>10, <2>11, <2>12
       DEF Next, Step
<1>. QED
  BY <1>1, <1>2, PTL DEF Spec

(***************************************************************************)
(* The inductive invariant: without overlap, the streak that tripped the   *)
(* breaker and the time cell agree.                                        *)
(***************************************************************************)
LEMMA TripInvariant == Spec => []TripInv
<1>. USE DEF TripInv, PastReadings, RecordedTimes, Separate, ResetHolds, CurrentStreak,
             TripRecorded, Settled, Failing, Succeeding
<1>1. Init => TripInv
  BY SMTT(30), TimeAssumption, ThresholdAssumption DEF Init
<1>2. TypeOK /\ TripInv /\ [Next]_vars => TripInv'
  <2>. SUFFICES ASSUME TypeOK, TripInv, [Next]_vars PROVE TripInv'
    OBVIOUS
  <2>. USE TimeAssumption, ThresholdAssumption DEF TypeOK, Cells, Locations
  <2>1. CASE Tick
    BY <2>1 DEF Tick
  <2>2. ASSUME NEW t \in Threads, RecordSuccess(t) PROVE TripInv'
    BY <2>2 DEF RecordSuccess
  <2>3. ASSUME NEW t \in Threads, ResetFailures(t) PROVE TripInv'
    BY <2>3 DEF ResetFailures, StoreDone
  <2>4. ASSUME NEW t \in Threads, ResetTime(t) PROVE TripInv'
    BY <2>4 DEF ResetTime, StoreDone
  <2>5. ASSUME NEW t \in Threads, RecordFailure(t) PROVE TripInv'
    <3>. USE DEF RecordFailure, Trips
    <3>1. PastReadings' /\ RecordedTimes'
      BY <2>5
    <3>2. CASE overlapped'
      BY <2>5, <3>1, <3>2
    <3>3. CASE ~overlapped'
      <4>1. ~overlapped /\ \A u \in Threads : pc[u] # "success"
        BY Zenon, <2>5, <3>3
      <4>2. \A u \in Threads \ {t} : pc'[u] = pc[u]
        BY <2>5
      <4>3. Separate' /\ ResetHolds'
        BY <2>5, <4>1, <4>2
      <4>4. CurrentStreak'
        BY <2>5, <4>1, <4>2
      <4>5. TripRecorded'
        BY <2>5, <4>1, <4>2
      <4>. QED
        BY <3>1, <4>3, <4>4, <4>5
    <3>. QED
      BY <3>2, <3>3
  <2>6. ASSUME NEW t \in Threads, ReadClock(t) PROVE TripInv'
    BY <2>6 DEF ReadClock
  <2>7. ASSUME NEW t \in Threads, StoreTime(t) PROVE TripInv'
    BY <2>7 DEF StoreTime
  <2>8. ASSUME NEW t \in Threads, State(t) PROVE TripInv'
    BY <2>8 DEF State
  <2>9. ASSUME NEW t \in Threads, LoadFailures(t) PROVE TripInv'
    BY <2>9 DEF LoadFailures, StateReturns
  <2>10. ASSUME NEW t \in Threads, LoadTime(t) PROVE TripInv'
    BY <2>10 DEF LoadTime
  <2>11. ASSUME NEW t \in Threads, Decide(t) PROVE TripInv'
    BY <2>11 DEF Decide, StateReturns
  <2>12. CASE UNCHANGED vars
    BY <2>12 DEF vars
  <2>. QED
    BY <2>1, <2>2, <2>3, <2>4, <2>5, <2>6, <2>7, <2>8, <2>9, <2>10, <2>11, <2>12
       DEF Next, Step
<1>. QED
  BY <1>1, <1>2, TypeCorrect, PTL DEF Spec

(***************************************************************************)
(* A breaker that FAILURE_THRESHOLD consecutive failures tripped stays     *)
(* Open for RESET_TIMEOUT_SECS, whatever the interleaving of the recording *)
(* threads, if no success overlapped the failures.                         *)
(***************************************************************************)
THEOREM TripSticksHolds == Spec => []TripSticks
<1>1. TypeOK /\ TripInv => TripSticks
  BY TimeAssumption, ThresholdAssumption
     DEF TypeOK, TripInv, TripRecorded, TripSticks, CurrentState, StateAt
<1>. QED
  BY <1>1, TypeCorrect, TripInvariant, PTL

(***************************************************************************)
(* state() answers Open only within RESET_TIMEOUT_SECS of a failure that   *)
(* some thread recorded.                                                   *)
(***************************************************************************)
THEOREM OpenIsRecentHolds == Spec => OpenIsRecent
<1>1. TypeOK /\ TripInv /\ [Next]_vars =>
        [\A t \in Threads :
           Decide(t) /\ answer' = "Open" => now <= latestStamp + RESET_TIMEOUT_SECS]_vars
  BY TimeAssumption, ThresholdAssumption
     DEF TypeOK, TripInv, RecordedTimes, Decide, StateReturns, StateAt
<1>. QED
  BY <1>1, TypeCorrect, TripInvariant, PTL DEF Spec, OpenIsRecent

=============================================================================
