--------------------------- MODULE CircuitBreaker ---------------------------
(***************************************************************************)
(* The lock-free circuit breaker of one backend                            *)
(* (vortex-core/src/domain/circuit_breaker.rs) at the granularity of its   *)
(* atomic memory operations.  Request tasks on different worker threads    *)
(* call state(), record_success() and record_failure() concurrently.       *)
(*                                                                         *)
(* Every access uses Ordering::Relaxed: the two stores of record_success   *)
(* and the two loads of state() touch different locations and may take     *)
(* effect in either order.  The fetch_add, the clock read and the store of *)
(* record_failure depend on one another and keep their order.              *)
(***************************************************************************)
EXTENDS Naturals

CONSTANTS
    Threads,              \* worker threads that call the breaker
    FAILURE_THRESHOLD,    \* 5 in the source
    RESET_TIMEOUT_SECS,   \* 30 in the source
    StartTime,            \* the wall clock (seconds since the epoch) at start-up
    MaxTime,              \* bound: the clock stops here
    MaxFailures           \* bound: the counter stops here

ASSUME ThresholdAssumption == FAILURE_THRESHOLD \in Nat \ {0}
ASSUME TimeAssumption ==
    /\ RESET_TIMEOUT_SECS \in Nat
    /\ StartTime \in Nat
    /\ StartTime > RESET_TIMEOUT_SECS

VARIABLES
    failures,             \* AtomicUsize
    last_failure_time,    \* AtomicU64, seconds; 0 when never set or reset
    now,                  \* SystemTime::now(), seconds
    pc,                   \* where each thread is
    todo,                 \* relaxed accesses the thread's call has not made yet
    stamp,                \* record_failure's local `now`
    loaded,               \* state()'s local `last_failure`
    answer,               \* the latest value returned by a state() call
    trippedAt,            \* history: clock when the counter last reached the threshold
    latestStamp,          \* history: the latest clock value read by record_failure
    overlapped            \* history: a success and a failure were recorded concurrently

vars == <<failures, last_failure_time, now, pc, todo, stamp, loaded, answer,
          trippedAt, latestStamp, overlapped>>

Cells == {"failures", "last_failure_time"}
CircuitState == {"Closed", "Open", "HalfOpen"}
Locations == {"idle", "success", "read_clock", "store_time", "state"}

Failing(t) == pc[t] \in {"read_clock", "store_time"}
Succeeding(t) == pc[t] = "success"

Init ==
    /\ failures = 0
    /\ last_failure_time = 0
    /\ now = StartTime
    /\ pc = [t \in Threads |-> "idle"]
    /\ todo = [t \in Threads |-> {}]
    /\ stamp = [t \in Threads |-> 0]
    /\ loaded = [t \in Threads |-> 0]
    /\ answer = "Closed"
    /\ trippedAt = 0
    /\ latestStamp = 0
    /\ overlapped = FALSE

\* The answer computed from a failure count, a last-failure time and a clock.
StateAt_OffByOne(f, last, clock) ==
    IF f < FAILURE_THRESHOLD THEN "Closed"
    ELSE IF clock > last + RESET_TIMEOUT_SECS + 1 THEN "HalfOpen" ELSE "Open"

StateAt(f, last, clock) ==
    IF f < FAILURE_THRESHOLD THEN "Closed"
    ELSE IF clock > last + RESET_TIMEOUT_SECS THEN "HalfOpen" ELSE "Open"

-----------------------------------------------------------------------------
(***************************************************************************)
(* record_success(): two independent relaxed stores.                       *)
(***************************************************************************)
RecordSuccess(t) ==
    /\ pc[t] = "idle"
    /\ pc' = [pc EXCEPT ![t] = "success"]
    /\ todo' = [todo EXCEPT ![t] = Cells]
    /\ overlapped' = \/ \E u \in Threads : Failing(u)
                     \/ overlapped /\ \E u \in Threads : Succeeding(u)
    /\ UNCHANGED <<failures, last_failure_time, now, stamp, loaded, answer,
                   trippedAt, latestStamp>>

\* The call returns once both stores are made.
StoreDone(t, cell) ==
    /\ pc[t] = "success"
    /\ cell \in todo[t]
    /\ todo' = [todo EXCEPT ![t] = @ \ {cell}]
    /\ pc' = [pc EXCEPT ![t] = IF todo[t] = {cell} THEN "idle" ELSE "success"]

ResetFailures(t) ==
    /\ StoreDone(t, "failures")
    /\ failures' = 0
    /\ UNCHANGED <<last_failure_time, now, stamp, loaded, answer,
                   trippedAt, latestStamp, overlapped>>

ResetTime(t) ==
    /\ StoreDone(t, "last_failure_time")
    /\ last_failure_time' = 0
    /\ UNCHANGED <<failures, now, stamp, loaded, answer,
                   trippedAt, latestStamp, overlapped>>

-----------------------------------------------------------------------------
(***************************************************************************)
(* record_failure(): fetch_add, then, at or above the threshold, read the  *)
(* clock and store it.                                                     *)
(***************************************************************************)
Trips_OldCount(f) == f >= FAILURE_THRESHOLD

Trips(f) == f + 1 >= FAILURE_THRESHOLD

RecordFailure(t) ==
    /\ pc[t] = "idle"
    /\ failures < MaxFailures
    /\ failures' = failures + 1
    /\ pc' = [pc EXCEPT ![t] = IF Trips(failures) THEN "read_clock" ELSE "idle"]
    /\ trippedAt' = IF failures + 1 = FAILURE_THRESHOLD THEN now ELSE trippedAt
    /\ overlapped' = (overlapped \/ \E u \in Threads : Succeeding(u))
    /\ UNCHANGED <<last_failure_time, now, todo, stamp, loaded, answer, latestStamp>>

ReadClock(t) ==
    /\ pc[t] = "read_clock"
    /\ pc' = [pc EXCEPT ![t] = "store_time"]
    /\ stamp' = [stamp EXCEPT ![t] = now]
    /\ latestStamp' = now
    /\ UNCHANGED <<failures, last_failure_time, now, todo, loaded, answer,
                   trippedAt, overlapped>>

StoreTime(t) ==
    /\ pc[t] = "store_time"
    /\ pc' = [pc EXCEPT ![t] = "idle"]
    /\ last_failure_time' = stamp[t]
    /\ stamp' = [stamp EXCEPT ![t] = 0]
    /\ UNCHANGED <<failures, now, todo, loaded, answer,
                   trippedAt, latestStamp, overlapped>>

-----------------------------------------------------------------------------
(***************************************************************************)
(* state(): a load of each cell, in either order, then the clock.          *)
(***************************************************************************)
State(t) ==
    /\ pc[t] = "idle"
    /\ pc' = [pc EXCEPT ![t] = "state"]
    /\ todo' = [todo EXCEPT ![t] = Cells]
    /\ UNCHANGED <<failures, last_failure_time, now, stamp, loaded, answer,
                   trippedAt, latestStamp, overlapped>>

StateReturns(t, s) ==
    /\ answer' = s
    /\ pc' = [pc EXCEPT ![t] = "idle"]
    /\ todo' = [todo EXCEPT ![t] = {}]
    /\ loaded' = [loaded EXCEPT ![t] = 0]

\* Below the threshold the call returns Closed whatever the other cell holds.
LoadFailures(t) ==
    /\ pc[t] = "state"
    /\ "failures" \in todo[t]
    /\ IF failures < FAILURE_THRESHOLD
         THEN StateReturns(t, "Closed")
         ELSE /\ todo' = [todo EXCEPT ![t] = @ \ {"failures"}]
              /\ UNCHANGED <<pc, loaded, answer>>
    /\ UNCHANGED <<failures, last_failure_time, now, stamp,
                   trippedAt, latestStamp, overlapped>>

LoadTime(t) ==
    /\ pc[t] = "state"
    /\ "last_failure_time" \in todo[t]
    /\ todo' = [todo EXCEPT ![t] = @ \ {"last_failure_time"}]
    /\ loaded' = [loaded EXCEPT ![t] = last_failure_time]
    /\ UNCHANGED <<failures, last_failure_time, now, pc, stamp, answer,
                   trippedAt, latestStamp, overlapped>>

\* Only a count at the threshold gets here, so the answer is Open or HalfOpen.
Decide(t) ==
    /\ pc[t] = "state"
    /\ todo[t] = {}
    /\ StateReturns(t, StateAt(FAILURE_THRESHOLD, loaded[t], now))
    /\ UNCHANGED <<failures, last_failure_time, now, stamp,
                   trippedAt, latestStamp, overlapped>>

-----------------------------------------------------------------------------
Tick ==
    /\ now < MaxTime
    /\ now' = now + 1
    /\ UNCHANGED <<failures, last_failure_time, pc, todo, stamp, loaded, answer,
                   trippedAt, latestStamp, overlapped>>

Step(t) ==
    \/ RecordSuccess(t) \/ ResetFailures(t) \/ ResetTime(t)
    \/ RecordFailure(t) \/ ReadClock(t) \/ StoreTime(t)
    \/ State(t) \/ LoadFailures(t) \/ LoadTime(t) \/ Decide(t)

Next == Tick \/ \E t \in Threads : Step(t)

Spec == Init /\ [][Next]_vars

-----------------------------------------------------------------------------
\* Every variable keeps its type; in particular the unsigned counter never
\* wraps below zero.
TypeOK ==
    /\ failures \in Nat
    /\ last_failure_time \in Nat
    /\ now \in Nat
    /\ pc \in [Threads -> Locations]
    /\ todo \in [Threads -> SUBSET Cells]
    /\ stamp \in [Threads -> Nat]
    /\ loaded \in [Threads -> Nat]
    /\ answer \in CircuitState
    /\ trippedAt \in Nat
    /\ latestStamp \in Nat
    /\ overlapped \in BOOLEAN

\* What a state() call would answer now, were it to run alone.
CurrentState == StateAt(failures, last_failure_time, now)

\* No record_success or record_failure call is between its first and its last
\* memory operation.
Settled == \A t \in Threads : ~Failing(t) /\ ~Succeeding(t)

\* Once FAILURE_THRESHOLD failures in a row are recorded, the breaker is Open
\* until RESET_TIMEOUT_SECS have passed since the failure that tripped it,
\* however the recording threads interleave, provided no record_success ran
\* concurrently with one of those failures.
TripSticks ==
    /\ Settled
    /\ failures >= FAILURE_THRESHOLD
    /\ ~overlapped
    /\ now <= trippedAt + RESET_TIMEOUT_SECS
    => CurrentState = "Open"

\* A state() call answers Open only within RESET_TIMEOUT_SECS of a failure that
\* was really recorded: races between the two cells never lock a backend out
\* for longer, and never on the strength of the initial or the reset value 0.
OpenIsRecent ==
    [][\A t \in Threads :
          Decide(t) /\ answer' = "Open" => now <= latestStamp + RESET_TIMEOUT_SECS]_vars

\* The source's description of the Open state and of record_failure, taken
\* without the proviso of TripSticks: a settled breaker with FAILURE_THRESHOLD
\* failures is Open until RESET_TIMEOUT_SECS after it tripped.
TrippedIsOpen ==
    /\ Settled
    /\ failures >= FAILURE_THRESHOLD
    /\ now <= trippedAt + RESET_TIMEOUT_SECS
    => CurrentState = "Open"

(***************************************************************************)
(* The inductive strengthening of TripSticks.                              *)
(***************************************************************************)
\* Clock readings never lie in the future of the clock.
PastReadings ==
    /\ now >= StartTime
    /\ trippedAt <= now
    /\ latestStamp <= now

\* The stored and the loaded times were read by some record_failure (or are 0).
RecordedTimes ==
    /\ last_failure_time <= latestStamp
    /\ \A t \in Threads : stamp[t] <= latestStamp /\ loaded[t] <= latestStamp

\* Without overlap a success and a failure are never in flight together, ...
Separate == ~overlapped => \A t, u \in Threads : ~(Succeeding(t) /\ Failing(u))

\* ... a success that has reset the counter finds it still reset, ...
ResetHolds ==
    ~overlapped =>
      \A t \in Threads : Succeeding(t) /\ "failures" \notin todo[t] => failures = 0

\* ... a failure on its way to the time cell belongs to the current streak, ...
CurrentStreak ==
    ~overlapped =>
      \A t \in Threads :
        /\ Failing(t) => failures >= FAILURE_THRESHOLD
        /\ pc[t] = "store_time" => stamp[t] >= trippedAt

\* ... and a settled, tripped breaker holds a time no older than the trip.
TripRecorded ==
    ~overlapped /\ Settled /\ failures >= FAILURE_THRESHOLD
      => last_failure_time >= trippedAt

TripInv ==
    PastReadings /\ RecordedTimes /\ Separate /\ ResetHolds /\ CurrentStreak /\ TripRecorded

=============================================================================
