----------------------------- MODULE GcraProofs -----------------------------
(***************************************************************************)
(* Proofs about Gcra, for any number of calls, any costs and any limit.    *)
(***************************************************************************)
EXTENDS Gcra, TLAPS

\* The period, and the price of a cost, are natural numbers.
LEMMA Quantities ==
    /\ period_ms \in Nat
    /\ \A c \in Costs : emission_interval * c \in Nat
  BY GcraAssumption DEF period_ms

\* The arrival time the script computes is no earlier than its clock reading.
LEMMA TatType ==
    ASSUME TypeOK, NEW now \in Nat, NEW c \in Costs
    PROVE  /\ Tat(now) \in Nat /\ Tat(now) >= now
           /\ NewTat(now, c) \in Nat /\ NewTat(now, c) >= Tat(now)
           /\ NewTat(now, c) = Tat(now) + emission_interval * c
  <1>1. Tat(now) \in Nat /\ Tat(now) >= now
    BY GcraAssumption DEF Tat, Present, TypeOK
  <1>2. emission_interval * c \in Nat
    BY Quantities
  <1> QED  BY <1>1, <1>2 DEF NewTat

\* The `remaining` of an answer is a natural number.
LEMMA RemainingType ==
    ASSUME NEW tat \in Int, NEW now \in Int
    PROVE  Remaining(tat, now) \in Nat
  <1>1. period_ms - (tat - now) \in Int
    BY Quantities
  <1>2. (period_ms - (tat - now)) \div emission_interval \in Int
    BY <1>1, GcraAssumption
  <1> QED  BY <1>2 DEF Remaining

\* An answer of the script is a well-formed RateLimitResult.
LEMMA ResultType ==
    ASSUME NEW tat \in Nat, NEW now \in Nat, tat >= now, NEW v \in Verdicts
    PROVE  Result(v, tat, now) \in Answers
  <1>1. Remaining(tat, now) \in Nat
    BY RemainingType
  <1>2. tat - now \in Nat
    OBVIOUS
  <1> QED  BY <1>1, <1>2 DEF Result, Answers

\* So is what the model records for a call that ends in Err.
LEMMA ErrType == Err \in Answers
  BY DEF Err, Answers, Verdicts

\* What a task whose call is under way passes to the script.
LEMMA CallType ==
    ASSUME TypeOK, CallsWellFormed, NEW k \in Tasks, now_ms[k] # None
    PROVE  /\ now_ms[k] \in Nat /\ now_ms[k] <= clock /\ clock - now_ms[k] <= MaxDelay
           /\ cost[k] \in Costs /\ cost[k] \in Nat /\ cost[k] # None
  BY Zenon, GcraAssumption DEF TypeOK, CallsWellFormed

-----------------------------------------------------------------------------
\* Types, the pairing of a call's locals and the bound on the debt are inductive
\* together.
LEMMA GcraInvariant == Spec => [](TypeOK /\ GcraInv)
  <1>1. Init => TypeOK /\ GcraInv
    BY GcraAssumption DEF Init, TypeOK, GcraInv, CallsWellFormed, DebtBounded, NoAnswer, Answers, Verdicts
  <1>2. TypeOK /\ GcraInv /\ [Next]_vars => TypeOK' /\ GcraInv'
    <2> SUFFICES ASSUME TypeOK, GcraInv, [Next]_vars PROVE TypeOK' /\ GcraInv'
      OBVIOUS
    <2>0. CallsWellFormed /\ DebtBounded
      BY DEF GcraInv
    <2>1. ASSUME NEW k \in Tasks, NEW c \in Costs, CheckRateLimit(k, c)
          PROVE  TypeOK' /\ GcraInv'
      <3>1. TypeOK'
        BY <2>1 DEF CheckRateLimit, TypeOK, NoAnswer, Answers, Verdicts, windowVars
      <3>2. CallsWellFormed'
        BY <2>0, <2>1, GcraAssumption DEF CheckRateLimit, TypeOK, CallsWellFormed
      <3>3. DebtBounded'
        BY <2>0, <2>1 DEF CheckRateLimit, DebtBounded
      <3> QED  BY <3>1, <3>2, <3>3 DEF GcraInv
    <2>2. ASSUME NEW k \in Tasks, NEW a, Reply(k, a),
                 a \in Answers
          PROVE  /\ CallsWellFormed'
                 /\ clock' \in Nat /\ since' \in Nat
                 /\ now_ms' \in [Tasks -> Nat \cup {None}]
                 /\ cost' \in [Tasks -> Costs \cup {None}]
                 /\ answer' \in [Tasks -> Answers]
      BY <2>0, <2>2 DEF Reply, TypeOK, CallsWellFormed
    <2>3. ASSUME NEW k \in Tasks, Denied(k) PROVE TypeOK' /\ GcraInv'
      <3> DEFINE a == Result("denied", Tat(now_ms[k]), now_ms[k])
      <3>1. now_ms[k] \in Nat /\ cost[k] \in Costs
        BY <2>0, <2>3, CallType DEF Denied
      <3>2. Tat(now_ms[k]) \in Nat /\ Tat(now_ms[k]) >= now_ms[k]
        BY <3>1, TatType
      <3>3. a \in Answers
        BY <3>1, <3>2, ResultType DEF Verdicts
      <3>4. Reply(k, a)
        BY <2>3 DEF Denied
      <3> HIDE DEF a
      <3>5. CallsWellFormed'
        BY <2>2, <3>3, <3>4
      <3>6. TypeOK'
        BY <2>2, <2>3, <3>3, <3>4 DEF Denied, TypeOK
      <3>7. DebtBounded'
        BY <2>0, <2>3 DEF Denied, Reply, DebtBounded
      <3> QED  BY <3>5, <3>6, <3>7 DEF GcraInv
    <2>4. ASSUME NEW k \in Tasks, Allowed(k) \/ ReplyLost(k) PROVE TypeOK' /\ GcraInv'
      <3> DEFINE now == now_ms[k]
                 new == NewTat(now, cost[k])
      <3>0. now # None
        BY <2>4 DEF Allowed, ReplyLost, Grant
      <3>1. now \in Nat /\ now <= clock /\ cost[k] \in Costs /\ cost[k] \in Nat
        BY <2>0, <3>0, CallType
      <3>2. new \in Nat /\ new >= now
        BY <3>1, TatType
      <3>3. PICK a \in Answers : Grant(k, a)
        BY <2>4, <3>1, <3>2, ResultType, ErrType DEF Allowed, ReplyLost, Verdicts
      <3>4. /\ Reply(k, a) /\ Set(new, now) /\ ~(new - period_ms > now)
            /\ spent' = spent + cost[k]
            /\ rewinds' = rewinds + 1 \/ rewinds' = rewinds
        BY <3>3 DEF Grant, Exceeds
      <3>5. period_ms \in Nat /\ clock \in Nat /\ spent \in Nat /\ rewinds \in Nat
        BY Quantities DEF TypeOK
      <3> HIDE DEF new, now
      <3>6. /\ stored' = new /\ expireAt' = clock + (new - now)
            /\ clock' = clock
        BY <3>4 DEF Set, Reply
      <3>7. CallsWellFormed'
        BY <2>2, <3>3, <3>4
      <3>8. expireAt' \in Nat /\ spent' \in Nat /\ stored' \in Nat /\ rewinds' \in Nat
        BY <3>1, <3>2, <3>4, <3>5, <3>6
      <3>9. TypeOK'
        BY <2>2, <3>3, <3>4, <3>8 DEF TypeOK
      <3>10. DebtBounded'
        BY <3>1, <3>2, <3>4, <3>5, <3>6 DEF DebtBounded, period_ms
      <3> QED  BY <3>7, <3>9, <3>10 DEF GcraInv
    <2>5. ASSUME NEW k \in Tasks, Fails(k) PROVE TypeOK' /\ GcraInv'
      <3>1. Reply(k, Err)
        BY <2>5 DEF Fails
      <3>2. CallsWellFormed'
        BY <2>2, <3>1, ErrType
      <3>3. TypeOK'
        BY <2>2, <2>5, <3>1, ErrType DEF Fails, TypeOK
      <3>4. DebtBounded'
        BY <2>0, <2>5 DEF Fails, Reply, DebtBounded
      <3> QED  BY <3>2, <3>3, <3>4 DEF GcraInv
    <2>6. CASE Tick
      <3>1. TypeOK'
        BY <2>6 DEF Tick, TypeOK, windowVars
      <3>2. CallsWellFormed'
        BY <2>0, <2>6, GcraAssumption DEF Tick, TypeOK, CallsWellFormed
      <3>3. DebtBounded'
        BY <2>0, <2>6, Quantities, GcraAssumption DEF Tick, TypeOK, DebtBounded, period_ms
      <3> QED  BY <3>1, <3>2, <3>3 DEF GcraInv
    <2>7. CASE Mark
      BY <2>0, <2>7 DEF Mark, TypeOK, GcraInv, CallsWellFormed, DebtBounded
    <2>8. CASE UNCHANGED vars
      BY <2>0, <2>8 DEF vars, windowVars, TypeOK, GcraInv, CallsWellFormed, DebtBounded
    <2> QED  BY <2>1, <2>3, <2>4, <2>5, <2>6, <2>7, <2>8 DEF Next
  <1> QED  BY <1>1, <1>2, PTL DEF Spec

\* The variables keep their types: in particular no answer carries a negative
\* reset_after, whatever the delays.
THEOREM TypeCorrect == Spec => []TypeOK
  BY GcraInvariant, PTL

\* Whatever the delays, a client never owes more than one period, and Redis
\* never drops a key before the time it holds has come.
THEOREM DebtBoundedHolds == Spec => []DebtBounded
  BY GcraInvariant, PTL DEF GcraInv

-----------------------------------------------------------------------------
(***************************************************************************)
(* The rate, with calls whose script runs up to MaxDelay after their clock *)
(* reading.                                                                *)
(***************************************************************************)
\* The debt is a natural number of at most one period.
LEMMA DebtType ==
    ASSUME TypeOK, DebtBounded
    PROVE  Debt \in Nat /\ Debt <= period_ms
  BY Quantities DEF Debt, Max, Present, TypeOK, DebtBounded

\* What a grant stores, and when the key it finds is expired.
LEMMA GrantEffect ==
    ASSUME TypeOK, CallsWellFormed, DebtBounded, NEW k \in Tasks, NEW a, Grant(k, a),
           NEW now, now = now_ms[k]
    PROVE  /\ now \in Nat /\ now <= clock /\ clock - now <= MaxDelay
           /\ cost[k] \in Nat /\ emission_interval * cost[k] \in Nat
           /\ Tat(now) \in Nat /\ Tat(now) >= now
           /\ stored' = Tat(now) + emission_interval * cost[k]
           /\ stored' - period_ms <= now
           /\ expireAt' = clock + (stored' - now)
           /\ stored' \in Nat /\ stored' # None /\ clock' = clock
  <1>1. /\ now \in Nat /\ now <= clock /\ clock - now <= MaxDelay
        /\ cost[k] \in Costs /\ cost[k] \in Nat
    BY CallType DEF Grant
  <1>2. /\ Tat(now) \in Nat /\ Tat(now) >= now
        /\ NewTat(now, cost[k]) = Tat(now) + emission_interval * cost[k]
        /\ emission_interval * cost[k] \in Nat /\ period_ms \in Nat
    BY <1>1, TatType, Quantities
  <1>3. /\ stored' = NewTat(now, cost[k]) /\ expireAt' = clock + (NewTat(now, cost[k]) - now)
        /\ ~(NewTat(now, cost[k]) - period_ms > now) /\ clock' = clock
    BY Zenon DEF Grant, Exceeds, Set, Reply
  <1>4. stored' \in Nat /\ stored' # None
    BY <1>2, <1>3, GcraAssumption
  <1> QED  BY <1>1, <1>2, <1>3, <1>4

\* A grant moves the horizon on by its price, less MaxDelay if it is a rewind.
LEMMA HorizonMoves ==
    ASSUME TypeOK, CallsWellFormed, DebtBounded, NEW k \in Tasks, NEW a, Grant(k, a)
    PROVE  /\ Horizon \in Int /\ Horizon' \in Int
           /\ ~Rewinds(now_ms[k]) => Horizon + emission_interval * cost[k] <= Horizon'
           /\ Rewinds(now_ms[k]) => Horizon + emission_interval * cost[k] <= Horizon' + MaxDelay
  <1>1. PICK now : now = now_ms[k]
    OBVIOUS
  <1>2. PICK e : e = emission_interval * cost[k]
    OBVIOUS
  <1>3. /\ now \in Nat /\ now <= clock /\ clock - now <= MaxDelay
        /\ e \in Nat /\ Tat(now) \in Nat /\ Tat(now) >= now
        /\ stored' = Tat(now) + e /\ stored' \in Nat /\ stored' # None /\ clock' = clock
    BY <1>1, <1>2, GrantEffect
  <1>4. clock \in Nat /\ MaxDelay \in Nat /\ stored \in Nat \cup {None} /\ expireAt \in Nat
    BY GcraAssumption DEF TypeOK
  <1>5. Horizon \in Int /\ Horizon' \in Int /\ Horizon' >= stored'
    BY <1>3, <1>4 DEF Horizon
  <1>6. CASE Rewinds(now)
    <2>1. stored # None /\ stored <= expireAt /\ clock > expireAt /\ Tat(now) = now
      BY <1>4, <1>6 DEF Rewinds, Present, Tat, DebtBounded
    <2>2. Horizon <= clock
      BY <1>4, <2>1 DEF Horizon
    <2>3. now + e <= Horizon'
      BY <1>3, <1>5, <2>1
    <2> QED  BY <1>1, <1>2, <1>3, <1>4, <1>5, <1>6, <2>2, <2>3
  <1>7. CASE ~Rewinds(now)
    <2>1. Horizon <= Tat(now)
      BY <1>3, <1>4, <1>7 DEF Rewinds, Present, Tat, Horizon
    <2> QED  BY <1>1, <1>2, <1>3, <1>5, <1>7, <2>1
  <1> QED  BY <1>6, <1>7

\* The accounting of the window is inductive.
LEMMA AccountedInvariant == Spec => []Accounted
  <1>1. Init => Accounted
    BY GcraAssumption DEF Init, Accounted, Horizon
  <1>2. TypeOK /\ GcraInv /\ Accounted /\ [Next]_vars => Accounted'
    <2> SUFFICES ASSUME TypeOK, CallsWellFormed, DebtBounded, Accounted, [Next]_vars
                 PROVE  Accounted'
      BY DEF GcraInv
    <2>0. /\ spent \in Nat /\ clock \in Nat /\ since \in Nat /\ rewinds \in Nat
          /\ stored \in Nat \cup {None} /\ MaxDelay \in Nat
          /\ emission_interval * spent \in Nat /\ MaxDelay * (1 + rewinds) \in Nat
          /\ Horizon \in Int
      BY GcraAssumption DEF TypeOK, Horizon
    <2>1. ASSUME NEW k \in Tasks,
                 Denied(k) \/ Fails(k) \/ (\E c \in Costs : CheckRateLimit(k, c)) \/ UNCHANGED vars
          PROVE  Accounted'
      <3>1. UNCHANGED <<clock, stored, since, spent, rewinds>>
        BY Zenon, <2>1 DEF Denied, Fails, Reply, CheckRateLimit, vars, windowVars
      <3> QED  BY Zenon, <3>1 DEF Accounted, Horizon
    <2>2. ASSUME NEW k \in Tasks, NEW a, Grant(k, a) PROVE Accounted'
      <3> DEFINE e == emission_interval * cost[k]
                 far == MaxDelay * (1 + rewinds)
      <3>1. /\ UNCHANGED <<clock, since>> /\ spent' = spent + cost[k]
            /\ rewinds' = IF Rewinds(now_ms[k]) THEN rewinds + 1 ELSE rewinds
        BY Zenon, <2>2 DEF Grant, Reply
      <3>2. cost[k] \in Nat /\ e \in Nat
        BY <2>2, GrantEffect
      <3>3. /\ Horizon' \in Int
            /\ ~Rewinds(now_ms[k]) => Horizon + e <= Horizon'
            /\ Rewinds(now_ms[k]) => Horizon + e <= Horizon' + MaxDelay
        BY <2>2, HorizonMoves
      <3>4. emission_interval * spent' = emission_interval * spent + e
        BY <2>0, <3>1, <3>2, GcraAssumption
      <3>5. MaxDelay * (1 + (rewinds + 1)) = far + MaxDelay
        BY <2>0
      <3>6. since <= clock /\ emission_interval * spent <= (Horizon - since) + far
        BY DEF Accounted
      <3>7. PICK g, h \in Int, n, m \in Nat, f, p \in Nat :
              /\ g = Horizon /\ h = Horizon' /\ n = emission_interval * spent
              /\ m = since /\ f = far /\ p = e
        BY Zenon, <2>0, <3>2, <3>3
      <3>8. n <= (g - m) + f /\ emission_interval * spent' = n + p
        BY Zenon, <3>4, <3>6, <3>7
      <3>9. CASE Rewinds(now_ms[k])
        <4>1. g + p <= h + MaxDelay /\ MaxDelay * (1 + rewinds') = f + MaxDelay
          BY Zenon, <3>1, <3>3, <3>5, <3>7, <3>9
        <4>2. n + p <= (h - m) + (f + MaxDelay)
          BY <3>7, <3>8, <4>1, GcraAssumption
        <4> QED  BY Zenon, <3>1, <3>6, <3>7, <3>8, <4>1, <4>2 DEF Accounted
      <3>10. CASE ~Rewinds(now_ms[k])
        <4>1. g + p <= h /\ MaxDelay * (1 + rewinds') = f
          BY Zenon, <3>1, <3>3, <3>7, <3>10
        <4>2. n + p <= (h - m) + f
          BY <3>7, <3>8, <4>1
        <4> QED  BY Zenon, <3>1, <3>6, <3>7, <3>8, <4>1, <4>2 DEF Accounted
      <3> QED  BY Zenon, <3>9, <3>10
    <2>3. CASE Tick
      <3>1. clock' = clock + 1 /\ UNCHANGED <<stored, since, spent, rewinds>>
        BY <2>3 DEF Tick, windowVars
      <3>2. Horizon' \in Int /\ Horizon <= Horizon'
        BY <2>0, <3>1 DEF Horizon
      <3> QED  BY <2>0, <3>1, <3>2 DEF Accounted
    <2>4. CASE Mark
      <3>1. since' = clock /\ spent' = 0 /\ rewinds' = 0 /\ UNCHANGED <<clock, stored>>
        BY <2>4 DEF Mark
      <3>2. Horizon' \in Int /\ clock - MaxDelay <= Horizon'
        BY <2>0, <3>1 DEF Horizon
      <3>3. emission_interval * 0 = 0 /\ MaxDelay * (1 + 0) = MaxDelay
        BY GcraAssumption
      <3>4. clock <= clock /\ 0 <= (Horizon' - clock) + MaxDelay
        <4>1. PICK h \in Int : h = Horizon' /\ clock - MaxDelay <= h
          BY Zenon, <3>2
        <4>2. PICK t, d \in Nat : t = clock /\ d = MaxDelay
          BY Zenon, <2>0
        <4>3. h \in Int /\ t \in Nat /\ d \in Nat /\ t - d <= h
          BY Zenon, <4>1, <4>2
        <4>4. t <= t /\ 0 <= (h - t) + d
          BY <4>3
        <4> QED  BY Zenon, <4>1, <4>2, <4>4
      <3> QED  BY Zenon, <3>1, <3>3, <3>4 DEF Accounted
    <2>5. CASE UNCHANGED vars
      BY Zenon, <2>5 DEF vars, windowVars, Accounted, Horizon
    <2> QED  BY <2>1, <2>2, <2>3, <2>4, <2>5 DEF Next, Allowed, ReplyLost
  <1> QED  BY <1>1, <1>2, GcraInvariant, PTL DEF Spec

\* However late the script runs after its clock reading, no window of time grants
\* more than the limit, the refill of the window's length, and one MaxDelay for
\* the window and for each rewind in it.
THEOREM RateBoundHolds == Spec => []RateBound
  <1>1. TypeOK /\ GcraInv /\ Accounted => RateBound
    <2> SUFFICES ASSUME TypeOK, GcraInv, Accounted PROVE RateBound
      OBVIOUS
    <2>1. period_ms \in Nat /\ MaxDelay \in Nat
      BY Quantities, GcraAssumption
    <2>2. /\ clock \in Nat /\ since \in Nat /\ emission_interval * spent \in Nat
          /\ MaxDelay * (1 + rewinds) \in Nat /\ stored \in Nat \cup {None}
      BY GcraAssumption DEF TypeOK
    <2>3. Horizon \in Int /\ Horizon <= clock + period_ms
      BY <2>1, <2>2 DEF Horizon, GcraInv, DebtBounded
    <2> QED  BY <2>1, <2>2, <2>3 DEF Accounted, RateBound
  <1> QED  BY <1>1, GcraInvariant, AccountedInvariant, PTL

\* For a current clock reading there is nothing to allow for, and the bound is
\* the limit plus the refill of the window's length.
THEOREM StrictWithoutDelay ==
    ASSUME MaxDelay = 0
    PROVE  Spec => []StrictRateBound
  <1>1. TypeOK /\ RateBound => StrictRateBound
    <2> SUFFICES ASSUME TypeOK, RateBound PROVE StrictRateBound
      OBVIOUS
    <2>1. MaxDelay * (1 + rewinds) = 0
      BY DEF TypeOK
    <2>2. period_ms \in Nat /\ clock \in Nat /\ since \in Nat /\ emission_interval * spent \in Nat
      BY Quantities, GcraAssumption DEF TypeOK
    <2> QED  BY <2>1, <2>2 DEF RateBound, StrictRateBound
  <1> QED  BY <1>1, GcraInvariant, RateBoundHolds, PTL

-----------------------------------------------------------------------------
(***************************************************************************)
(* The token bucket.                                                       *)
(***************************************************************************)
\* The debt is what the script's arrival time is ahead of the clock.
LEMMA TatIsDebt ==
    ASSUME TypeOK, NEW now \in Nat, now <= clock
    PROVE  Debt = Max(Tat(now) - clock, 0)
  BY GcraAssumption DEF Tat, Debt, Max, Present, TypeOK

\* A grant adds its price to the debt, or up to MaxDelay less, and no more than
\* there is room for.
LEMMA GrantCharges ==
    ASSUME TypeOK, CallsWellFormed, DebtBounded, NEW k \in Tasks, NEW a, Grant(k, a)
    PROVE  /\ emission_interval * cost[k] \in Nat
           /\ Debt + emission_interval * cost[k] <= period_ms
           /\ Debt' \in Nat /\ Debt <= Debt'
           /\ Debt' <= Debt + emission_interval * cost[k]
           /\ Debt + emission_interval * cost[k] <= Debt' + MaxDelay
  <1>1. PICK now : now = now_ms[k]
    OBVIOUS
  <1>2. PICK e : e = emission_interval * cost[k]
    OBVIOUS
  <1>3. PICK tat : tat = Tat(now)
    OBVIOUS
  <1>4. /\ now \in Nat /\ now <= clock /\ clock - now <= MaxDelay
        /\ e \in Nat /\ tat \in Nat /\ tat >= now
        /\ stored' = tat + e /\ stored' - period_ms <= now
        /\ expireAt' = clock + (stored' - now) /\ stored' # None /\ clock' = clock
    BY <1>1, <1>2, <1>3, GrantEffect
  <1>5. clock \in Nat /\ MaxDelay \in Nat /\ period_ms \in Nat
    BY Quantities, GcraAssumption DEF TypeOK
  <1>6. Debt = Max(tat - clock, 0)
    BY <1>3, <1>4, TatIsDebt
  <1>7. Debt' = Max((tat + e) - clock, 0)
    BY <1>4, <1>5 DEF Debt, Present, Max
  <1> HIDE DEF Debt
  <1> QED  BY <1>2, <1>4, <1>5, <1>6, <1>7 DEF Max

\* The passage of time pays the debt back, one unit at a time.
LEMMA TimePays ==
    ASSUME TypeOK, DebtBounded, Tick
    PROVE  Debt' = IF Debt = 0 THEN 0 ELSE Debt - 1
  BY GcraAssumption DEF Tick, Debt, Max, Present, TypeOK, DebtBounded

\* However late the script runs after its clock reading, check_rate_limit
\* implements a token bucket with MaxDelay as its tolerance.
THEOREM TokenBucketImplemented == Spec => IsTokenBucket
  <1> DEFINE told == [k \in Tasks |-> answer[k].verdict]
  <1>1. Init => Bucket!Init
    BY SMTT(30), Quantities DEF Init, Bucket!Init, Debt, Present, NoAnswer
  <1>2. TypeOK /\ GcraInv /\ [Next]_vars
          => [Bucket!Next]_<<period_ms - Debt, cost, told>>
    <2> SUFFICES ASSUME TypeOK, CallsWellFormed, DebtBounded, [Next]_vars
                 PROVE  [Bucket!Next]_<<period_ms - Debt, cost, told>>
      BY DEF GcraInv
    <2>0. /\ Debt \in Nat /\ Debt <= period_ms /\ period_ms \in Nat
          /\ clock \in Nat /\ MaxDelay \in Nat
      BY DebtType, Quantities, GcraAssumption DEF TypeOK
    <2>1. ASSUME NEW k \in Tasks, NEW c \in Costs, CheckRateLimit(k, c)
          PROVE  Bucket!Ask(k, c)
      <3>1. Debt' = Debt
        BY Zenon, <2>1 DEF CheckRateLimit, Debt, Present
      <3>2. cost[k] = None
        BY Zenon, <2>1 DEF CheckRateLimit, CallsWellFormed
      <3>3. told' = [told EXCEPT ![k] = "none"]
        <4>1. answer' = [answer EXCEPT ![k] = NoAnswer] /\ answer \in [Tasks -> Answers]
          BY Zenon, <2>1 DEF CheckRateLimit, TypeOK
        <4>2. NoAnswer.verdict = "none"
          BY DEF NoAnswer
        <4> QED  BY Zenon, <4>1, <4>2
      <3> QED  BY Zenon, <2>1, <3>1, <3>2, <3>3 DEF CheckRateLimit, Bucket!Ask, period_ms
    <2>2. ASSUME NEW k \in Tasks, NEW a \in Answers, Reply(k, a)
          PROVE  Bucket!Answer(k, a.verdict)
      BY Zenon, <2>2 DEF Reply, Bucket!Answer, TypeOK
    <2>3. ASSUME NEW k \in Tasks, Denied(k) PROVE Bucket!Refuse(k)
      <3>1. PICK now : now = now_ms[k]
        OBVIOUS
      <3>2. PICK e : e = emission_interval * cost[k]
        OBVIOUS
      <3>3. PICK tat : tat = Tat(now)
        OBVIOUS
      <3>4. /\ now \in Nat /\ now <= clock /\ clock - now <= MaxDelay
            /\ e \in Nat /\ tat \in Nat /\ tat >= now /\ cost[k] # None
            /\ NewTat(now, cost[k]) = tat + e
        BY <2>3, <3>1, <3>2, <3>3, CallType, TatType, Quantities DEF Denied
      <3>5. (tat + e) - period_ms > now
        BY Zenon, <2>3, <3>1, <3>4 DEF Denied, Exceeds
      <3>6. Debt = Max(tat - clock, 0)
        BY <3>3, <3>4, TatIsDebt
      <3>7. period_ms - Debt < e + MaxDelay
        BY <2>0, <3>4, <3>5, <3>6 DEF Max
      <3>8. Result("denied", tat, now) \in Answers
        BY <3>4, ResultType DEF Verdicts
      <3>9. Reply(k, Result("denied", tat, now))
        BY Zenon, <2>3, <3>1, <3>3 DEF Denied
      <3>10. Result("denied", tat, now).verdict = "denied"
        BY DEF Result
      <3>11. Bucket!Answer(k, "denied")
        BY Zenon, <2>2, <3>8, <3>9, <3>10
      <3>12. Debt' = Debt
        BY Zenon, <2>3 DEF Denied, Reply, Debt, Present
      <3> QED  BY Zenon, <3>2, <3>4, <3>7, <3>11, <3>12 DEF Bucket!Refuse, period_ms
    <2>4. ASSUME NEW k \in Tasks, NEW a \in Answers, Grant(k, a)
          PROVE  cost[k] # None /\ Bucket!Pay(k) /\ Bucket!Answer(k, a.verdict)
      <3>1. now_ms[k] # None /\ Reply(k, a)
        BY Zenon, <2>4 DEF Grant
      <3>2. PICK e : e = emission_interval * cost[k]
        OBVIOUS
      <3>3. /\ e \in Nat /\ Debt + e <= period_ms
            /\ Debt' \in Nat /\ Debt <= Debt' /\ Debt' <= Debt + e /\ Debt + e <= Debt' + MaxDelay
        BY <2>4, <3>2, GrantCharges
      <3>4. PICK paid : paid = Debt' - Debt
        OBVIOUS
      <3>5. /\ e <= period_ms - Debt /\ paid \in 0..e /\ e <= paid + MaxDelay
            /\ period_ms - Debt' = (period_ms - Debt) - paid
        <4>1. PICK d0, d1, p, t \in Nat : d0 = Debt /\ d1 = Debt' /\ p = period_ms /\ t = MaxDelay
          BY Zenon, <2>0, <3>3
        <4>2. /\ d0 \in Nat /\ d1 \in Nat /\ p \in Nat /\ t \in Nat /\ e \in Nat
              /\ d0 + e <= p /\ d0 <= d1 /\ d1 <= d0 + e /\ d0 + e <= d1 + t /\ paid = d1 - d0
          BY Zenon, <3>3, <3>4, <4>1
        <4>3. e <= p - d0 /\ paid \in 0..e /\ e <= paid + t /\ p - d1 = (p - d0) - paid
          BY <4>2
        <4> QED  BY Zenon, <4>1, <4>3
      <3>6. /\ emission_interval * cost[k] <= period_ms - Debt
            /\ paid \in 0..(emission_interval * cost[k])
            /\ emission_interval * cost[k] <= paid + MaxDelay
        BY Zenon, <3>2, <3>5
      <3>7. Bucket!Pay(k)
        BY Zenon, <3>5, <3>6 DEF Bucket!Pay, period_ms
      <3> QED  BY Zenon, <2>2, <3>1, <3>7, CallType
    <2>5. ASSUME NEW k \in Tasks, Allowed(k) PROVE Bucket!Grant(k)
      <3> DEFINE a == Result("allowed", NewTat(now_ms[k], cost[k]), now_ms[k])
      <3>1. now_ms[k] # None /\ Grant(k, a)
        BY Zenon, <2>5 DEF Allowed, Grant
      <3>2. /\ now_ms[k] \in Nat /\ NewTat(now_ms[k], cost[k]) \in Nat
            /\ NewTat(now_ms[k], cost[k]) >= now_ms[k]
        BY <3>1, CallType, TatType
      <3>3. a \in Answers
        BY <3>2, ResultType DEF Verdicts
      <3>4. a.verdict = "allowed"
        BY DEF Result
      <3> HIDE DEF a
      <3> QED  BY Zenon, <2>4, <3>1, <3>3, <3>4 DEF Bucket!Grant
    <2>6. ASSUME NEW k \in Tasks, ReplyLost(k) \/ Fails(k) PROVE Bucket!Fail(k)
      <3>1. Err.verdict = "error"
        BY DEF Err
      <3>2. CASE ReplyLost(k)
        BY Zenon, <2>4, <3>1, <3>2, ErrType DEF ReplyLost, Bucket!Fail
      <3>3. CASE Fails(k)
        <4>1. now_ms[k] # None /\ Reply(k, Err)
          BY Zenon, <3>3 DEF Fails
        <4>2. Debt' = Debt
          BY Zenon, <3>3 DEF Fails, Reply, Debt, Present
        <4>3. cost[k] # None /\ Bucket!Answer(k, "error")
          BY Zenon, <2>2, <3>1, <4>1, ErrType, CallType
        <4> QED  BY Zenon, <4>2, <4>3 DEF Bucket!Fail, period_ms
      <3> QED  BY <2>6, <3>2, <3>3
    <2>7. ASSUME Tick PROVE Bucket!Refill \/ UNCHANGED <<period_ms - Debt, cost, told>>
      <3>1. Debt' = IF Debt = 0 THEN 0 ELSE Debt - 1
        BY <2>7, TimePays
      <3>2. cost' = cost /\ told' = told
        BY <2>7 DEF Tick
      <3>3. CASE Debt = 0
        BY <3>1, <3>2, <3>3 DEF period_ms
      <3>4. CASE Debt # 0
        <4>1. period_ms - Debt < period_ms /\ period_ms - Debt' = (period_ms - Debt) + 1
          BY <2>0, <3>1, <3>4
        <4> QED  BY <3>2, <4>1 DEF Bucket!Refill, period_ms
      <3> QED  BY <3>3, <3>4
    <2>8. ASSUME Mark \/ UNCHANGED vars PROVE UNCHANGED <<period_ms - Debt, cost, told>>
      BY Zenon, <2>8 DEF Mark, vars, Debt, Present, period_ms
    <2> QED  BY <2>1, <2>3, <2>5, <2>6, <2>7, <2>8 DEF Next, Bucket!Next
  <1> QED  BY <1>1, <1>2, GcraInvariant, PTL
           DEF Spec, IsTokenBucket, Bucket!Spec, Bucket!vars

-----------------------------------------------------------------------------
(***************************************************************************)
(* What an answer tells the client.                                        *)
(***************************************************************************)
\* A number of tokens fits into a room of milliseconds exactly if it is at most
\* the room divided by their price, rounded down.
LEMMA Floor ==
    ASSUME NEW room \in Nat, NEW e \in Nat \ {0}, NEW c \in Nat
    PROVE  room \div e \in Nat /\ (e * c <= room <=> c <= room \div e)
  <1> DEFINE q == room \div e
  <1>1. q \in Nat /\ e * q \in Nat /\ e * q <= room /\ room < e * q + e
    BY SMTT(30)
  <1> HIDE DEF q
  <1>2. c <= q => e * c <= e * q
    BY SMTT(30), <1>1
  <1>3. c >= q + 1 => e * c >= e * (q + 1)
    BY SMTT(30), <1>1
  <1>4. e * (q + 1) = e * q + e /\ e * c \in Nat
    BY SMTT(30), <1>1
  <1>5. e * c <= room <=> c <= q
    BY <1>1, <1>2, <1>3, <1>4
  <1> QED  BY <1>1, <1>5 DEF q

\* `remaining` is the largest cost that the script does not deny; if more than a
\* period is owed, there is none.
LEMMA RemainingIsLargest ==
    ASSUME NEW now \in Nat, NEW tat \in Nat, NEW c \in Nat \ {0}
    PROVE  ~((tat + emission_interval * c) - period_ms > now) <=> c <= Remaining(tat, now)
  <1> DEFINE room == period_ms - (tat - now)
             e == emission_interval
  <1>1. room \in Int /\ e \in Nat \ {0} /\ e * c \in Nat /\ period_ms \in Nat
    BY Quantities, GcraAssumption
  <1> HIDE DEF e
  <1>2. ~((tat + e * c) - period_ms > now) <=> e * c <= room
    BY <1>1
  <1> HIDE DEF room
  <1>3. CASE room >= 0
    <2>1. room \div e \in Nat /\ (e * c <= room <=> c <= room \div e)
      BY <1>1, <1>3, Floor
    <2>2. Remaining(tat, now) = room \div e
      BY <2>1 DEF Remaining, room, e
    <2> QED  BY Zenon, <1>2, <2>1, <2>2 DEF e
  <1>4. CASE room < 0
    <2>1. ~(e * c <= room)
      BY <1>1, <1>4
    <2>2. room \div e < 0
      BY SMTT(30), <1>1, <1>4
    <2>3. Remaining(tat, now) = 0
      BY Zenon, <2>2 DEF Remaining, room, e
    <2>4. ~(c <= 0)
      OBVIOUS
    <2> QED  BY Zenon, <1>2, <2>1, <2>3, <2>4 DEF e
  <1> QED  BY <1>1, <1>3, <1>4

\* If the script finds tat when it runs at `now`, and still at tat, the answer
\* computed from tat is exact.
LEMMA ExactNext ==
    ASSUME NEW now \in Nat, NEW tat \in Nat, NEW left, left = Remaining(tat, now),
           Tat(now)' = tat, Tat(tat)' = tat
    PROVE  Exact(now, left, tat)'
  <1>1. ASSUME NEW c \in 1..(limit + 1)
        PROVE  ~Exceeds(now, c)' <=> c <= left
    <2>1. c \in Nat \ {0}
      BY GcraAssumption
    <2>2. Exceeds(now, c)' <=> (tat + emission_interval * c) - period_ms > now
      BY Zenon DEF Exceeds, NewTat, period_ms
    <2> QED  BY Zenon, <2>1, <2>2, RemainingIsLargest
  <1>2. ~Exceeds(tat, limit)'
    <2>1. Exceeds(tat, limit)' <=> (tat + emission_interval * limit) - period_ms > tat
      BY Zenon DEF Exceeds, NewTat, period_ms
    <2>2. emission_interval * limit = period_ms /\ period_ms \in Nat
      BY GcraAssumption, Quantities DEF period_ms
    <2> QED  BY <2>1, <2>2
  <1> QED  BY Zenon, <1>1, <1>2 DEF Exact

\* However long a call is delayed, the `remaining` and the reset_after of its
\* RateLimitResult are exactly what the script would do next.
THEOREM AnswerIsExactHolds == Spec => AnswerIsExact
  <1> DEFINE ExactFor(k) ==
        \E now \in {now_ms[k]}, left \in {answer'[k].remaining},
           full \in {now_ms[k] + answer'[k].reset_after} : Exact(now, left, full)'
  <1>1. ASSUME TypeOK, NEW k \in Tasks, NEW now \in Nat, now = now_ms[k],
               NEW v, NEW tat \in Nat,
               Reply(k, Result(v, tat, now)), Tat(now)' = tat, Tat(tat)' = tat
        PROVE  ExactFor(k)
    <2>1. answer'[k] = Result(v, tat, now)
      BY Zenon, <1>1 DEF Reply, TypeOK
    <2>2. answer'[k].remaining = Remaining(tat, now) /\ answer'[k].reset_after = tat - now
      BY <2>1 DEF Result
    <2>3. now_ms[k] + answer'[k].reset_after = tat
      BY <1>1, <2>2
    <2>4. \A left : left = Remaining(tat, now) => Exact(now, left, tat)'
      BY Zenon, <1>1, ExactNext
    <2> QED  BY Zenon, <1>1, <2>2, <2>3, <2>4
  <1>2. ASSUME TypeOK, GcraInv, NEW k \in Tasks, Denied(k) \/ Allowed(k)
        PROVE  ExactFor(k)
    <2>1. PICK now : now = now_ms[k]
      OBVIOUS
    <2>2. now \in Nat /\ clock \in Nat /\ clock' = clock /\ cost[k] \in Costs
      BY Zenon, <1>2, <2>1, CallType DEF GcraInv, TypeOK, Denied, Allowed, Grant, Reply
    <2>3. CASE Denied(k)
      <3>1. Reply(k, Result("denied", Tat(now), now)) /\ UNCHANGED <<stored, expireAt>>
        BY Zenon, <2>1, <2>3 DEF Denied
      <3>2. PICK tat \in Nat : tat = Tat(now)
        BY Zenon, <1>2, <2>2, TatType
      <3>3. \A t : Tat(t)' = Tat(t)
        BY Zenon, <2>2, <3>1 DEF Tat, Present
      <3>4. Tat(tat) = tat
        BY SMTT(30), <1>2, <2>2, <3>2, GcraAssumption DEF Tat, Present, TypeOK
      <3>5. Tat(now)' = tat /\ Tat(tat)' = tat
        BY Zenon, <3>2, <3>3, <3>4
      <3> QED  BY Zenon, <1>1, <1>2, <2>1, <2>2, <3>1, <3>2, <3>5
    <2>4. CASE Allowed(k)
      <3>1. PICK tat : tat = NewTat(now, cost[k])
        OBVIOUS
      <3>2. tat \in Nat /\ tat >= now
        BY <1>2, <2>2, <3>1, TatType
      <3>3. /\ Reply(k, Result("allowed", tat, now)) /\ tat - now > 0
            /\ stored' = tat /\ expireAt' = clock + (tat - now)
        BY Zenon, <2>1, <2>4, <3>1 DEF Allowed, Grant, Set
      <3>4. Tat(now)' = tat /\ Tat(tat)' = tat
        BY SMTT(30), <2>2, <3>2, <3>3, GcraAssumption DEF Tat, Present
      <3> QED  BY Zenon, <1>1, <1>2, <2>1, <2>2, <3>2, <3>3, <3>4
    <2> QED  BY Zenon, <1>2, <2>3, <2>4
  <1>3. TypeOK /\ GcraInv /\ [Next]_vars
          => [\A k \in Tasks : Denied(k) \/ Allowed(k) => ExactFor(k)]_vars
    BY Zenon, <1>2
  <1> QED  BY <1>3, GcraInvariant, PTL DEF Spec, AnswerIsExact

=============================================================================
