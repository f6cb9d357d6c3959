-------------------------------- MODULE Gcra --------------------------------
(***************************************************************************)
(* The distributed rate limiter                                            *)
(* (vortex-filters/src/rate_limiter/redis_store.rs) for one key: proxies   *)
(* read their own clock, then Redis runs the Lua script atomically with    *)
(* that reading as an argument, some time later.  Redis drops the key when *)
(* its time to live has passed.                                            *)
(*                                                                         *)
(* Proxies and Redis share one clock, in milliseconds.  A proxy whose      *)
(* clock is behind acts like one whose call is delayed.  The period is a   *)
(* whole number of emission intervals, as in forward_request (1000 per     *)
(* 60 s).                                                                  *)
(***************************************************************************)
EXTENDS Integers

CONSTANTS
    Tasks,               \* requests under way, on any proxy
    Costs,               \* token costs they may ask for
    limit,
    emission_interval,   \* period_ms / limit
    MaxDelay,            \* time from the clock reading to the script, at most
    MaxTime,             \* bound: the clock stops here
    None

period_ms == limit * emission_interval

ASSUME GcraAssumption ==
    /\ Costs \subseteq Nat
    /\ limit \in Nat \ {0}
    /\ emission_interval \in Nat \ {0}
    /\ MaxDelay \in Nat
    /\ None \notin Nat

VARIABLES
    clock,
    stored,      \* the value of the key: a theoretical arrival time
    expireAt,    \* when its time to live ends
    now_ms,      \* each call's clock reading; None outside a call
    cost,        \* its cost; None outside a call
    answer,      \* the RateLimitResult of the last call, or how it failed
    since,       \* history: where the observed window begins
    spent,       \* history: cost granted in that window
    rewinds      \* history: grants in it that moved the arrival time back

windowVars == <<since, spent, rewinds>>

vars == <<clock, stored, expireAt, now_ms, cost, answer, windowVars>>

Verdicts == {"none", "denied", "allowed", "error"}
Answers == [verdict : Verdicts, remaining : Nat, reset_after : Nat]
NoAnswer == [verdict |-> "none", remaining |-> 0, reset_after |-> 0]
Err == [verdict |-> "error", remaining |-> 0, reset_after |-> 0]

Init ==
    /\ clock = 0
    /\ stored = None
    /\ expireAt = 0
    /\ now_ms = [k \in Tasks |-> None]
    /\ cost = [k \in Tasks |-> None]
    /\ answer = [k \in Tasks |-> NoAnswer]
    /\ since = 0
    /\ spent = 0
    /\ rewinds = 0

-----------------------------------------------------------------------------
(***************************************************************************)
(* The Lua script.                                                         *)
(***************************************************************************)
\* redis.call("GET", key): a key past its time to live is not there.
Present == stored # None /\ clock <= expireAt

\* tat = math.max(tat, now_ms), with now_ms for an absent key.
Tat_Forgets(now) == now

Tat(now) == IF Present /\ stored > now THEN stored ELSE now

NewTat(now, c) == Tat(now) + emission_interval * c

Exceeds(now, c) == NewTat(now, c) - period_ms > now

\* math.floor of the room left in the period, in tokens, and not below zero.
Remaining_RoundsUp(tat, now) ==
    LET room == (period_ms - (tat - now) + emission_interval - 1) \div emission_interval
    IN  IF room < 0 THEN 0 ELSE room

Remaining(tat, now) ==
    LET room == (period_ms - (tat - now)) \div emission_interval
    IN  IF room < 0 THEN 0 ELSE room

Result_Swapped(v, tat, now) ==
    [verdict |-> v, remaining |-> Remaining(tat, now), reset_after |-> now - tat]

Result(v, tat, now) ==
    [verdict |-> v, remaining |-> Remaining(tat, now), reset_after |-> tat - now]

-----------------------------------------------------------------------------
\* check_rate_limit reads the clock; the script is on its way.
CheckRateLimit(k, c) ==
    /\ now_ms[k] = None
    /\ now_ms' = [now_ms EXCEPT ![k] = clock]
    /\ cost' = [cost EXCEPT ![k] = c]
    /\ answer' = [answer EXCEPT ![k] = NoAnswer]
    /\ UNCHANGED <<clock, stored, expireAt, windowVars>>

Reply(k, a) ==
    /\ answer' = [answer EXCEPT ![k] = a]
    /\ now_ms' = [now_ms EXCEPT ![k] = None]
    /\ cost' = [cost EXCEPT ![k] = None]
    /\ UNCHANGED <<clock, since>>

Denied(k) ==
    /\ now_ms[k] # None
    /\ Exceeds(now_ms[k], cost[k])
    /\ Reply(k, Result("denied", Tat(now_ms[k]), now_ms[k]))
    /\ UNCHANGED <<stored, expireAt, spent, rewinds>>

\* SET key new_tat PX (new_tat - now_ms).
Set_ShortTtl(new, now) ==
    /\ stored' = new
    /\ expireAt' = clock + 1

Set(new, now) ==
    /\ stored' = new
    /\ expireAt' = clock + (new - now)

\* A late call that finds the key expired starts from its own reading, even if
\* the key held a later time.
Rewinds(now) == stored # None /\ ~Present /\ stored > now

\* SET refuses a time to live of zero (a cost of zero against an idle key).
Grant(k, a) ==
    LET now == now_ms[k]
        new == NewTat(now, cost[k])
    IN  /\ now # None
        /\ ~Exceeds(now, cost[k])
        /\ new - now > 0
        /\ Set(new, now)
        /\ spent' = spent + cost[k]
        /\ rewinds' = IF Rewinds(now) THEN rewinds + 1 ELSE rewinds
        /\ Reply(k, a)

Allowed(k) == Grant(k, Result("allowed", NewTat(now_ms[k], cost[k]), now_ms[k]))

\* The script granted the request, and the connection failed before its reply
\* came: check_rate_limit returns Err.
ReplyLost(k) == Grant(k, Err)

\* check_rate_limit returns Err and nothing was stored: there was no connection
\* to Redis, it failed before the script ran or after the script denied the
\* request, or SET refused and the script aborted.
Fails(k) ==
    /\ now_ms[k] # None
    /\ Reply(k, Err)
    /\ UNCHANGED <<stored, expireAt, spent, rewinds>>

-----------------------------------------------------------------------------
Tick ==
    /\ clock < MaxTime
    /\ \A k \in Tasks : now_ms[k] # None => clock - now_ms[k] < MaxDelay
    /\ clock' = clock + 1
    /\ UNCHANGED <<stored, expireAt, now_ms, cost, answer, windowVars>>

\* An observer opens a new window.
Mark ==
    /\ since # clock
    /\ since' = clock
    /\ spent' = 0
    /\ rewinds' = 0
    /\ UNCHANGED <<clock, stored, expireAt, now_ms, cost, answer>>

Next ==
    \/ Tick \/ Mark
    \/ \E k \in Tasks :
        \/ Denied(k) \/ Allowed(k) \/ ReplyLost(k) \/ Fails(k)
        \/ \E c \in Costs : CheckRateLimit(k, c)

Spec == Init /\ [][Next]_vars

-----------------------------------------------------------------------------
\* Types of the variables; reset_after is never negative, so the i64 the script
\* returns converts to the u64 of RateLimitResult.
TypeOK ==
    /\ clock \in Nat
    /\ stored \in Nat \cup {None}
    /\ expireAt \in Nat
    /\ now_ms \in [Tasks -> Nat \cup {None}]
    /\ cost \in [Tasks -> Costs \cup {None}]
    /\ answer \in [Tasks -> Answers]
    /\ since \in Nat
    /\ spent \in Nat
    /\ rewinds \in Nat

\* However the calls are delayed and reordered, a client owes at most one period
\* (so a client that pauses for a period has its whole limit back), and the key
\* is never dropped before the time it holds has come.
DebtBounded ==
    stored # None => stored <= clock + period_ms /\ stored <= expireAt

\* What the answer tells the client is what the script would do: right after a
\* call, a further request at the call's own time is allowed exactly if it costs
\* no more than `remaining`, and reset_after later the whole limit is available.
\* (A delayed call may find more than a period owed: then even a cost of zero is
\* denied, which no `remaining` can tell.)
Exact(now, left, full) ==
    /\ \A c \in 1..(limit + 1) : ~Exceeds(now, c) <=> c <= left
    /\ ~Exceeds(full, limit)

AnswerIsExact ==
    [][\A k \in Tasks : Denied(k) \/ Allowed(k) =>
          \E now \in {now_ms[k]}, left \in {answer'[k].remaining},
             full \in {now_ms[k] + answer'[k].reset_after} : Exact(now, left, full)']_vars

\* In no window of time do the costs the script grants exceed the limit, plus what
\* the window's length refills, by more than the longest delay between the clock
\* reading and the script -- and once more for each late call that found the key
\* expired and so forgot a later arrival time.
RateBound ==
    emission_interval * spent <= (period_ms + (clock - since)) + MaxDelay * (1 + rewinds)

\* "Atomic Lua scripts ... ensuring no race conditions for distributed edge
\* clusters" (src/README.md): the bound holds without any allowance.
StrictRateBound == emission_interval * spent <= period_ms + (clock - since)

\* However late the script runs, the limiter is a token bucket that grants only
\* what it can pay, charges no more than the price and no less than the price
\* minus the longest delay, and refuses only what it could not pay with that
\* delay on top.  A call that ends in Err is charged like a grant or not at all.
Max(x, y) == IF x > y THEN x ELSE y

Debt == IF Present THEN Max(stored - clock, 0) ELSE 0

Bucket == INSTANCE TokenBucket WITH
    Price <- emission_interval,
    Capacity <- period_ms,
    Tolerance <- MaxDelay,
    level <- period_ms - Debt,
    asked <- cost,
    verdict <- [k \in Tasks |-> answer[k].verdict]

IsTokenBucket == Bucket!Spec

(***************************************************************************)
(* The inductive strengthenings.                                           *)
(***************************************************************************)
\* A call has a cost exactly while it has a clock reading, which is not in the
\* future and no older than the longest delay.
CallsWellFormed ==
    \A k \in Tasks :
        /\ now_ms[k] = None <=> cost[k] = None
        /\ now_ms[k] # None => now_ms[k] <= clock /\ clock - now_ms[k] <= MaxDelay

\* The earliest time that a call may still start from, had no key expired.
Horizon ==
    IF stored # None /\ stored > clock - MaxDelay THEN stored ELSE clock - MaxDelay

\* What was granted in the window has moved the horizon on since it began, but
\* for what late calls moved it back.
Accounted ==
    /\ since <= clock
    /\ emission_interval * spent <= (Horizon - since) + MaxDelay * (1 + rewinds)

GcraInv == CallsWellFormed /\ DebtBounded

=============================================================================
