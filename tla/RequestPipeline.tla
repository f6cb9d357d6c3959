--------------------------- MODULE RequestPipeline --------------------------
(***************************************************************************)
(* The life of a proxied request: forward_request                          *)
(* (vortex-proxy/src/server.rs) over the routing table, the backends'      *)
(* health flags, circuit breakers and active-request gauges (vortex-core), *)
(* the connection pool and the health prober (vortex-proxy), while the     *)
(* control plane swaps the table.                                          *)
(*                                                                         *)
(* A call is cut at its awaits, where it may also be dropped because the   *)
(* client went away, and between two accesses to shared state.  A breaker  *)
(* call is one step here (CircuitBreaker takes it apart).  The breaker     *)
(* counter is kept up to the threshold, its only use, and `cooled` says    *)
(* that RESET_TIMEOUT_SECS have passed since last_failure_time.  Scores    *)
(* are arbitrary and move while they are compared, so any eligible backend *)
(* may be the minimum; latency samples change nothing else.                *)
(***************************************************************************)
EXTENDS Naturals, Sequences, FiniteSets

CONSTANTS
    Requests,          \* concurrent client requests
    Backends,          \* Backend objects; each reload installs new ones
    Addrs,             \* upstream socket addresses
    AddrOf,            \* Backend::addr
    InitialTable,      \* the backends async_main installs
    Conns,             \* upstream connections (bound)
    FAILURE_THRESHOLD,
    MaxFlips,          \* bound: how often upstreams go down or come up
    None

ASSUME PipelineAssumption ==
    /\ AddrOf \in [Backends -> Addrs]
    /\ InitialTable \in (SUBSET Backends) \ {{}}
    /\ FAILURE_THRESHOLD \in Nat \ {0}
    /\ None \notin Backends \cup Conns \cup Addrs
    /\ IsFiniteSet(Requests)

VARIABLES
    table,      \* RoutingTable::backends
    fresh,      \* Backend objects not created yet
    healthy,    \* Backend::healthy
    failures,   \* CircuitBreaker::failures, up to the threshold
    cooled,     \* the breaker's timeout has passed
    active,     \* PeakEwma::active_requests
    up,         \* upstreams that accept connections (environment)
    flips,      \* changes of `up` so far
    pool,       \* ConnectionPool::idle_connections
    conn,       \* state of each hyper connection
    peer,       \* the upstream address of a connection
    exchanges,  \* requests sent on a connection whose response is not read to its end
    pc,         \* where each call is
    seen,       \* backends of its snapshot the selection may still take
    be,         \* the call's upstream_backend
    held,       \* the call's sender
    effects,    \* history: what the call recorded
    reply,      \* how the latest call ended
    probing,    \* backends of the prober's snapshot still to probe
    probe       \* the probe answered and not applied yet

backendVars == <<healthy, failures, cooled, active>>
connVars == <<pool, conn, peer, exchanges>>
callVars == <<pc, seen, be, held, effects, reply>>
worldVars == <<up, flips>>
probeVars == <<probing, probe>>
vars == <<table, fresh, backendVars, connVars, callVars, worldVars, probeVars>>

\* Awaits of forward_request: here hyper drops the call if the client is gone.
Awaits == {"limit", "pop_ready", "connect", "handshake", "prepare", "head"}
Locations == {"idle", "select", "pop", "send", "push"} \cup Awaits
ConnStates == {"none", "idle", "busy", "draining", "closed"}
Replies == {"none", "200", "429", "503_no_upstream", "503_upstream", "error", "cancelled"}

Init ==
    /\ table = InitialTable
    /\ fresh = Backends \ InitialTable
    /\ healthy = [b \in Backends |-> TRUE]
    /\ failures = [b \in Backends |-> 0]
    /\ cooled = [b \in Backends |-> TRUE]
    /\ active = [b \in Backends |-> 0]
    /\ up = Addrs
    /\ flips = 0
    /\ pool = [a \in Addrs |-> <<>>]
    /\ conn = [c \in Conns |-> "none"]
    /\ peer = [c \in Conns |-> None]
    /\ exchanges = [c \in Conns |-> {}]
    /\ pc = [r \in Requests |-> "idle"]
    /\ seen = [r \in Requests |-> {}]
    /\ be = [r \in Requests |-> None]
    /\ held = [r \in Requests |-> None]
    /\ effects = [r \in Requests |-> <<>>]
    /\ reply = [r \in Requests |-> "none"]
    /\ probing = {}
    /\ probe = None

-----------------------------------------------------------------------------
(***************************************************************************)
(* Breaker, gauge and selection.                                           *)
(***************************************************************************)
BreakerState(b) ==
    IF failures[b] < FAILURE_THRESHOLD THEN "Closed"
    ELSE IF cooled[b] THEN "HalfOpen" ELSE "Open"

Eligible(b) == healthy[b] /\ BreakerState(b) # "Open"

RecordSuccess(r, b) ==
    /\ failures' = [failures EXCEPT ![b] = 0]
    /\ cooled' = [cooled EXCEPT ![b] = TRUE]
    /\ effects' = [effects EXCEPT ![r] = Append(@, "success")]

RecordFailure(r, b) ==
    LET n == IF failures[b] < FAILURE_THRESHOLD THEN failures[b] + 1 ELSE failures[b]
    IN  /\ failures' = [failures EXCEPT ![b] = n]
        /\ cooled' = [cooled EXCEPT ![b] = n < FAILURE_THRESHOLD]
        /\ effects' = [effects EXCEPT ![r] = Append(@, "failure")]

\* The ActiveRequestGuard of a call that ends is dropped.
ReleaseGuard_Twice(r) ==
    active' = IF be[r] = None THEN active ELSE [active EXCEPT ![be[r]] = @ - 2]

ReleaseGuard(r) ==
    active' = IF be[r] = None THEN active ELSE [active EXCEPT ![be[r]] = @ - 1]

\* The call ends: its locals are gone.
Return(r, answer) ==
    /\ pc' = [pc EXCEPT ![r] = "idle"]
    /\ seen' = [seen EXCEPT ![r] = {}]
    /\ be' = [be EXCEPT ![r] = None]
    /\ held' = [held EXCEPT ![r] = None]
    /\ reply' = [reply EXCEPT ![r] = answer]
    /\ ReleaseGuard(r)

Goto(r, where) == pc' = [pc EXCEPT ![r] = where]

\* A response under way to the client of a call that gave its sender back.
Carries(c) == \E r \in exchanges[c] : held[r] # c

\* hyper ends a connection whose sender is dropped, with the exchange of the call
\* that dropped it; but it first delivers the response of an earlier call.
Drop(cs) ==
    LET gone == {c \in cs : ~Carries(c)}
    IN  /\ conn' = [c \in Conns |-> IF c \in gone THEN "none"
                                    ELSE IF c \in cs THEN "draining" ELSE conn[c]]
        /\ peer' = [c \in Conns |-> IF c \in gone THEN None ELSE peer[c]]
        /\ exchanges' = [c \in Conns |-> IF c \in gone THEN {} ELSE exchanges[c]]

Holds(r) == {held[r]} \ {None}

-----------------------------------------------------------------------------
(***************************************************************************)
(* forward_request.                                                        *)
(***************************************************************************)
\* A request is in flight from here until its response has been read.  The Wasm
\* filter runs first; its verdict and its errors are only logged.
Arrive(r) ==
    /\ pc[r] = "idle"
    /\ \A c \in Conns : r \notin exchanges[c]
    /\ Goto(r, "limit")
    /\ effects' = [effects EXCEPT ![r] = <<>>]
    /\ reply' = [reply EXCEPT ![r] = "none"]
    /\ UNCHANGED <<table, fresh, backendVars, connVars, seen, be, held, worldVars, probeVars>>

\* check_rate_limit allowed the request, or failed (fail-open); the selection
\* begins with a snapshot of the table.
RateAllowed(r) ==
    /\ pc[r] = "limit"
    /\ Goto(r, "select")
    /\ seen' = [seen EXCEPT ![r] = table]
    /\ UNCHANGED <<table, fresh, backendVars, connVars, be, held, effects, reply,
                   worldVars, probeVars>>

\* Over the limit: ban_ip, then 429.
RateDenied(r) ==
    /\ pc[r] = "limit"
    /\ effects' = [effects EXCEPT ![r] = Append(@, "ban")]
    /\ Return(r, "429")
    /\ UNCHANGED <<table, fresh, healthy, failures, cooled, connVars, worldVars, probeVars>>

\* select_best_backend: the filter looks at one backend after the other.
SkipBackend(r) ==
    /\ pc[r] = "select"
    /\ \E b \in seen[r] :
        /\ ~Eligible(b)
        /\ seen' = [seen EXCEPT ![r] = @ \ {b}]
    /\ UNCHANGED <<table, fresh, backendVars, connVars, pc, be, held, effects, reply,
                   worldVars, probeVars>>

SelectBackend(r) ==
    /\ pc[r] = "select"
    /\ \E b \in seen[r] :
        /\ Eligible(b)
        /\ be' = [be EXCEPT ![r] = b]
        /\ active' = [active EXCEPT ![b] = @ + 1]
    /\ seen' = [seen EXCEPT ![r] = {}]
    /\ Goto(r, "pop")
    /\ UNCHANGED <<table, fresh, healthy, failures, cooled, connVars, held, effects, reply,
                   worldVars, probeVars>>

SelectNone(r) ==
    /\ pc[r] = "select"
    /\ seen[r] = {}
    /\ Return(r, "503_no_upstream")
    /\ UNCHANGED <<table, fresh, healthy, failures, cooled, connVars, effects, worldVars, probeVars>>

\* ConnectionPool::try_pop pops until a sender is not closed or none is left.
PoolKey_Shared(r) == CHOOSE a \in Addrs : TRUE

PoolKey(r) == AddrOf[be[r]]

Queue(r) == pool[PoolKey(r)]

PopDead(r) ==
    /\ pc[r] = "pop"
    /\ Queue(r) # <<>>
    /\ conn[Head(Queue(r))] = "closed"
    /\ pool' = [pool EXCEPT ![PoolKey(r)] = Tail(@)]
    /\ Drop({Head(Queue(r))})
    /\ UNCHANGED <<table, fresh, backendVars, callVars, worldVars, probeVars>>

PopHit(r) ==
    /\ pc[r] = "pop"
    /\ Queue(r) # <<>>
    /\ conn[Head(Queue(r))] # "closed"
    /\ held' = [held EXCEPT ![r] = Head(Queue(r))]
    /\ pool' = [pool EXCEPT ![PoolKey(r)] = Tail(@)]
    /\ Goto(r, "pop_ready")
    /\ UNCHANGED <<table, fresh, backendVars, conn, peer, exchanges, seen, be, effects,
                   reply, worldVars, probeVars>>

PopMiss_Always(r) ==
    /\ pc[r] = "pop"
    /\ Goto(r, "connect")
    /\ UNCHANGED <<table, fresh, backendVars, connVars, seen, be, held, effects, reply,
                   worldVars, probeVars>>

PopMiss(r) ==
    /\ pc[r] = "pop"
    /\ Queue(r) = <<>>
    /\ Goto(r, "connect")
    /\ UNCHANGED <<table, fresh, backendVars, connVars, seen, be, held, effects, reply,
                   worldVars, probeVars>>

\* ready().await: Ok once the connection can take a request, Err if it closed;
\* until then the call waits.
Ready_NotClosed(c) == conn[c] \in {"idle", "busy"}

Ready(c) == conn[c] = "idle"

PopReady(r) ==
    /\ pc[r] = "pop_ready"
    /\ Ready(held[r])
    /\ Goto(r, "prepare")
    /\ UNCHANGED <<table, fresh, backendVars, connVars, seen, be, held, effects, reply,
                   worldVars, probeVars>>

PopClosed_Waits(r) ==
    /\ pc[r] = "pop_ready"
    /\ conn[held[r]] = "closed"
    /\ UNCHANGED vars

PopClosed(r) ==
    /\ pc[r] = "pop_ready"
    /\ conn[held[r]] = "closed"
    /\ Drop(Holds(r))
    /\ held' = [held EXCEPT ![r] = None]
    /\ Goto(r, "connect")
    /\ UNCHANGED <<table, fresh, backendVars, pool, seen, be, effects, reply,
                   worldVars, probeVars>>

ConnectOk(r) ==
    /\ pc[r] = "connect"
    /\ AddrOf[be[r]] \in up
    /\ Goto(r, "handshake")
    /\ UNCHANGED <<table, fresh, backendVars, connVars, seen, be, held, effects, reply,
                   worldVars, probeVars>>

ConnectErr_NotRecorded(r) ==
    /\ pc[r] = "connect"
    /\ AddrOf[be[r]] \notin up
    /\ Return(r, "503_upstream")
    /\ UNCHANGED <<table, fresh, healthy, failures, cooled, effects, connVars, worldVars, probeVars>>

ConnectErr(r) ==
    /\ pc[r] = "connect"
    /\ AddrOf[be[r]] \notin up
    /\ RecordFailure(r, be[r])
    /\ Return(r, "503_upstream")
    /\ UNCHANGED <<table, fresh, healthy, connVars, worldVars, probeVars>>

HandshakeOk(r) ==
    /\ pc[r] = "handshake"
    /\ \E c \in Conns :
        /\ conn[c] = "none"
        /\ conn' = [conn EXCEPT ![c] = "idle"]
        /\ peer' = [peer EXCEPT ![c] = AddrOf[be[r]]]
        /\ held' = [held EXCEPT ![r] = c]
    /\ Goto(r, "prepare")
    /\ UNCHANGED <<table, fresh, backendVars, pool, exchanges, seen, be, effects, reply,
                   worldVars, probeVars>>

HandshakeErr(r) ==
    /\ pc[r] = "handshake"
    /\ AddrOf[be[r]] \notin up
    /\ RecordFailure(r, be[r])
    /\ Return(r, "503_upstream")
    /\ UNCHANGED <<table, fresh, healthy, connVars, worldVars, probeVars>>

PrepareOk(r) ==
    /\ pc[r] = "prepare"
    /\ Ready(held[r])
    /\ Goto(r, "send")
    /\ UNCHANGED <<table, fresh, backendVars, connVars, seen, be, held, effects, reply,
                   worldVars, probeVars>>

\* "Failed to prepare connection sender": an Err that reaches no breaker.
PrepareErr(r) ==
    /\ pc[r] = "prepare"
    /\ conn[held[r]] = "closed"
    /\ Drop(Holds(r))
    /\ Return(r, "error")
    /\ UNCHANGED <<table, fresh, healthy, failures, cooled, pool, effects, worldVars, probeVars>>

\* send_request hands the request to the connection task.
Send(r) ==
    /\ pc[r] = "send"
    /\ IF conn[held[r]] = "closed"
         THEN UNCHANGED <<conn, exchanges>>
         ELSE /\ conn' = [conn EXCEPT ![held[r]] = "busy"]
              /\ exchanges' = [exchanges EXCEPT ![held[r]] = @ \cup {r}]
    /\ Goto(r, "head")
    /\ UNCHANGED <<table, fresh, backendVars, pool, peer, seen, be, held, effects, reply,
                   worldVars, probeVars>>

\* The response head arrives (its status is not looked at).
HeadOk(r) ==
    /\ pc[r] = "head"
    /\ conn[held[r]] = "busy"
    /\ RecordSuccess(r, be[r])
    /\ Goto(r, "push")
    /\ UNCHANGED <<table, fresh, healthy, active, connVars, seen, be, held, reply,
                   worldVars, probeVars>>

HeadErr(r) ==
    /\ pc[r] = "head"
    /\ conn[held[r]] = "closed"
    /\ RecordFailure(r, be[r])
    /\ Drop(Holds(r))
    /\ Return(r, "503_upstream")
    /\ UNCHANGED <<table, fresh, healthy, pool, worldVars, probeVars>>

\* ConnectionPool::push.
PoolPush(r) ==
    IF conn[held[r]] = "closed"
      THEN Drop(Holds(r)) /\ UNCHANGED pool
      ELSE /\ pool' = [pool EXCEPT ![PoolKey(r)] = Append(@, held[r])]
           /\ UNCHANGED <<conn, peer, exchanges>>

\* The sender goes back to the pool, the latency is observed, and the response
\* goes to the client; its body may still be on its way over the connection.
Push_NoGuardDrop(r) ==
    /\ pc[r] = "push"
    /\ PoolPush(r)
    /\ pc' = [pc EXCEPT ![r] = "idle"]
    /\ seen' = [seen EXCEPT ![r] = {}]
    /\ be' = [be EXCEPT ![r] = None]
    /\ held' = [held EXCEPT ![r] = None]
    /\ reply' = [reply EXCEPT ![r] = "200"]
    /\ UNCHANGED <<table, fresh, healthy, failures, cooled, active, effects, worldVars, probeVars>>

Push(r) ==
    /\ pc[r] = "push"
    /\ PoolPush(r)
    /\ Return(r, "200")
    /\ UNCHANGED <<table, fresh, healthy, failures, cooled, effects, worldVars, probeVars>>

\* The client disconnects: the call is dropped at its await, with its guard and
\* its sender.
Cancel(r) ==
    /\ pc[r] \in Awaits
    /\ Drop(Holds(r))
    /\ Return(r, "cancelled")
    /\ UNCHANGED <<table, fresh, healthy, failures, cooled, pool, effects, worldVars, probeVars>>

-----------------------------------------------------------------------------
(***************************************************************************)
(* Upstream connections, as hyper presents them, and the environment.      *)
(***************************************************************************)
\* The connection is through with its exchange; without a sender it ends.
Settle(c, state) ==
    /\ conn' = [conn EXCEPT ![c] = IF conn[c] = "draining" THEN "none" ELSE state]
    /\ peer' = [peer EXCEPT ![c] = IF conn[c] = "draining" THEN None ELSE peer[c]]
    /\ exchanges' = [exchanges EXCEPT ![c] = {}]

\* The client has read the response body to its end.
BodyDone(c) ==
    /\ conn[c] \in {"busy", "draining"}
    /\ \A r \in exchanges[c] : pc[r] # "head"
    /\ Settle(c, "idle")
    /\ UNCHANGED <<table, fresh, backendVars, pool, callVars, worldVars, probeVars>>

\* The peer closes the connection (keep-alive timeout, reset, restart), or the
\* client leaves while it reads the body.
ConnCloses(c) ==
    /\ conn[c] \in {"idle", "busy", "draining"}
    /\ Settle(c, "closed")
    /\ UNCHANGED <<table, fresh, backendVars, pool, callVars, worldVars, probeVars>>

UpstreamFlips(a) ==
    /\ flips < MaxFlips
    /\ flips' = flips + 1
    /\ up' = IF a \in up THEN up \ {a} ELSE up \cup {a}
    /\ UNCHANGED <<table, fresh, backendVars, connVars, callVars, probeVars>>

\* RESET_TIMEOUT_SECS pass after the last recorded failure.
CoolDown(b) ==
    /\ ~cooled[b]
    /\ cooled' = [cooled EXCEPT ![b] = TRUE]
    /\ UNCHANGED <<table, fresh, healthy, failures, active, connVars, callVars,
                   worldVars, probeVars>>

-----------------------------------------------------------------------------
(***************************************************************************)
(* The control plane and the health prober.                                *)
(***************************************************************************)
\* One atomic swap; the new Backend objects have not been in use before.
UpdateBackends(bs) ==
    /\ table' = bs
    /\ fresh' = fresh \ bs
    /\ UNCHANGED <<backendVars, connVars, callVars, worldVars, probeVars>>

\* The admin service installs one new backend.
ReloadConfig(b) ==
    /\ b \in fresh
    /\ UpdateBackends({b})

\* The Kubernetes watcher installs the backends of the route it was told of, if
\* the route has any.
ApplyRoute(bs) ==
    /\ bs # {}
    /\ UpdateBackends(bs)

ProbeTick ==
    /\ probing = {} /\ probe = None
    /\ probing' = table
    /\ UNCHANGED <<table, fresh, backendVars, connVars, callVars, worldVars, probe>>

ProbeConnect(b) ==
    /\ probe = None
    /\ b \in probing
    /\ probing' = probing \ {b}
    /\ probe' = <<b, AddrOf[b] \in up>>
    /\ UNCHANGED <<table, fresh, backendVars, connVars, callVars, worldVars>>

ProbeApply_OnlyDown ==
    /\ probe # None
    /\ healthy' = [healthy EXCEPT ![probe[1]] = @ /\ probe[2]]
    /\ probe' = None
    /\ UNCHANGED <<table, fresh, failures, cooled, active, connVars, callVars,
                   worldVars, probing>>

ProbeApply ==
    /\ probe # None
    /\ healthy' = [healthy EXCEPT ![probe[1]] = probe[2]]
    /\ probe' = None
    /\ UNCHANGED <<table, fresh, failures, cooled, active, connVars, callVars,
                   worldVars, probing>>

-----------------------------------------------------------------------------
CallStep(r) ==
    \/ RateAllowed(r) \/ RateDenied(r) \/ SkipBackend(r) \/ SelectBackend(r) \/ SelectNone(r)
    \/ PopDead(r) \/ PopHit(r) \/ PopMiss(r) \/ PopReady(r) \/ PopClosed(r)
    \/ ConnectOk(r) \/ ConnectErr(r) \/ HandshakeOk(r) \/ HandshakeErr(r)
    \/ PrepareOk(r) \/ PrepareErr(r) \/ Send(r) \/ HeadOk(r) \/ HeadErr(r) \/ Push(r)

ProberStep == ProbeTick \/ ProbeApply \/ \E b \in Backends : ProbeConnect(b)

Next ==
    \/ \E r \in Requests : Arrive(r) \/ CallStep(r) \/ Cancel(r)
    \/ \E c \in Conns : BodyDone(c) \/ ConnCloses(c)
    \/ \E a \in Addrs : UpstreamFlips(a)
    \/ \E b \in Backends : CoolDown(b)
    \/ \E b \in fresh : ReloadConfig(b)
    \/ \E bs \in SUBSET fresh : ApplyRoute(bs)
    \/ ProberStep

Spec == Init /\ [][Next]_vars

\* Tasks run; time passes; the prober's timer fires; clients read their
\* responses.  That an upstream answers what it accepted is an assumption on
\* the environment: forward_request has no timeout of its own.
Fairness ==
    /\ \A r \in Requests : WF_vars(CallStep(r))
    /\ \A c \in Conns : WF_vars(BodyDone(c))
    /\ \A b \in Backends : WF_vars(CoolDown(b))
    /\ WF_vars(ProberStep)

FairSpec == Spec /\ Fairness

-----------------------------------------------------------------------------
\* Types of the variables; in particular no gauge is decremented below zero.
TypeOK ==
    /\ table \subseteq Backends /\ fresh \subseteq Backends
    /\ healthy \in [Backends -> BOOLEAN]
    /\ failures \in [Backends -> 0..FAILURE_THRESHOLD]
    /\ cooled \in [Backends -> BOOLEAN]
    /\ active \in [Backends -> Nat]
    /\ up \subseteq Addrs /\ flips \in Nat
    /\ pool \in [Addrs -> Seq(Conns)]
    /\ conn \in [Conns -> ConnStates]
    /\ peer \in [Conns -> Addrs \cup {None}]
    /\ exchanges \in [Conns -> SUBSET Requests]
    /\ pc \in [Requests -> Locations]
    /\ seen \in [Requests -> SUBSET Backends]
    /\ be \in [Requests -> Backends \cup {None}]
    /\ held \in [Requests -> Conns \cup {None}]
    /\ effects \in [Requests -> Seq({"success", "failure", "ban"})]
    /\ reply \in [Requests -> Replies]
    /\ probing \subseteq Backends
    /\ probe \in {None} \cup (Backends \X BOOLEAN)

\* The gauge of a backend counts the calls that selected it and have not ended,
\* on every path out of forward_request, cancellation included, and for a
\* backend that a reload has since removed from the table.
GuardBalance ==
    \A b \in Backends : active[b] = Cardinality({r \in Requests : be[r] = b})

\* A response is never mixed with another: one exchange at a time on a
\* connection, although senders return to the pool before the body is read.
OneExchange == \A c \in Conns : \A r, s \in exchanges[c] : r = s

\* A sender is owned by one call or sits once in the pool of its own address; a
\* call's sender leads to the backend it selected.
SenderOwned ==
    /\ \A r, s \in Requests : held[r] # None /\ held[r] = held[s] => r = s
    /\ \A r \in Requests : held[r] # None => peer[held[r]] = AddrOf[be[r]]
    /\ \A a \in Addrs : \A i \in 1..Len(pool[a]) :
        /\ peer[pool[a][i]] = a
        /\ \A r \in Requests : held[r] # pool[a][i]
        /\ \A j \in 1..Len(pool[a]) : pool[a][i] = pool[a][j] => i = j

\* The pool has no limit of its own; still the connections to an address, pooled,
\* in use or only delivering a response after their sender was dropped, never
\* outnumber the requests in flight together, from the call of forward_request to
\* the end of the response body.
PoolBounded ==
    \A a \in Addrs :
        Cardinality({c \in Conns : peer[c] = a}) <= Cardinality(Requests)

\* What a call recorded matches the way it ended: one success for a proxied
\* response, one failure for a 503 that names the upstream, a ban for a 429, and
\* nothing otherwise.
EffectsOf(answer) ==
    CASE answer = "200" -> <<"success">>
      [] answer = "503_upstream" -> <<"failure">>
      [] answer = "429" -> <<"ban">>
      [] OTHER -> <<>>

EffectsMatchReply ==
    \A r \in Requests : pc[r] = "idle" => effects[r] = EffectsOf(reply[r])

(***************************************************************************)
(* The inductive strengthening.                                            *)
(***************************************************************************)
\* The locals of a call, and what it has recorded, by where it is.
CallShape ==
    \A r \in Requests :
        /\ be[r] # None <=> pc[r] \notin {"idle", "limit", "select"}
        /\ held[r] # None <=> pc[r] \in {"pop_ready", "prepare", "send", "head", "push"}
        /\ pc[r] # "idle" => effects[r] = IF pc[r] = "push" THEN <<"success">> ELSE <<>>

\* A connection has a peer while it exists and an exchange while it is busy or
\* draining; one that was found ready has none until its owner sends.
ConnShape ==
    /\ \A c \in Conns :
        /\ conn[c] = "none" <=> peer[c] = None
        /\ exchanges[c] # {} <=> conn[c] \in {"busy", "draining"}
    /\ \A r \in Requests : pc[r] = "send" => conn[held[r]] \notin {"busy", "draining"}

\* A request is in one exchange, alone; its call has returned or holds the
\* connection.
ExchangeShape ==
    /\ OneExchange
    /\ \A c, d \in Conns : \A r \in exchanges[c] : r \in exchanges[d] => c = d
    /\ \A c \in Conns : \A r \in exchanges[c] :
        pc[r] = "idle" \/ (pc[r] \in {"head", "push"} /\ held[r] = c)

DrainSet == {c \in Conns : conn[c] = "draining"}

\* A draining connection has no sender.
NoSender ==
    \A c \in DrainSet :
        /\ \A r \in Requests : held[r] # c
        /\ \A a \in Addrs : \A i \in 1..Len(pool[a]) : pool[a][i] # c

\* Every other connection is in its pool or held.
NoLeak ==
    \A c \in Conns : peer[c] # None =>
        \/ c \in DrainSet
        \/ \E i \in 1..Len(pool[peer[c]]) : pool[peer[c]][i] = c
        \/ \E r \in Requests : held[r] = c

\* A call goes past the pool of its address with a sender from it, or finds it
\* empty: so a pooled sender always stands for a request that is not past it, nor
\* has its response on a connection that left the pool for good.
Past(a) == {r \in Requests : be[r] # None /\ AddrOf[be[r]] = a /\ pc[r] # "pop"}

Draining(a) == {r \in Requests : \E c \in DrainSet : peer[c] = a /\ r \in exchanges[c]}

Taken(a) == Past(a) \cup Draining(a)

QueueRoom ==
    \A a \in Addrs : Len(pool[a]) + Cardinality(Taken(a)) <= Cardinality(Requests)

PipelineInv ==
    /\ CallShape /\ EffectsMatchReply /\ GuardBalance
    /\ ConnShape /\ ExchangeShape /\ SenderOwned /\ NoSender /\ NoLeak /\ QueueRoom

-----------------------------------------------------------------------------
\* Every call ends, also one that popped a connection still carrying another
\* response: the calls never wait for one another in a circle.  The only call
\* that can go on for ever is one whose try_pop loop keeps finding senders
\* that other calls pushed and that closed before it popped them.
CallsEnd ==
    \A r \in Requests :
        \/ pc[r] # "idle" ~> pc[r] = "idle"
        \/ []<><<PopDead(r)>>_vars

\* A backend of the table whose upstream is up for good is not locked out: time
\* and again it is healthy and its breaker lets requests through.
NotLockedOut ==
    \A b \in Backends :
        <>[](AddrOf[b] \in up) => []<>(b \in table => Eligible(b))

=============================================================================
