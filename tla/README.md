# Vortex proxy: TLA+ models, checks and proofs

TLA+ models of the concurrent parts of Vortex, a Rust reverse proxy, with TLC runs on small
instances and TLAPS proofs for every value of the constants. `PROJECT.json` lists the runs, the
source lines behind each definition, the hazards, the findings and the theorems.

## The system

| Part | Source | State | Operations | What is hard |
|---|---|---|---|---|
| Circuit breaker | `vortex-core/src/domain/circuit_breaker.rs` | two relaxed atomics | `state`, `record_success`, `record_failure` | calls touch both cells without a lock |
| Latency average, gauge | `vortex-core/src/load_balancer/ewma.rs` | two atomics | `observe_latency`, `increment_active`, guard drop | compare-and-swap loop; guard under cancellation |
| Selection | `vortex-core/src/load_balancer/selector.rs` | none | `select_best_backend` | walks a snapshot while flags and scores move |
| Routing table | `vortex-core/src/domain/{routing,backend}.rs` | swapped vector, health flags | `update_backends`, `snapshot`, `get_best_backend`, `get_ai_backend` | reload under requests in flight; several walks per call |
| Request pipeline | `vortex-proxy/src/server.rs` | locals of `forward_request` | one call per request; `start_server` | an await, an error path or a disconnect at every step |
| Connection pool | `vortex-proxy/src/connection_pool/pool.rs` | queue of senders per address | `try_pop`, `push` | senders close at any time and may still carry a body |
| Health prober | `vortex-proxy/src/health_check/prober.rs` | snapshot, probe result | one loop | result applied later than observed |
| Rate limiter | `vortex-filters/src/rate_limiter/redis_store.rs` | one Redis key per client | `check_rate_limit` | clock read before the script runs; key expiry |
| Bans | `vortex-proxy/src/ban_manager.rs` | map of expiries | `ban_ip`, sweeper | manager and kernel map change separately |
| Kernel filter | `vortex-ebpf/` | kernel hash map | `block_ip`, `unblock_ip`, XDP program | key encoding, capacity |
| Admin service | `vortex-admin/src/server.rs` | none of its own | `reload_config`, `update_wasm_plugin`, `get_stats` | swaps state that requests use |
| Kubernetes watcher | `vortex-admin/src/k8s_watcher.rs` | event stream | table swap per event | every event replaces the whole table |
| Certificates | `vortex-proxy/src/tls.rs` | map, default bundle | `register_domain`, `remove_domain`, `reload_from_paths`, `get_certificate` | lookup in three steps; files that change under a reload |
| Wasm filters | `vortex-filters/src/` | hot-swapped payload, instance pool | `execute_filter`, `execute_proxy_wasm` | replaced while it runs; every error path returns its instance |
| Start-up, shutdown | `vortex-proxy/src/main.rs` | ports, socket file, broadcast channel | start, Ctrl+C, drain | several instances on one host, crashes; two-second cut-off |
| QUIC, telemetry, metrics | `vortex-proxy/src/` | two ports | start, configuration, logging | may fail at start-up |

A request runs the Wasm filter, asks the rate limiter (a refusal bans the client in the kernel),
takes a snapshot of the table, filters it by health flag and breaker, raises the gauge, pops or
opens a connection, sends, records the outcome in the breaker, returns the sender to the pool and
reports the latency. Meanwhile the prober writes health flags, the sweeper lifts bans, and the
control plane swaps the table.

## Modules

**CircuitBreaker.** One breaker, many threads, one step per atomic access. All accesses are
`Relaxed` and on different cells, so the two stores of `record_success`, and the two loads of
`state`, happen in either order (`todo` holds those still to come). `trippedAt`, `latestStamp` and
`overlapped` are history.

**BanManager.** `ban_ip` is three steps (block in the kernel, compute the expiry, insert). The
sweeper visits entries in any order. `Insert` waits while `retain` holds the entry's shard; the
kernel map has its own lock, so a block can come between unblock and removal. A failed `block_ip`
changes nothing and is not a step. Keys are computed from the octets in both byte orders.

**PeakEwma, AtomicAverage.** `observe_latency` as load, then successful or failed exchange. Values
are natural multiples of a small unit, and the mean rounds down to one, as f64 rounds to a
representable number; f64 special values are not modelled. A spurious failure of the weak exchange
leaves the call where it was, a stuttering step. `AtomicAverage` is the promise: one indivisible
fold per call.

**Gcra, TokenBucket.** One key. A call reads the clock (`CheckRateLimit`) and at most `MaxDelay`
later the script runs as one step, with that reading as its time: `Denied` or `Allowed`. A call ends in `Err` with its charge made
(`ReplyLost`) or not (`Fails`: no connection, or a `PX` of zero, which `SET` refuses). Proxies and
Redis share a clock; a proxy whose clock is behind acts like a delayed one, and one whose clock is
ahead is not modelled. `since` and `spent` are an observer's window, and `rewinds` counts the late calls in it
that found the key expired and so forgot a later time it had held. `TokenBucket` is the promise: a
bucket that charges, and refuses, exactly up to a `Tolerance`, which is the longest delay. Neither
`RateBound` nor the bucket counts requests that the proxy lets pass after `Err` without a charge.

**RequestPipeline.** Composes `forward_request`, table, flags, breakers, gauges, pool and prober.
A call is cut at its awaits (where `Cancel` may drop it) and between accesses to shared state.
Simplifications:
- a breaker call is one step (CircuitBreaker takes it apart), and its clock is the flag `cooled`;
- scores are arbitrary, so any eligible backend may be selected; latency samples have no other use;
- the snapshot is taken with the rate limiter's answer and the gauge raised with the selection: a
  step of another actor between either pair could as well come before or after it, as no property
  observes the state in between;
- health flag and breaker of a backend are read at one instant;
- hyper's connections are external: `idle`, `busy` until the body is read, or `closed`. Dropping
  the sender ends the connection, with the exchange of the call that drops it; but one that still
  delivers the response of an earlier call is `draining` until that body is read or the connection
  fails. A request is in flight, and its name not reused, until then.

**Server.** The process around the pipeline: the accept loop of `start_server`, one task per
connection (with or without TLS), the Ctrl+C task with its broadcast channel, and the sleep of
`async_main` before it returns and the runtime drops what is left. A request is only the time it
still needs, and has ended when that time is up. Dropping the runtime is one step: what a task does
while other workers already stop could as well come before it. `promised` is history.

**Startup.** Any number of instances on one host. `async_main` is cut where it takes a port, spawns
a task or may panic (`Panics`: the `unwrap()` and `expect()` of `async_main` and of the constructors
it calls, the XDP loader's included). Release builds abort on a panic (`Cargo.toml`), so the one of
the QUIC task, for a key file without a key, ends the process too (`QuicPanics`). The admin service
removes its socket path, ignoring an error (`RemoveSocketErr`), and then binds it; QUIC and the
Kubernetes watcher start, fail or never answer.
`Ends` is what the kernel does for a process that is gone: ports are freed, the socket file stays.
Other programs may take the ports. What happens while the listener serves is in Server.

**Certificates.** `SniCertificateManager`. A lookup reads the exact name, the wildcard and the
default in three steps; registrations, removals and reloads come between. A reload reads the
certificate file, then the key file, then registers; an administrator replaces one file at a time.
A name is the sequence of its labels, and a file holds a generation, nothing of the right kind, or
something unreadable. A key file without a key makes `load_private_key` panic: the process is gone
and the manager starts over (`Aborts`). `overtaken` and `disturbed` are history.

**Selection.** One call of `select_best_backend`, `get_best_backend` or `get_ai_backend`: it takes
a snapshot and walks it, one backend per step, once for each model it may use, while health flags,
breakers and the table change. `Scores` holds the values a backend's score takes during a call, and
each comparison reads any of them. `steady` is history: the backends that passed the filter
throughout.

**RouteWatcher.** The table as the Kubernetes watcher and `reload_config` fill it. The API server
and the `kube` library are external: edits queue events, deletions queue none (`applied_objects`),
and a broken watch starts over with what there is.

**Plugins.** Executions of the active Wasm plugin, cut at the copy of the bytes, compilation,
instantiation from the pool and the call, while `update_wasm_plugin` replaces it. A plugin is what
its bytes lead to in each step. The server calls only `execute_filter`; `execute_proxy_wasm` is
modelled next to it.

Components that share no state are checked together, each moving while the others rest in an initial
state: Certificates, Selection and Plugins in `MCHotSwap`, and those with liveness properties,
Server, Startup, RouteWatcher and PeakEwma, in `MCTasks`.

`MC*` modules hold the constants of the runs, `*Proofs` modules the theorems; the lemmas about the
request path fill a module of their own, `RequestPipelineLemmas`.

## Runs

| Run | Shows | Distinct states |
|---|---|---|
| `breaker` | `TripSticks`, `OpenIsRecent` | 251,913 |
| `bans` | `NoOrphanBlock`, `UnbackedOnlyByRace`, `BlocksLifted` | 23,872 |
| `gcra` | `RateBound`, `DebtBounded`, `AnswerIsExact`, refinement of `TokenBucket`, with delays | 333,855 |
| `pipeline` | `GuardBalance`, `SenderOwned`, `OneExchange`, `PoolBounded`, `EffectsMatchReply` | 607,189 |
| `pipeline_live` | `CallsEnd`, `NotLockedOut` under fairness | 100,500 |
| `tasks` | Server: `GaugeExact`, `ShortRequestsFinish`, `SignalEnds`, `QueueMoves`; Startup: `AdminReachable`, `AdminComesUp`, `StartsAnyway`; RouteWatcher: `UpToDate`, `EditsArrive`; PeakEwma: `InBounds`, refinement of `AtomicAverage`, lock-freedom (`ObserveEnds`) | 42,980 |
| `hotswap` | `AtomicUnlessOvertaken`, `ReloadExact`; `FallbackOnlyWhenNeeded`, `NotTheWorst`; `OnePluginPerRequest`, `InstancesReturned` | 124,178 |

`RateBound` says how far delay can take the limiter from its limit: in no window of time are the
costs granted more than the limit, the refill of the window's length, and the longest delay - once,
and once more for each call so late that it found the key expired although the key had held a later
time than its reading. `gcra_race` shows that the allowance is needed.

`PoolBounded` bounds connections by requests in flight, up to the end of their response bodies. A
response that outlives its call counts: its connection may be open without a sender.

`AdminReachable` holds for a reason that is not in the admin service, which removes the socket of
whoever serves: a second instance panics at the metrics port before it gets there. The mutant that
only logs that failure breaks it. `AdminComesUp` excepts a socket file that cannot be removed, and
`StartsAnyway` the panics named above: what it shows is that no error of an optional part, and none
that never answers, holds the start up.

The other runs end in a counterexample: the code does not do what one of its comments or documents
says. The findings in `PROJECT.json` quote the sentence.

| Run | What happens |
|---|---|
| `breaker_race` | `record_success` zeroes the trip time after other threads tripped the breaker: tripped, not Open |
| `bans_race` | a sweep between block and insert lifts a new ban at once |
| `bans_byte_order` | on a little-endian host the XDP program looks up another key than the limiter inserts |
| `gcra_race` | a rate-limit script that runs late charges its cost to time already past, and a prompt call then gets the whole burst: more than the limit plus the refill in one window |
| `fallback_load` | `get_ai_backend` returns a backend with a high score throughout although a fallback model has one with a low score: only the absence of a healthy primary makes it fall back |

The models also have behaviours that no run states as a property:
- any number of requests is admitted in HalfOpen; a sender is pooled, and the gauge lowered, when
  the response head has arrived and the body has not; a connection that closes before the second
  `ready()` ends the call in an error without a response;
- after the race of `bans_race` the unblock fails on every tick and the entry stays;
- when `ctrl_c()` returns an error its task drops the only sender of the channel, and the listener
  stops without a signal (`CtrlCErr`);
- a lookup that is overtaken can answer the default although at every instant the map had an entry
  for the name; a reload during which the files are replaced registers a certificate with the key
  of another, and a slow reload overwrites what was registered meanwhile (`ReloadExact` is about
  reloads during which no file changes); one that finds no key in its file ends the process;
- with several routes the last event decides the table, and the backends of a deleted or emptied
  route stay in it;
- an instance started while another one drains panics at the metrics port;
- `block_ip` of an IPv6 address only logs, and the manager files a ban the kernel does not enforce.

### Bounds

Breaker: three threads are a success, a failure and a reader, or two failures that trip around a
success; with threshold 2 the trip takes two calls. Bans: two addresses compete for one kernel
entry, three calls allow a ban, its expiry and a second ban of the same address; the clock runs on
until every ban has expired. Gcra: costs below, at and above the limit, and time for more than a
whole period; a delay of one emission interval. Pipeline: two requests are enough for every pairwise race on a sender or a gauge; three
connections are one more than `PoolBounded` allows to one address, so that the bound can be
violated (a call that would need a fourth waits); the upstream of one address goes down, and one
reload moves the table from one address to the other. `pipeline_live` has no reload, and an
upstream that goes down and comes back. Server: three connections, so that one can stall in its
handshake and one be served while a third is queued; requests shorter than, as long as and longer
than the grace period. Startup: two instances, so that one starts while the other runs, drains or
has crashed. Routes: two, with up to `MaxQueue = 3` events under way, with and without backends.
Average: three threads with a fast and a slow response. Hotswap: one lookup and one reload, since readers do not affect one another and a
second writer is there as `Register`; an exact domain registered in another case below a wildcard,
and a name without a dot; three backends of which two have crossing scores and one is always worst,
two models and a fallback list; two workers for one instance, and a plugin for each way an execution can end.
Thresholds of 1 or 2 stand for 5,
since only reaching the threshold matters. Requests and
connections are interchangeable, hence the symmetry in the safety runs; no liveness run uses it.

### Fairness

- Bans: the clock runs, tokio fires the sweeper's interval, and `ban_ip` has no await.
- Average: a running thread takes its next step, and a weak exchange does not fail spuriously for ever.
- Pipeline: tasks that can run do, the prober's timer fires, time passes, clients read their
  bodies. That an upstream answers what it accepted is assumed of the environment: the code has
  no response timeout. `CallsEnd` leaves out one case, a `try_pop` loop that for ever finds closed
  senders which other calls keep pushing; nothing in the code excludes it.
- Server: `select!` polls its branches in random order, so neither the channel nor the backlog is
  passed over for ever; timers fire, and requests end when their time is up. Nothing is assumed of
  clients or handshakes.
- Startup: the main task and the admin task of a process take their next step. Nothing is assumed
  of the Kubernetes API or of QUIC, and no failure has to happen.
- Routes: the watcher task handles the event at the head of its stream. That `kube` lists the
  resources again after a broken watch is part of `Resync`; a watch that breaks for ever, or a route
  that is edited for ever, is excepted in `EditsArrive`.

In `MCTasks` a server that has not bound its port must do so only while the other components rest.

## Proofs

Each proof has an inductive invariant, preserved by each action in turn. A leaf names its prover
(`Zenon`, `SMTT(30)`) where the default order of provers would be slow.

- **CircuitBreakerProofs**: `TypeOK`, `TripSticks`, `OpenIsRecent`. `TripSticks` alone is not
  inductive: `TripInv` adds that, without overlap, successes and failures are never in flight
  together, that a failure on its way to the time cell carries a time no older than the trip, and
  that stored times come from real readings. Assumed: a positive threshold, a start-up time later
  than the timeout.
- **BanManagerProofs**: `TypeOK`, `NoOrphanBlock`, `UnbackedOnlyByRace`. `BanInv` adds that while
  the sweeper holds an entry its address is blocked only by a call about to insert, and that such a
  call has its block or lost it in the race. Distinct addresses have distinct keys (`KeysDistinct`).
- **PeakEwmaProofs**: `TypeOK`, `InBounds`, and the refinement of `AtomicAverage`. `EwmaInv` adds
  that loaded values are within bounds; `DecayBetween` is the arithmetic of the weighted mean.
  Assumed: a decay from 0 to 1.
- **GcraProofs**: `TypeOK`, `DebtBounded`, `AnswerIsExact`, `RateBound` and the refinement of
  `TokenBucket`, for any delay and any failed calls; and `StrictWithoutDelay`, that without delay
  nothing has to be allowed for in `RateBound`. `AnswerIsExact` rests on `RemainingIsLargest`: the
  quotient in `remaining` is the largest cost that is not denied. It leaves out requests of cost
  zero, which a delayed call may find denied when more than a period is owed. `GcraInv` says that a
  call's reading is no older than the longest delay and that the key lives until the time it holds;
  `Accounted` that what was granted in the window has moved on the earliest time a call may start
  from (`Horizon`), but for what rewinds took back. Assumed: the period is a whole number of
  emission intervals, as with 1000 per 60 s.
- **RequestPipelineProofs**: `TypeOK`, `GuardBalance`, `EffectsMatchReply`, `SenderOwned`,
  `OneExchange`, `PoolBounded`, for any requests, backends, addresses and connections. `PipelineInv`
  adds what the locals of a call are at each of its awaits (`CallShape`), that a connection has
  an exchange exactly while it is busy or draining (`ConnShape`), that the call of an exchange has
  returned or holds its connection (`ExchangeShape`), that a draining connection has no sender
  (`NoSender`) and every other one is pooled or held (`NoLeak`), and, for the bound on connections,
  that a pooled sender always stands for a request that is neither past the pool of its address nor
  the reader of a draining connection (`QueueRoom`). What an action does to senders is one of seven
  moves (stay, lose, leave, discard, take, make, give), and ownership is proved per move. Assumed:
  finitely many requests.
- **ProcessProofs**, about three components:
  - Server: `TypeOK`, `GaugeExact`, `ShortRequestsFinish`. `PromiseKept` adds that a request that
    began in time always needs less than is left of the sleep. Assumed: finitely many connections,
    and requests that take some time.
  - Startup: `StartupTypeOK` and `AdminReachable`, for any number of instances. `StartupInv` adds
    that a process past the metrics port holds it, and that only such a process has tasks.
  - Certificates: `CertTypeOK`, `AtomicUnlessOvertaken`, `ReloadExact`, for any threads, names and
    bundles. `CertInv` adds that the keys a lookup has passed are absent unless it was overtaken,
    and that what an undisturbed reload has read is what the files hold; an abort leaves nothing of
    either. Assumed: cleaning a name
    twice is cleaning it once.
- **HotSwapProofs**, about three more:
  - Selection: `SelectTypeOK`, `FallbackOnlyWhenNeeded`, `NotTheWorst`, for any tables, models,
    fallback lists and scores. `WalkInv` says what the walk knows of the part behind it: a model is
    given up only when no steady backend serves it, and a steady backend that was passed by is the
    best, or was compared with a best that need not be above it. Assumed: tables are sequences of
    backends and never empty, as `main.rs`, the watcher and `reload_config` install them.
  - RouteWatcher: `WatchTypeOK`, `UpToDate`, for any routes and events. `WatchInv` adds that the
    last event under way for a route has what the cluster has unless the route was deleted since,
    and that a route with none under way that the table came from has not changed. Assumed: finitely
    many routes, and addresses in the static tables that parse (the code unwraps them).
  - Plugins: `PluginTypeOK`, `InstancesReturned`, `OnePluginPerRequest`, for any workers, binaries
    and pool size. `PluginInv` adds that an execution's plugin has passed the steps the execution has
    behind it. Assumed: finitely many workers, and a pool of at least one instance.

Only model-checked: liveness (`BlocksLifted`, `ObserveEnds`, `CallsEnd`, `NotLockedOut`,
`SignalEnds`, `QueueMoves`, `AdminComesUp`, `StartsAnyway`, `EditsArrive`), which is out of the prover's reach.
Every other property of the passing runs is also a theorem.

## Not modelled

- The insides of libraries: TLS and QUIC handshakes, PEM parsing, HTTP framing, what a Wasm guest
  computes. The models have their outcomes where the code branches on them.
- The host functions of `host.rs`: `proxy_log` logs, and `proxy_get_header_map_value` and
  `proxy_continue_stream` are stubs. None of them changes state of the proxy.
- Request and response contents, AI metadata beyond the model, the fallback list and the cost, and
  the text of logs and metrics: no state depends on them.
- Tracing: header extraction and injection, `parse_w3c_traceparent`, exporter settings. They are
  sequential, read-only with respect to the proxy, and covered by unit tests.
- `select_healthy_backends` and `record_proxy_ingress_metric`, which have no caller, and the
  read-only accessors (`failure_count`, `get_ewma`, `domain_count`, `is_ip_banned`, `get_stats`).
- A wall clock that steps back: `SystemTime` gives no bound to check against.
- `mock.rs`, a set of addresses for tests; thread pinning in `main`.
