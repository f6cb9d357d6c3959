\* Three connections, the sleep of two seconds is two ticks; two proxies, started,
\* stopped and killed in any order; two routes; three concurrent observations,
\* alpha = 1/2.
SPECIFICATION TasksFairSpec
CONSTANTS
    Conns = {c1, c2, c3}
    Needs <- NeedSet
    Grace = 2
    Threads = {t1, t2, t3}
    Samples <- SampleSet
    Initial = 5
    Alpha = 1
    Scale = 2
    NoSample = NoSample
    Routes = {r1, r2}
    Specs <- RouteSpecs
    Parses <- SocketAddrs
    FallbackAddress = "local"
    InitialBackends <- FirstBackends
    StaticBackends <- ReloadedBackends
    Absent = Absent
    NoRoute = NoRoute
    MaxQueue = 3
    Processes = {p1, p2}
    Other = Other
    None = None
INVARIANTS TypeOK GaugeExact ShortRequestsFinish AdminReachable UpToDate InBounds
PROPERTIES SignalEnds QueueMoves AdminComesUp StartsAnyway EditsArrive
PROPERTIES ObservesAtomically ObserveEnds
\* The process may exit.
CHECK_DEADLOCK FALSE
