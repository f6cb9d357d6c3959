---------------------------- MODULE RouteWatcher ----------------------------
(***************************************************************************)
(* Who fills the routing table: start_k8s_watcher                          *)
(* (vortex-admin/src/k8s_watcher.rs) installs the backends of every        *)
(* VortexRoute that the API server reports, and reload_config              *)
(* (vortex-admin/src/server.rs) those of its request.  The watch is a      *)
(* queue of events; it breaks at any time and then lists what there is.    *)
(***************************************************************************)
EXTENDS Naturals, Sequences, FiniteSets, Functions

CONSTANTS
    Routes,            \* names of VortexRoute resources
    Specs,             \* what they may hold: sequences of backend maps
    Parses,            \* addresses that parse as a SocketAddr
    FallbackAddress,   \* 127.0.0.1:80
    InitialBackends,   \* what async_main starts with
    StaticBackends,    \* what reload_config installs
    Absent,            \* a resource that does not exist
    NoRoute,
    MaxQueue           \* bound: events under way

ASSUME WatcherAssumption ==
    /\ Absent \notin Specs
    /\ NoRoute \notin Routes /\ IsFiniteSet(Routes)

VARIABLES
    cluster,     \* the resources, as the API server holds them
    events,      \* events under way to the watcher
    installed,   \* the routing table
    origin       \* history: the route it came from, or NoRoute

watchVars == <<cluster, events, installed, origin>>

WatchInit ==
    /\ cluster = [r \in Routes |-> Absent]
    /\ events = <<>>
    /\ installed = InitialBackends
    /\ origin = NoRoute

-----------------------------------------------------------------------------
(***************************************************************************)
(* The Kubernetes API, as the watcher sees it.  applied_objects drops the  *)
(* events of deletions.                                                    *)
(***************************************************************************)
Edit(r, spec) ==
    /\ cluster[r] # spec
    /\ Len(events) < MaxQueue
    /\ cluster' = [cluster EXCEPT ![r] = spec]
    /\ events' = IF spec = Absent THEN events ELSE Append(events, [route |-> r, spec |-> spec])
    /\ UNCHANGED <<installed, origin>>

\* The watch broke: the stream yields an error, which is logged, and starts again
\* with what there is, in any order.
Resync_NoList ==
    /\ events' = <<>>
    /\ UNCHANGED <<cluster, installed, origin>>

Resync ==
    /\ LET listed == {r \in Routes : cluster[r] # Absent}
           slots == 1..Cardinality(listed)
       IN  \E order \in Bijection(slots, listed) :
              events' = [i \in slots |-> [route |-> order[i], spec |-> cluster[order[i]]]]
    /\ UNCHANGED <<cluster, installed, origin>>

-----------------------------------------------------------------------------
(***************************************************************************)
(* The watcher and the admin service.                                      *)
(***************************************************************************)
\* An address that does not parse is replaced, the backend is kept; a map without
\* models has the empty set.
Backend(map) ==
    [id |-> map.id,
     addr |-> IF map.address \in Parses THEN map.address ELSE FallbackAddress,
     models |-> map.ai_models]

NewBackends(spec) == [i \in DOMAIN spec |-> Backend(spec[i])]

\* A route without backends is ignored.
HandleEvent_OncePerRoute ==
    /\ events # <<>>
    /\ LET route == Head(events)
       IN  IF route.spec # <<>> /\ origin # route.route
           THEN installed' = NewBackends(route.spec) /\ origin' = route.route
           ELSE UNCHANGED <<installed, origin>>
    /\ events' = Tail(events)
    /\ UNCHANGED cluster

HandleEvent ==
    /\ events # <<>>
    /\ LET route == Head(events)
       IN  IF route.spec # <<>>
           THEN installed' = NewBackends(route.spec) /\ origin' = route.route
           ELSE UNCHANGED <<installed, origin>>
    /\ events' = Tail(events)
    /\ UNCHANGED cluster

reload_config ==
    /\ installed' = StaticBackends
    /\ origin' = NoRoute
    /\ UNCHANGED <<cluster, events>>

-----------------------------------------------------------------------------
WatchNext ==
    \/ \E r \in Routes, s \in Specs \cup {Absent} : Edit(r, s)
    \/ Resync \/ HandleEvent \/ reload_config

WatchSpec == WatchInit /\ [][WatchNext]_watchVars

\* The watcher's task runs: it is spawned once and its loop never ends.
WatchFairness == WF_watchVars(HandleEvent)

-----------------------------------------------------------------------------
\* What applied_objects yields: a route and what it held.
Event == [route : Routes, spec : Specs]

\* Types of the variables.
WatchTypeOK ==
    /\ cluster \in [Routes -> Specs \cup {Absent}]
    /\ events \in Seq(Event)
    /\ origin \in Routes \cup {NoRoute}

\* The events under way for a route, and the last of them.
Pending(r) == {i \in DOMAIN events : events[i].route = r}

LastFor(r) == {i \in Pending(r) : \A j \in Pending(r) : j <= i}

\* The last event under way for a route, or what was installed from it if there
\* is none, agrees with the cluster: so once the watcher has caught up, a table
\* that came from a route has the backends the route has now, after any number
\* of edits, deletions, lost watches and reloads.  Only a route that was deleted
\* or emptied leaves its old backends behind.
UpToDate ==
    \A r \in Routes :
        origin = r /\ cluster[r] \notin {Absent, <<>>} =>
            IF Pending(r) = {} THEN installed = NewBackends(cluster[r])
            ELSE \E i \in LastFor(r) : events[i].spec = cluster[r]

\* The backends that a route holds are under way to the watcher.
Announced(r) ==
    /\ cluster[r] \notin {Absent, <<>>}
    /\ \E i \in Pending(r) : events[i].spec = cluster[r]

\* No edit is lost: the backends that a route comes to hold are installed at some
\* time, unless it is deleted or emptied before, also when the watch breaks while
\* the event is under way, when other routes are edited all the time and when
\* reload_config comes in between.  Only a watch that breaks again and again, or
\* edits of the route itself that never stop, can keep them out.
EditsArrive ==
    \A r \in Routes :
        \/ Announced(r) ~>
              \/ cluster[r] \in {Absent, <<>>}
              \/ origin = r /\ installed = NewBackends(cluster[r])
        \/ []<><<Resync \/ \E spec \in Specs \cup {Absent} : Edit(r, spec)>>_watchVars

(***************************************************************************)
(* The inductive strengthening.                                            *)
(***************************************************************************)
\* Of the events under way for a route there is a last one; it has what the
\* cluster has, unless the route was deleted since.
LastIsCurrent ==
    \A r \in Routes :
        Pending(r) # {} => \E i \in LastFor(r) : cluster[r] \in {events[i].spec, Absent}

\* A route with no event under way that the table came from has not changed since.
InstalledIsCurrent ==
    \A r \in Routes :
        origin = r /\ Pending(r) = {} /\ cluster[r] \notin {Absent, <<>>} =>
            installed = NewBackends(cluster[r])

WatchInv == LastIsCurrent /\ InstalledIsCurrent

=============================================================================
