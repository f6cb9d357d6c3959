------------------------------- MODULE MCTasks ------------------------------
(***************************************************************************)
(* The tasks of a proxy that must get something done, for TLC: the server  *)
(* with its connections, the start-up of processes, the watcher of routes  *)
(* and the calls that report a latency.  They share no state, so each of   *)
(* them moves only while the others rest in an initial state: their state  *)
(* spaces add up instead of multiplying.                                   *)
(***************************************************************************)
EXTENDS Server, Startup, RouteWatcher, PeakEwma

\* Shorter than, equal to and longer than the grace period of two ticks.
NeedSet == {1, 2, 3}

\* No backend, one, and two of which the second has an address that does not parse.
BackendMap(a) == [id |-> 1, address |-> a, ai_models |-> {}]
RouteSpecs == {<<>>, <<BackendMap("a1")>>, <<BackendMap("a1"), BackendMap("bad")>>}
SocketAddrs == {"a0", "a1", "a9", "local"}
FirstBackends == <<[id |-> 1, addr |-> "a0", models |-> {}]>>
ReloadedBackends == <<[id |-> 99, addr |-> "a9", models |-> {}]>>

\* A fast and a slow response.
SampleSet == {0, 8}

-----------------------------------------------------------------------------
TasksVars == <<vars, startupVars, watchVars, ewmaVars>>

ServerRest == Init /\ tls
StartupRest == StartupInit
WatchRest == WatchInit
EwmaRest == EwmaInit

TasksInit == Init /\ StartupRest /\ WatchRest /\ EwmaRest

TasksNext ==
    \/ /\ StartupRest /\ WatchRest /\ EwmaRest
       /\ Next
       /\ UNCHANGED <<startupVars, watchVars, ewmaVars>>
    \/ /\ ServerRest /\ WatchRest /\ EwmaRest
       /\ StartupNext
       /\ UNCHANGED <<vars, watchVars, ewmaVars>>
    \/ /\ ServerRest /\ StartupRest /\ EwmaRest
       /\ WatchNext
       /\ UNCHANGED <<vars, startupVars, ewmaVars>>
    \/ /\ ServerRest /\ StartupRest /\ WatchRest
       /\ EwmaNext
       /\ UNCHANGED <<vars, startupVars, watchVars>>

TasksSpec == TasksInit /\ [][TasksNext]_TasksVars

\* Of the fair actions only Bind and BindErr are enabled in a component at rest;
\* the server need not take them while another component moves.
ServerMayBegin == StartupRest /\ WatchRest /\ EwmaRest

TasksFairSpec ==
    /\ TasksSpec
    /\ WF_vars(ServerMayBegin /\ (Bind \/ BindErr)) /\ RunFairness
    /\ StartupFairness /\ WatchFairness /\ EwmaFairness

=============================================================================
