--------------------------- MODULE HotSwapProofs ----------------------------
(***************************************************************************)
(* Proofs about the stores that are replaced while others read them: the   *)
(* active plugin, the routing table as the control plane fills it, and the *)
(* routing table as selections walk it.                                    *)
(***************************************************************************)
EXTENDS Plugins, RouteWatcher, Selection, FiniteSetTheorems, TLAPS

(***************************************************************************)
(* Plugins, for any finite set of workers, any plugins and any pool.       *)
(***************************************************************************)
\* Workers that have an instance.
Live == {w \in Workers : run[w].stage = "live"}

LEMMA LiveFinite == IsFiniteSet(Live) /\ Cardinality(Live) \in Nat
BY PluginAssumption, FS_Subset, FS_CardinalityType DEF Live

\* A worker's run changes to x: the others keep theirs.
LEMMA RunMoves ==
  ASSUME PluginTypeOK, HoldsItsPlugin,
         NEW w \in Workers, NEW x \in Rests \cup Executions, Follows(x),
         run' = [run EXCEPT ![w] = x]
  PROVE  /\ run' \in [Workers -> Rests \cup Executions]
         /\ HoldsItsPlugin'
         /\ Live' = IF x.stage = "live" THEN Live \cup {w} ELSE Live \ {w}
<1>1. run \in [Workers -> Rests \cup Executions]
  BY Zenon DEF PluginTypeOK
<1>2. run' \in [Workers -> Rests \cup Executions]
  BY Zenon, <1>1
<1>3. \A v \in Workers : run'[v] = IF v = w THEN x ELSE run[v]
  BY Zenon, <1>1
<1>4. HoldsItsPlugin'
  <2>. SUFFICES ASSUME NEW v \in Workers PROVE Follows(run'[v])
    BY Zenon DEF HoldsItsPlugin, Follows, Links
  <2>. QED
    BY Zenon, <1>3 DEF HoldsItsPlugin
<1>5. Live' = IF x.stage = "live" THEN Live \cup {w} ELSE Live \ {w}
  BY Zenon, <1>3 DEF Live
<1>. QED
  BY Zenon, <1>2, <1>4, <1>5

\* An execution goes on or ends; the pool is told exactly when it takes or gives
\* back an instance.
LEMMA PoolMoves ==
  ASSUME PluginTypeOK, PluginInv,
         NEW w \in Workers, NEW x \in Rests \cup Executions, Follows(x),
         run' = [run EXCEPT ![w] = x],
         \/ x.stage # "live" /\ run[w].stage # "live" /\ instances' = instances
         \/ x.stage # "live" /\ run[w].stage = "live" /\ instances' = instances - 1
         \/ /\ x.stage = "live" /\ run[w].stage # "live"
            /\ instances < total_core_instances /\ instances' = instances + 1,
         UNCHANGED active_wasm_payload
  PROVE  PluginTypeOK' /\ PluginInv'
<1>0. HoldsItsPlugin /\ instances = Cardinality(Live)
  BY Zenon DEF PluginInv, InstancesReturned, Live
<1>1. /\ run' \in [Workers -> Rests \cup Executions]
      /\ HoldsItsPlugin'
      /\ Live' = IF x.stage = "live" THEN Live \cup {w} ELSE Live \ {w}
  BY Zenon, <1>0, RunMoves
<1>2. instances' = Cardinality(Live')
  <2>1. CASE x.stage # "live" /\ run[w].stage # "live" /\ instances' = instances
    <3>1. Live' = Live
      BY Zenon, <1>1, <2>1 DEF Live
    <3>. QED
      BY Zenon, <1>0, <2>1, <3>1
  <2>2. CASE x.stage # "live" /\ run[w].stage = "live" /\ instances' = instances - 1
    <3>1. w \in Live /\ Live' = Live \ {w}
      BY Zenon, <1>1, <2>2 DEF Live
    <3>2. Cardinality(Live \ {w}) = Cardinality(Live) - 1
      BY Zenon, <3>1, LiveFinite, FS_RemoveElement
    <3>. QED
      BY Zenon, <1>0, <2>2, <3>1, <3>2
  <2>3. CASE x.stage = "live" /\ run[w].stage # "live" /\ instances' = instances + 1
    <3>1. w \notin Live /\ Live' = Live \cup {w}
      BY Zenon, <1>1, <2>3 DEF Live
    <3>2. Cardinality(Live \cup {w}) = Cardinality(Live) + 1
      BY Zenon, <3>1, LiveFinite, FS_AddElement
    <3>. QED
      BY Zenon, <1>0, <2>3, <3>1, <3>2
  <2>. QED
    BY Zenon, <2>1, <2>2, <2>3
<1>3. instances' \in 0..total_core_instances
  <2>1. Cardinality(Live') \in Nat
    BY PluginAssumption, FS_Subset, FS_CardinalityType DEF Live
  <2>. QED
    BY <1>2, <2>1, PluginAssumption DEF PluginTypeOK
<1>4. PluginTypeOK'
  BY Zenon, <1>1, <1>3 DEF PluginTypeOK
<1>. QED
  BY Zenon, <1>1, <1>2, <1>4 DEF PluginInv, InstancesReturned, Live

\* One step of an execution.
LEMMA ExecutionStep ==
  ASSUME PluginTypeOK, PluginInv, NEW w \in Workers,
         \/ \E api \in Apis : ReadPayload(w, api)
         \/ Module(w) \/ Instantiate(w) \/ InstantiateErr(w) \/ NoEntry(w) \/ CallEnds(w)
  PROVE  PluginTypeOK' /\ PluginInv'
<1>0. /\ run \in [Workers -> Rests \cup Executions]
      /\ run[w] \in Rests \cup Executions
      /\ active_wasm_payload \in Payloads
      /\ Follows(run[w])
  BY Zenon DEF PluginTypeOK, PluginInv, HoldsItsPlugin
<1>1. \A o \in {"none", "ok", "err", "full"} :
        /\ Resting(o) \in Rests
        /\ Resting(o).stage = "idle"
        /\ Follows(Resting(o))
  BY Zenon DEF Resting, Rests, Follows
<1>2. run[w].stage # "idle" => run[w] \in Executions
  BY Zenon, <1>0 DEF Rests
<1>3. CASE \E api \in Apis : ReadPayload(w, api)
  <2>1. PICK api \in Apis : ReadPayload(w, api)
    BY Zenon, <1>3
  <2> DEFINE x == [stage |-> "read", api |-> api, plugin |-> active_wasm_payload,
                   began |-> active_wasm_payload]
  <2>2. x \in Executions /\ Follows(x) /\ x.stage = "read"
    BY Zenon, <1>0 DEF Executions, Follows
  <2>3. /\ run[w].stage = "idle" /\ run' = [run EXCEPT ![w] = x]
        /\ UNCHANGED <<active_wasm_payload, instances>>
    BY Zenon, <2>1 DEF ReadPayload
  <2>. HIDE DEF x
  <2>. QED
    BY Zenon, <2>2, <2>3, PoolMoves
<1>4. CASE Module(w)
  <2>1. CASE run[w].plugin.compiles
    <3> DEFINE x == [run[w] EXCEPT !.stage = "compiled"]
    <3>1. run[w].stage = "read" /\ run[w] \in Executions
      BY Zenon, <1>2, <1>4 DEF Module
    <3>2. x \in Executions /\ Follows(x) /\ x.stage = "compiled"
      BY SMTT(30), <1>0, <2>1, <3>1 DEF Executions, Follows
    <3>3. run' = [run EXCEPT ![w] = x] /\ UNCHANGED <<active_wasm_payload, instances>>
      BY Zenon, <1>0, <1>4, <2>1 DEF Module
    <3>. HIDE DEF x
    <3>. QED
      BY Zenon, <3>1, <3>2, <3>3, PoolMoves
  <2>2. CASE ~run[w].plugin.compiles
    <3>1. /\ run[w].stage = "read" /\ run' = [run EXCEPT ![w] = Resting("err")]
          /\ UNCHANGED <<active_wasm_payload, instances>>
      BY Zenon, <1>4, <2>2 DEF Module
    <3>. QED
      BY Zenon, <1>1, <3>1, PoolMoves
  <2>. QED
    BY Zenon, <2>1, <2>2
<1>5. CASE Instantiate(w)
  <2> DEFINE x == [run[w] EXCEPT !.stage = "live"]
  <2>1. run[w].stage = "compiled" /\ run[w] \in Executions /\ Links(run[w].api, run[w].plugin)
    BY Zenon, <1>2, <1>5 DEF Instantiate
  <2>2. x \in Executions /\ Follows(x) /\ x.stage = "live"
    <3>1. x \in Executions /\ x.stage = "live" /\ x.api = run[w].api
          /\ x.plugin = run[w].plugin /\ x.began = run[w].began
      BY SMTT(30), <2>1 DEF Executions
    <3>. QED
      BY Zenon, <1>0, <2>1, <3>1 DEF Follows
  <2>3. /\ run' = [run EXCEPT ![w] = x] /\ instances < total_core_instances
        /\ instances' = instances + 1 /\ UNCHANGED active_wasm_payload
    BY Zenon, <1>0, <1>5 DEF Instantiate
  <2>. HIDE DEF x
  <2>. QED
    BY Zenon, <2>1, <2>2, <2>3, PoolMoves
<1>6. CASE InstantiateErr(w)
  <2>1. PICK o \in {"full", "err"} : run' = [run EXCEPT ![w] = Resting(o)]
    BY Zenon, <1>6 DEF InstantiateErr
  <2>2. run[w].stage = "compiled" /\ UNCHANGED <<active_wasm_payload, instances>>
    BY Zenon, <1>6 DEF InstantiateErr
  <2>. QED
    BY Zenon, <1>1, <2>1, <2>2, PoolMoves
<1>7. CASE NoEntry(w) \/ CallEnds(w)
  <2>1. PICK o \in {"ok", "err"} : run' = [run EXCEPT ![w] = Resting(o)]
    BY Zenon, <1>7 DEF NoEntry, CallEnds
  <2>2. /\ run[w].stage = "live" /\ instances' = instances - 1
        /\ UNCHANGED active_wasm_payload
    BY Zenon, <1>7 DEF NoEntry, CallEnds
  <2>. QED
    BY Zenon, <1>1, <2>1, <2>2, PoolMoves
<1>. QED
  BY Zenon, <1>3, <1>4, <1>5, <1>6, <1>7

LEMMA PluginInvariant == PluginSpec => [](PluginTypeOK /\ PluginInv)
<1>1. PluginInit => PluginTypeOK /\ PluginInv
  <2>. SUFFICES ASSUME PluginInit PROVE PluginTypeOK /\ PluginInv
    OBVIOUS
  <2>1. \A w \in Workers : run[w] \in Rests /\ run[w].stage = "idle"
    BY Zenon DEF PluginInit, Resting, Rests
  <2>2. PluginTypeOK
    BY <2>1, PluginAssumption DEF PluginInit, PluginTypeOK, Payloads
  <2>3. InstancesReturned
    <3>1. Live = {}
      BY Zenon, <2>1 DEF Live
    <3>. QED
      BY <3>1, FS_EmptySet DEF InstancesReturned, PluginInit, Live
  <2>4. HoldsItsPlugin
    BY Zenon, <2>1 DEF HoldsItsPlugin, Follows, PluginInit
  <2>. QED
    BY Zenon, <2>2, <2>3, <2>4 DEF PluginInv
<1>2. PluginTypeOK /\ PluginInv /\ [PluginNext]_pluginVars => PluginTypeOK' /\ PluginInv'
  <2>. SUFFICES ASSUME PluginTypeOK, PluginInv, [PluginNext]_pluginVars
                PROVE  PluginTypeOK' /\ PluginInv'
    OBVIOUS
  <2>0. ASSUME run' = run, instances' = instances
        PROVE  InstancesReturned' /\ HoldsItsPlugin'
    BY Zenon, <2>0 DEF PluginInv, InstancesReturned, HoldsItsPlugin, Follows, Links
  <2>1. ASSUME NEW b \in Binaries, update_wasm_plugin(b)
        PROVE  PluginTypeOK' /\ PluginInv'
    BY Zenon, <2>0, <2>1 DEF update_wasm_plugin, PluginTypeOK, PluginInv, Payloads
  <2>2. CASE UNCHANGED pluginVars
    BY Zenon, <2>0, <2>2 DEF pluginVars, PluginTypeOK, PluginInv
  <2>. QED
    BY Zenon, <2>1, <2>2, ExecutionStep DEF PluginNext
<1>. QED
  BY <1>1, <1>2, PTL DEF PluginSpec

-----------------------------------------------------------------------------
\* The variables of the plugin machinery keep their types; the pool is never
\* overdrawn.
THEOREM PluginTypeCorrect == PluginSpec => []PluginTypeOK
BY PluginInvariant, PTL

\* execute_filter and execute_proxy_wasm give their instance back on every path:
\* the pool holds one for exactly the executions that have one.
THEOREM InstancesReturnedHolds == PluginSpec => []InstancesReturned
<1>1. PluginInv => InstancesReturned
  BY Zenon DEF PluginInv
<1>. QED
  BY <1>1, PluginInvariant, PTL

\* Each request executes the plugin that was active when it began, whatever
\* update_wasm_plugin installs meanwhile.
THEOREM OnePluginPerRequestHolds == PluginSpec => OnePluginPerRequest
<1> DEFINE Ends(w) == run[w].stage # "idle" /\ run'[w].stage = "idle"
           Own(w) == run'[w].outcome \in {Verdict(run[w].api, run[w].began), "full"}
<1>1. ASSUME PluginTypeOK, PluginInv, [PluginNext]_pluginVars, NEW w \in Workers, Ends(w)
      PROVE  Own(w)
  <2>1. run \in [Workers -> Rests \cup Executions] /\ Follows(run[w])
    BY Zenon, <1>1 DEF PluginTypeOK, PluginInv, HoldsItsPlugin
  <2>2. run[w] \in Executions
    BY Zenon, <1>1, <2>1 DEF Rests
  <2>3. run[w].api \in Apis /\ run[w].plugin = run[w].began
    BY Zenon, <1>1, <2>1, <2>2 DEF Executions, Follows
  <2>4. run' # run
    BY Zenon, <1>1
  <2>5. PICK v \in Workers :
          \/ \E api \in Apis : ReadPayload(v, api)
          \/ Module(v) \/ Instantiate(v) \/ InstantiateErr(v) \/ NoEntry(v) \/ CallEnds(v)
    BY Zenon, <1>1, <2>4 DEF PluginNext, pluginVars, update_wasm_plugin
  <2>6. v = w
    <3>1. \E x : run' = [run EXCEPT ![v] = x]
      BY Zenon, <2>1, <2>5 DEF ReadPayload, Module, Instantiate, InstantiateErr, NoEntry, CallEnds
    <3>. QED
      BY Zenon, <1>1, <2>1, <3>1
  <2>7. \A o : run' = [run EXCEPT ![w] = Resting(o)] => run'[w].outcome = o
    BY SMT, <2>1 DEF Resting
  <2>8. ~\E api \in Apis : ReadPayload(w, api)
    BY Zenon, <1>1 DEF ReadPayload
  <2>9. CASE Module(w)
    <3>1. run[w].stage = "read"
      BY Zenon, <2>9 DEF Module
    <3>2. ~run[w].plugin.compiles
      <4>. SUFFICES ASSUME run[w].plugin.compiles PROVE FALSE
        OBVIOUS
      <4>1. run'[w] = [run[w] EXCEPT !.stage = "compiled"]
        BY Zenon, <2>1, <2>9 DEF Module
      <4>. QED
        BY <1>1, <2>2, <4>1 DEF Executions
    <3>3. run' = [run EXCEPT ![w] = Resting("err")]
      BY Zenon, <2>9, <3>2 DEF Module
    <3>. QED
      BY Zenon, <2>3, <2>7, <3>2, <3>3 DEF Verdict
  <2>10. CASE Instantiate(w)
    <3>1. run'[w] = [run[w] EXCEPT !.stage = "live"]
      BY Zenon, <2>1, <2>10 DEF Instantiate
    <3>. QED
      BY <1>1, <2>2, <3>1 DEF Executions
  <2>11. CASE InstantiateErr(w)
    BY Zenon, <2>3, <2>7, <2>11 DEF InstantiateErr, Verdict
  <2>12. CASE NoEntry(w)
    BY Zenon, <2>1, <2>3, <2>7, <2>12 DEF NoEntry, Verdict, Follows, Apis
  <2>13. CASE CallEnds(w)
    BY Zenon, <2>1, <2>3, <2>7, <2>13 DEF CallEnds, Verdict, Follows
  <2>. QED
    BY Zenon, <2>5, <2>6, <2>8, <2>9, <2>10, <2>11, <2>12, <2>13
<1>2. PluginTypeOK /\ PluginInv /\ [PluginNext]_pluginVars
        => [\A w \in Workers : Ends(w) => Own(w)]_pluginVars
  BY Zenon, <1>1
<1>. QED
  BY <1>2, PluginInvariant, PTL DEF PluginSpec, OnePluginPerRequest

-----------------------------------------------------------------------------
(***************************************************************************)
(* The routing table as the control plane fills it, for any routes and     *)
(* specs and any length of the queue.                                      *)
(***************************************************************************)
\* The watcher's variables keep their types.
LEMMA WatchTypeStep == WatchTypeOK /\ [WatchNext]_watchVars => WatchTypeOK'
<1>. SUFFICES ASSUME WatchTypeOK, [WatchNext]_watchVars PROVE WatchTypeOK'
  OBVIOUS
<1>0. /\ cluster \in [Routes -> Specs \cup {Absent}]
      /\ events \in Seq(Event)
      /\ origin \in Routes \cup {NoRoute}
  BY Zenon DEF WatchTypeOK
<1>1. ASSUME NEW r \in Routes, NEW s \in Specs \cup {Absent}, Edit(r, s)
      PROVE  WatchTypeOK'
  <2>1. cluster' \in [Routes -> Specs \cup {Absent}] /\ UNCHANGED <<installed, origin>>
    BY Zenon, <1>0, <1>1 DEF Edit
  <2>2. events' \in Seq(Event)
    <3>1. s # Absent => [route |-> r, spec |-> s] \in Event
      BY Zenon, <1>1 DEF Event
    <3>. QED
      BY SMT, <1>0, <1>1, <3>1 DEF Edit
  <2>. QED
    BY Zenon, <1>0, <2>1, <2>2 DEF WatchTypeOK
<1>2. CASE Resync
  <2> DEFINE listed == {r \in Routes : cluster[r] # Absent}
             slots == 1..Cardinality(listed)
  <2>1. PICK order \in Bijection(slots, listed) :
          events' = [i \in slots |-> [route |-> order[i], spec |-> cluster[order[i]]]]
    BY Zenon, <1>2 DEF Resync
  <2>2. \A i \in slots : order[i] \in Routes /\ cluster[order[i]] \in Specs
    BY Zenon, <1>0 DEF Bijection, Injection
  <2>3. \A i \in slots : [route |-> order[i], spec |-> cluster[order[i]]] \in Event
    BY Zenon, <2>2 DEF Event
  <2>4. Cardinality(listed) \in Nat
    BY WatcherAssumption, FS_Subset, FS_CardinalityType
  <2>. HIDE DEF listed
  <2>5. events' \in Seq(Event)
    BY <2>1, <2>3, <2>4
  <2>. QED
    BY Zenon, <1>0, <1>2, <2>5 DEF WatchTypeOK, Resync
<1>3. CASE HandleEvent
  <2>1. events # <<>> /\ events' = Tail(events) /\ UNCHANGED cluster
    BY Zenon, <1>3 DEF HandleEvent
  <2>2. /\ Head(events) \in Event
        /\ events' \in Seq(Event)
    BY SMT, <1>0, <2>1
  <2>3. CASE Head(events).spec # <<>>
    <3>1. installed' = NewBackends(Head(events).spec) /\ origin' = Head(events).route
      BY Zenon, <1>3, <2>3 DEF HandleEvent
    <3>. QED
      BY Zenon, <1>0, <2>1, <2>2, <3>1 DEF WatchTypeOK, Event
  <2>4. CASE Head(events).spec = <<>>
    <3>1. UNCHANGED <<installed, origin>>
      BY Zenon, <1>3, <2>4 DEF HandleEvent
    <3>. QED
      BY Zenon, <1>0, <2>1, <2>2, <3>1 DEF WatchTypeOK
  <2>. QED
    BY Zenon, <2>3, <2>4
<1>4. CASE reload_config
  BY Zenon, <1>0, <1>4, WatcherAssumption DEF reload_config, WatchTypeOK
<1>5. CASE UNCHANGED watchVars
  BY Zenon, <1>0, <1>5 DEF watchVars, WatchTypeOK
<1>. QED
  BY Zenon, <1>1, <1>2, <1>3, <1>4, <1>5 DEF WatchNext

\* An edit: only its own route has another last event.
LEMMA EditStep ==
  ASSUME WatchTypeOK, WatchInv, NEW r \in Routes, NEW s \in Specs \cup {Absent}, Edit(r, s)
  PROVE  WatchInv'
<1>0. /\ cluster \in [Routes -> Specs \cup {Absent}] /\ events \in Seq(Event)
      /\ cluster' = [cluster EXCEPT ![r] = s]
      /\ UNCHANGED <<installed, origin>>
  BY Zenon DEF WatchTypeOK, Edit
<1>1. cluster'[r] = s /\ \A q \in Routes : q # r => cluster'[q] = cluster[q]
  BY Zenon, <1>0
<1>2. CASE s = Absent
  <2>1. events' = events
    BY Zenon, <1>2 DEF Edit
  <2>2. \A q \in Routes : Pending(q)' = Pending(q) /\ LastFor(q)' = LastFor(q)
    BY Zenon, <2>1 DEF Pending, LastFor
  <2>. QED
    BY Zenon, <1>0, <1>1, <1>2, <2>1, <2>2 DEF WatchInv, LastIsCurrent, InstalledIsCurrent
<1>3. CASE s # Absent
  <2> DEFINE last == Len(events) + 1
             e == [route |-> r, spec |-> s]
  <2>1. events' = Append(events, e) /\ e.route = r /\ e.spec = s /\ e \in Event
    BY Zenon, <1>3 DEF Edit, Event
  <2>. HIDE DEF e
  <2>2. /\ Len(events) \in Nat /\ DOMAIN events = 1..Len(events)
        /\ DOMAIN events' = 1..last /\ events'[last] = e
        /\ \A i \in DOMAIN events : events'[i] = events[i]
    BY SMT, <1>0, <2>1
  <2>3. last \in LastFor(r)' /\ last \in Pending(r)'
    BY SMT, <2>1, <2>2 DEF LastFor, Pending
  <2>4. ASSUME NEW q \in Routes, q # r
        PROVE  Pending(q)' = Pending(q) /\ LastFor(q)' = LastFor(q)
    <3>1. Pending(q)' = Pending(q)
      BY SMT, <2>1, <2>2, <2>4 DEF Pending
    <3>. QED
      BY Zenon, <3>1 DEF LastFor
  <2>5. LastIsCurrent'
    <3>. SUFFICES ASSUME NEW q \in Routes, Pending(q)' # {}
                  PROVE  \E i \in LastFor(q)' : cluster'[q] \in {events'[i].spec, Absent}
      BY Zenon DEF LastIsCurrent
    <3>1. CASE q = r
      BY Zenon, <1>1, <2>1, <2>2, <2>3, <3>1
    <3>2. CASE q # r
      <4>1. PICK i \in LastFor(q) : cluster[q] \in {events[i].spec, Absent}
        BY Zenon, <2>4, <3>2 DEF WatchInv, LastIsCurrent
      <4>2. i \in DOMAIN events
        BY Zenon DEF LastFor, Pending
      <4>. QED
        BY Zenon, <1>1, <2>2, <2>4, <3>2, <4>1, <4>2
    <3>. QED
      BY Zenon, <3>1, <3>2
  <2>6. InstalledIsCurrent'
    BY Zenon, <1>0, <1>1, <2>3, <2>4 DEF WatchInv, InstalledIsCurrent
  <2>. QED
    BY Zenon, <2>5, <2>6 DEF WatchInv
<1>. QED
  BY Zenon, <1>2, <1>3

\* The stream starts again: each route there is has one event, with what it has.
LEMMA ResyncStep ==
  ASSUME WatchTypeOK, Resync
  PROVE  WatchInv'
<1> DEFINE listed == {r \in Routes : cluster[r] # Absent}
           slots == 1..Cardinality(listed)
<1>0. PICK order \in Bijection(slots, listed) :
        events' = [i \in slots |-> [route |-> order[i], spec |-> cluster[order[i]]]]
  BY Zenon DEF Resync
<1>1. cluster' = cluster
  BY Zenon DEF Resync
<1>2. /\ DOMAIN events' = slots
      /\ \A i \in slots : events'[i].route = order[i] /\ events'[i].spec = cluster[order[i]]
  BY Zenon, <1>0
<1>3. /\ \A i, j \in slots : order[i] = order[j] => i = j
      /\ \A r \in listed : \E i \in slots : order[i] = r
      /\ order \in [slots -> listed]
  BY Zenon DEF Bijection, Injection, Surjection, IsInjective
<1>4. slots \subseteq Nat
  <2>1. Cardinality(listed) \in Nat
    BY WatcherAssumption, FS_Subset, FS_CardinalityType
  <2>. HIDE DEF listed
  <2>. QED
    BY SMT, <2>1
<1>. HIDE DEF slots
<1>5. LastIsCurrent'
  <2>. SUFFICES ASSUME NEW q \in Routes, Pending(q)' # {}
                PROVE  \E i \in LastFor(q)' : cluster'[q] \in {events'[i].spec, Absent}
    BY Zenon DEF LastIsCurrent
  <2>1. PICK i \in slots : order[i] = q /\ i \in Pending(q)'
    BY Zenon, <1>2 DEF Pending
  <2>2. \A j \in Pending(q)' : j = i
    BY Zenon, <1>2, <1>3, <2>1 DEF Pending
  <2>3. i \in LastFor(q)'
    BY SMT, <1>4, <2>1, <2>2 DEF LastFor
  <2>. QED
    BY Zenon, <1>1, <1>2, <2>1, <2>3
<1>6. InstalledIsCurrent'
  <2>. SUFFICES ASSUME NEW q \in Routes, Pending(q)' = {} PROVE cluster'[q] = Absent
    BY Zenon DEF InstalledIsCurrent
  <2>1. \A i \in slots : order[i] # q
    BY Zenon, <1>2 DEF Pending
  <2>2. q \notin listed
    BY Zenon, <1>3, <2>1
  <2>. QED
    BY Zenon, <1>1, <2>2
<1>. QED
  BY Zenon, <1>5, <1>6 DEF WatchInv

\* The watcher takes the first event: the others move up, and if it was the last
\* of its route, the table now has what the route has.
LEMMA HandleStep ==
  ASSUME WatchTypeOK, WatchInv, HandleEvent
  PROVE  WatchInv'
<1>0. events \in Seq(Event) /\ events # <<>> /\ events' = Tail(events) /\ cluster' = cluster
  BY Zenon DEF WatchTypeOK, HandleEvent
<1>1. /\ Len(events) \in Nat \ {0} /\ DOMAIN events = 1..Len(events)
      /\ DOMAIN events' = 1..(Len(events) - 1)
      /\ \A i \in DOMAIN events' : events'[i] = events[i + 1]
      /\ Head(events) = events[1]
  BY SMT, <1>0
<1>2. ASSUME NEW q
      PROVE  \A i \in Nat : i \in Pending(q)' <=> i > 0 /\ i + 1 \in Pending(q)
  BY SMT, <1>1 DEF Pending
<1>3. ASSUME NEW q
      PROVE  Pending(q) \subseteq Nat \ {0} /\ Pending(q)' \subseteq Nat \ {0}
  BY SMT, <1>1 DEF Pending
<1>4. LastIsCurrent'
  <2>. SUFFICES ASSUME NEW q \in Routes, Pending(q)' # {}
                PROVE  \E i \in LastFor(q)' : cluster'[q] \in {events'[i].spec, Absent}
    BY Zenon DEF LastIsCurrent
  <2>1. PICK k \in Nat \ {0} : k \in Pending(q)' /\ k + 1 \in Pending(q)
    BY Zenon, <1>2, <1>3
  <2>2. PICK i \in LastFor(q) : cluster[q] \in {events[i].spec, Absent}
    BY Zenon, <2>1 DEF WatchInv, LastIsCurrent
  <2>3. i \in Pending(q) /\ \A j \in Pending(q) : j <= i
    BY Zenon DEF LastFor
  <2>4. i \in Nat /\ i - 1 \in Nat \ {0} /\ i - 1 + 1 = i
    BY SMT, <1>3, <2>1, <2>3
  <2>5. i - 1 \in Pending(q)'
    BY SMT, <1>2, <2>3, <2>4
  <2>6. \A j \in Pending(q)' : j <= i - 1
    BY SMT, <1>2, <1>3, <2>3, <2>4
  <2>7. i - 1 \in LastFor(q)'
    BY Zenon, <2>5, <2>6 DEF LastFor
  <2>8. events'[i - 1] = events[i]
    BY Zenon, <1>1, <2>4, <2>5 DEF Pending
  <2>. QED
    BY Zenon, <1>0, <2>2, <2>7, <2>8
<1>5. InstalledIsCurrent'
  <2>. SUFFICES ASSUME NEW q \in Routes, origin' = q, Pending(q)' = {}, cluster[q] \notin {Absent, <<>>}
                PROVE  installed' = NewBackends(cluster[q])
    BY Zenon, <1>0 DEF InstalledIsCurrent
  <2>1. Pending(q) \subseteq {1}
    <3>. SUFFICES ASSUME NEW i \in Pending(q), i # 1 PROVE FALSE
      OBVIOUS
    <3>1. i \in Nat /\ i - 1 \in Nat /\ i - 1 > 0 /\ i - 1 + 1 = i
      BY SMT, <1>3
    <3>. QED
      BY Zenon, <1>2, <3>1
  <2>2. 1 \in Pending(q) => cluster[q] = events[1].spec
    <3>. SUFFICES ASSUME 1 \in Pending(q) PROVE cluster[q] = events[1].spec
      OBVIOUS
    <3>1. PICK i \in LastFor(q) : cluster[q] \in {events[i].spec, Absent}
      BY Zenon DEF WatchInv, LastIsCurrent
    <3>2. i = 1
      BY Zenon, <2>1 DEF LastFor
    <3>. QED
      BY Zenon, <3>1, <3>2
  <2>3. 1 \in Pending(q) <=> Head(events).route = q
    BY SMT, <1>1 DEF Pending
  <2>4. CASE Head(events).spec # <<>>
    <3>1. installed' = NewBackends(Head(events).spec) /\ origin' = Head(events).route
      BY Zenon, <2>4 DEF HandleEvent
    <3>. QED
      BY Zenon, <1>1, <2>2, <2>3, <3>1
  <2>5. CASE Head(events).spec = <<>>
    <3>1. UNCHANGED <<installed, origin>>
      BY Zenon, <2>5 DEF HandleEvent
    <3>2. Pending(q) = {}
      BY Zenon, <1>1, <2>1, <2>2, <2>3, <2>5
    <3>. QED
      BY Zenon, <3>1, <3>2 DEF WatchInv, InstalledIsCurrent
  <2>. QED
    BY Zenon, <2>4, <2>5
<1>. QED
  BY Zenon, <1>4, <1>5 DEF WatchInv

LEMMA WatchInvariant == WatchSpec => [](WatchTypeOK /\ WatchInv)
<1>1. WatchInit => WatchTypeOK /\ WatchInv
  <2>. SUFFICES ASSUME WatchInit PROVE WatchTypeOK /\ WatchInv
    OBVIOUS
  <2>1. WatchTypeOK
    <3>1. events \in Seq(Event)
      BY SMT DEF WatchInit
    <3>. QED
      BY Zenon, <3>1, WatcherAssumption DEF WatchInit, WatchTypeOK
  <2>2. \A r : Pending(r) = {}
    BY SMT DEF WatchInit, Pending
  <2>3. \A r \in Routes : cluster[r] = Absent
    BY Zenon DEF WatchInit
  <2>. QED
    BY Zenon, <2>1, <2>2, <2>3 DEF WatchInv, LastIsCurrent, InstalledIsCurrent
<1>2. WatchTypeOK /\ WatchInv /\ [WatchNext]_watchVars => WatchTypeOK' /\ WatchInv'
  <2>. SUFFICES ASSUME WatchTypeOK, WatchInv, [WatchNext]_watchVars PROVE WatchInv'
    BY Zenon, WatchTypeStep
  <2>0. ASSUME UNCHANGED <<cluster, events>>
        PROVE  LastIsCurrent' /\ \A r : Pending(r)' = Pending(r)
    <3>1. \A r : Pending(r)' = Pending(r) /\ LastFor(r)' = LastFor(r)
      BY Zenon, <2>0 DEF LastFor, Pending
    <3>. QED
      BY Zenon, <2>0, <3>1 DEF WatchInv, LastIsCurrent
  <2>1. CASE reload_config
    <3>1. origin' \notin Routes /\ UNCHANGED <<cluster, events>>
      BY Zenon, <2>1, WatcherAssumption DEF reload_config
    <3>. QED
      BY Zenon, <2>0, <3>1 DEF WatchInv, InstalledIsCurrent
  <2>2. CASE UNCHANGED watchVars
    BY Zenon, <2>0, <2>2 DEF watchVars, WatchInv, InstalledIsCurrent
  <2>. QED
    BY Zenon, <2>1, <2>2, EditStep, ResyncStep, HandleStep DEF WatchNext
<1>. QED
  BY <1>1, <1>2, PTL DEF WatchSpec

\* The variables of start_k8s_watcher and of the watch keep their types.
THEOREM WatchTypeCorrect == WatchSpec => []WatchTypeOK
BY WatchInvariant, PTL

\* A table that came from a route has what the route has, or an event that brings
\* it is under way, after any edits, deletions, lost watches and reloads.
THEOREM UpToDateHolds == WatchSpec => []UpToDate
<1>1. WatchInv => UpToDate
  BY Zenon DEF WatchInv, LastIsCurrent, InstalledIsCurrent, UpToDate
<1>. QED
  BY <1>1, WatchInvariant, PTL

-----------------------------------------------------------------------------
(***************************************************************************)
(* Selections, for any backends, tables, models, fallback lists and scores.*)
(***************************************************************************)
\* The fields of a call.
LEMMA CallFields ==
  ASSUME SelectTypeOK
  PROVE  /\ call.stage \in {"idle", "walking", "done"} /\ call.breaker \in BOOLEAN
         /\ call.wanted \in Seq(Models \cup {AnyModel})
         /\ call.round \in Nat /\ call.pos \in Nat \ {0}
         /\ call.best \in Backends \cup {NoBackend}
         /\ call.snapshot \in Seq(Backends)
         /\ DOMAIN call.snapshot = 1..Len(call.snapshot) /\ Len(call.snapshot) \in Nat
         /\ DOMAIN call.wanted = 1..Len(call.wanted) /\ Len(call.wanted) \in Nat
<1>1. /\ call.stage \in {"idle", "walking", "done"} /\ call.breaker \in BOOLEAN
      /\ call.wanted \in Seq(Models \cup {AnyModel})
      /\ call.round \in Nat /\ call.pos \in Nat
      /\ call.best \in Backends \cup {NoBackend}
      /\ call.snapshot \in Tables \cup {<<>>}
  BY SMT DEF SelectTypeOK, Calls
<1>2. call.snapshot \in Seq(Backends)
  <2>1. <<>> \in Seq(Backends) /\ Tables \subseteq Seq(Backends)
    BY SelectionAssumption
  <2>. QED
    BY Zenon, <1>1, <2>1
<1>3. call.pos \in 1..(Len(call.snapshot) + 1)
  BY Zenon DEF SelectTypeOK
<1>. QED
  BY SMT, <1>1, <1>2, <1>3

\* The backend a walk has come to.
LEMMA HereIs ==
  ASSUME SelectTypeOK, Walking
  PROVE  Here \in Range(call.snapshot) /\ Here \in Backends /\ Here # NoBackend
<1>1. call.pos \in DOMAIN call.snapshot
  BY SMT, CallFields DEF Walking
<1>2. Here \in Range(call.snapshot)
  BY Zenon, <1>1 DEF Here, Range
<1>3. Here \in Backends
  BY SMT, <1>1, CallFields DEF Here
<1>. QED
  BY Zenon, <1>2, <1>3, SelectionAssumption

\* The walk passes one backend, with x as its best from now on.
LEMMA WalkMoves ==
  ASSUME SelectTypeOK, WalkInv, Walking, NEW x \in {call.best, Here},
         \/ call' = [call EXCEPT !.pos = @ + 1, !.best = x]
         \/ x = call.best /\ call' = [call EXCEPT !.pos = @ + 1],
         UNCHANGED <<backends, healthy, open, steady>>,
         Here \in SteadyFor(Model) =>
            /\ x # NoBackend
            /\ \/ Here = x
               \/ \E b \in Range(call.snapshot) \ {x} : Serves(b, Model) /\ NotAbove(x, b),
         x # call.best =>
            Serves(Here, Model) /\ (call.best # NoBackend => NotAbove(Here, call.best))
  PROVE  SelectTypeOK' /\ WalkInv'
<1>1. /\ call' \in Calls
      /\ call'.stage = "walking" /\ call.stage = "walking"
      /\ call'.breaker = call.breaker /\ call'.wanted = call.wanted
      /\ call'.snapshot = call.snapshot /\ call'.round = call.round
      /\ call'.pos = call.pos + 1 /\ call'.best = x
  <2>1. /\ call \in Calls /\ x \in Backends \cup {NoBackend}
        /\ call.pos + 1 \in Nat /\ call.stage = "walking"
    <3>1. call.pos + 1 \in Nat
      BY SMT, CallFields
    <3>. QED
      BY Zenon, <3>1, HereIs, CallFields DEF SelectTypeOK, Walking
  <2>2. CASE call' = [call EXCEPT !.pos = @ + 1, !.best = x]
    BY Zenon, <2>1, <2>2 DEF Calls
  <2>3. CASE x = call.best /\ call' = [call EXCEPT !.pos = @ + 1]
    BY Zenon, <2>1, <2>3 DEF Calls
  <2>. QED
    BY Zenon, <2>2, <2>3
<1>2. SelectTypeOK'
  <2>1. call.pos + 1 \in 1..(Len(call.snapshot) + 1)
    BY SMT, CallFields DEF Walking
  <2>. QED
    BY Zenon, <1>1, <2>1 DEF SelectTypeOK
<1>3. Model' = Model /\ \A m : SteadyFor(m)' = SteadyFor(m)
  BY Zenon, <1>1 DEF Model, SteadyFor
<1>4. SteadyUsable' /\ RoundsExhausted' /\ ReturnsAtEnd'
  BY Zenon, <1>1, <1>3 DEF WalkInv, SteadyUsable, Usable, RoundsExhausted, ReturnsAtEnd
<1>5. BestServes'
  <2>1. call.best # NoBackend => call.best \in Range(call.snapshot) /\ Serves(call.best, Model)
    BY Zenon, <1>1 DEF WalkInv, BestServes
  <2>. QED
    BY Zenon, <1>1, <1>3, <2>1, HereIs DEF BestServes
<1>6. PassedBy'
  <2>. SUFFICES ASSUME NEW j \in DOMAIN call.snapshot, j < call.pos + 1,
                       call.snapshot[j] \in SteadyFor(Model)
                PROVE  /\ x # NoBackend
                       /\ \/ call.snapshot[j] = x
                          \/ \E b \in Range(call.snapshot) \ {x} :
                                Serves(b, Model) /\ NotAbove(x, b)
    BY Zenon, <1>1, <1>3 DEF PassedBy
  <2>1. CASE j = call.pos
    BY Zenon, <2>1 DEF Here
  <2>2. CASE j # call.pos
    <3>1. j < call.pos
      BY SMT, <2>2, CallFields
    <3>2. /\ call.best # NoBackend
          /\ \/ call.snapshot[j] = call.best
             \/ \E b \in Range(call.snapshot) \ {call.best} :
                   Serves(b, Model) /\ NotAbove(call.best, b)
      BY Zenon, <1>1, <3>1 DEF WalkInv, PassedBy
    <3>3. CASE x = call.best
      BY Zenon, <3>2, <3>3
    <3>4. CASE x # call.best
      <4>1. x = Here /\ NotAbove(x, call.best)
        BY Zenon, <3>2, <3>4
      <4>2. call.best \in Range(call.snapshot) /\ Serves(call.best, Model)
        BY Zenon, <1>1, <3>2 DEF WalkInv, BestServes
      <4>. QED
        BY Zenon, <3>4, <4>1, <4>2, HereIs
    <3>. QED
      BY Zenon, <3>3, <3>4
  <2>. QED
    BY Zenon, <2>1, <2>2
<1>. QED
  BY Zenon, <1>2, <1>4, <1>5, <1>6 DEF WalkInv

\* The three ways of passing one: min_by replaces its best only by one that it
\* saw below it.
LEMMA WalkStep ==
  ASSUME SelectTypeOK, WalkInv, Skip \/ First \/ Compare
  PROVE  SelectTypeOK' /\ WalkInv'
<1>0. Walking /\ UNCHANGED <<backends, healthy, open, steady>>
  BY Zenon DEF Skip, First, Compare
<1>1. CASE Skip
  <2>1. Here \notin SteadyFor(Model)
    <3>1. \A b \in steady : Usable(b, call.breaker)
      BY Zenon, <1>0 DEF WalkInv, SteadyUsable, Walking
    <3>. QED
      BY Zenon, <1>1, <3>1 DEF Skip, Passes, SteadyFor
  <2>2. call' = [call EXCEPT !.pos = @ + 1]
    BY Zenon, <1>1 DEF Skip
  <2>. QED
    BY Zenon, <1>0, <2>1, <2>2, WalkMoves
<1>2. CASE First
  <2>1. /\ call.best = NoBackend /\ Serves(Here, Model)
        /\ call' = [call EXCEPT !.pos = @ + 1, !.best = Here]
    BY Zenon, <1>2 DEF First, Passes
  <2>. QED
    BY Zenon, <1>0, <2>1, HereIs, WalkMoves
<1>3. CASE Compare
  <2>0. call.best # NoBackend /\ Serves(Here, Model)
    BY Zenon, <1>3 DEF Compare, Passes
  <2>1. CASE Above(call.best, Here) /\ call' = [call EXCEPT !.pos = @ + 1, !.best = Here]
    <3>1. NotAbove(Here, call.best)
      <4>1. PICK p \in Scores[call.best], q \in Scores[Here] : p > q
        BY Zenon, <2>1 DEF Above
      <4>2. p \in Nat /\ q \in Nat
        BY Zenon, <1>0, <2>0, HereIs, CallFields, SelectionAssumption
      <4>3. q <= p
        BY SMT, <4>1, <4>2
      <4>. QED
        BY Zenon, <4>3 DEF NotAbove
    <3>. QED
      BY Zenon, <1>0, <2>0, <2>1, <3>1, HereIs, WalkMoves
  <2>2. CASE NotAbove(call.best, Here) /\ call' = [call EXCEPT !.pos = @ + 1]
    BY Zenon, <1>0, <2>0, <2>2, HereIs, WalkMoves
  <2>. QED
    BY Zenon, <1>3, <2>1, <2>2 DEF Compare
<1>. QED
  BY Zenon, <1>1, <1>2, <1>3

\* A call begins with the snapshot ahead of it.
LEMMA BeginStep ==
  ASSUME SelectTypeOK, NEW breaker \in BOOLEAN, NEW wanted \in Seq(Models \cup {AnyModel}),
         wanted # <<>>, Begin(breaker, wanted)
  PROVE  SelectTypeOK' /\ WalkInv'
<1>0. /\ backends \in Tables /\ UNCHANGED <<backends, healthy, open>>
      /\ steady' = {b \in Backends : Usable(b, breaker)}
      /\ call' = [Idle EXCEPT !.stage = "walking", !.breaker = breaker,
                              !.wanted = wanted, !.snapshot = backends]
  BY Zenon DEF Begin, SelectTypeOK
<1>1. /\ call'.stage = "walking" /\ call'.breaker = breaker /\ call'.wanted = wanted
      /\ call'.snapshot = backends /\ call'.round = 1 /\ call'.pos = 1 /\ call'.best = NoBackend
  BY SMT, <1>0 DEF Idle
<1>2. call' \in Calls
  <2>1. 1 \in Nat
    BY SMT
  <2>. QED
    BY Zenon, <1>0, <2>1 DEF Calls, Idle
<1>3. /\ Len(backends) \in Nat /\ DOMAIN backends = 1..Len(backends)
      /\ DOMAIN wanted = 1..Len(wanted) /\ Len(wanted) \in Nat \ {0}
  <2>1. backends \in Seq(Backends)
    BY Zenon, <1>0, SelectionAssumption
  <2>. QED
    BY SMT, <2>1
<1>4. SelectTypeOK'
  <2>1. 1 \in 1..(Len(backends) + 1) /\ 1 \in DOMAIN wanted
    BY SMT, <1>3
  <2>. QED
    BY Zenon, <1>0, <1>1, <1>2, <2>1 DEF SelectTypeOK
<1>5. (\A j \in DOMAIN backends : ~(j < 1)) /\ (\A i \in DOMAIN wanted : ~(i < 1))
  BY SMT, <1>3
<1>6. SteadyUsable'
  BY Zenon, <1>0, <1>1 DEF SteadyUsable, Usable
<1>. QED
  BY Zenon, <1>1, <1>4, <1>5, <1>6 DEF WalkInv, RoundsExhausted, BestServes, PassedBy, ReturnsAtEnd

\* At the end of the snapshot without a best there was no steady backend for the
\* model.
LEMMA NothingSteady ==
  ASSUME SelectTypeOK, WalkInv, call.stage # "idle", call.pos > Len(call.snapshot),
         call.best = NoBackend
  PROVE  SteadyFor(Model) = {}
<1>. SUFFICES ASSUME NEW b \in SteadyFor(Model) PROVE FALSE
  OBVIOUS
<1>1. PICK j \in DOMAIN call.snapshot : call.snapshot[j] = b
  BY Zenon DEF SteadyFor, Range
<1>2. j < call.pos
  BY SMT, CallFields
<1>. QED
  BY Zenon, <1>1, <1>2 DEF WalkInv, PassedBy

\* The next fallback model, and the answer.
LEMMA RoundStep ==
  ASSUME SelectTypeOK, WalkInv, NextModel \/ Return
  PROVE  SelectTypeOK' /\ WalkInv'
<1>0. /\ call.stage = "walking" /\ call.pos > Len(call.snapshot)
      /\ UNCHANGED <<backends, healthy, open, steady>> /\ call \in Calls
  BY Zenon DEF NextModel, Return, SelectTypeOK
<1>1. CASE NextModel
  <2>0. /\ call.best = NoBackend /\ call.round < Len(call.wanted)
        /\ call' = [call EXCEPT !.round = @ + 1, !.pos = 1]
        /\ 1 \in Nat /\ call.round + 1 \in Nat
    BY SMT, <1>1, CallFields DEF NextModel
  <2>1. /\ call' \in Calls
        /\ call'.stage = "walking" /\ call'.breaker = call.breaker /\ call'.wanted = call.wanted
        /\ call'.snapshot = call.snapshot /\ call'.round = call.round + 1 /\ call'.pos = 1
        /\ call'.best = NoBackend
    BY Zenon, <1>0, <2>0 DEF Calls
  <2>2. 1 \in 1..(Len(call.snapshot) + 1) /\ call.round + 1 \in DOMAIN call.wanted
    BY SMT, <2>0, CallFields
  <2>3. SelectTypeOK'
    BY Zenon, <1>0, <2>1, <2>2 DEF SelectTypeOK
  <2>4. \A m : SteadyFor(m)' = SteadyFor(m)
    BY Zenon, <1>0, <2>1 DEF SteadyFor
  <2>5. RoundsExhausted'
    <3>. SUFFICES ASSUME NEW i \in DOMAIN call.wanted, i < call.round + 1
                  PROVE  SteadyFor(call.wanted[i]) = {}
      BY Zenon, <2>1, <2>4 DEF RoundsExhausted
    <3>1. i < call.round \/ i = call.round
      BY SMT, CallFields
    <3>2. call.stage # "idle"
      BY <1>0
    <3>3. SteadyFor(Model) = {}
      BY Zenon, <1>0, <2>0, <3>2, NothingSteady
    <3>. QED
      BY Zenon, <3>1, <3>2, <3>3 DEF WalkInv, RoundsExhausted, Model
  <2>6. \A j \in DOMAIN call.snapshot : ~(j < 1)
    BY SMT, CallFields
  <2>7. PassedBy' /\ BestServes' /\ ReturnsAtEnd'
    BY Zenon, <2>1, <2>6 DEF PassedBy, BestServes, ReturnsAtEnd
  <2>8. SteadyUsable'
    BY Zenon, <1>0, <2>1 DEF WalkInv, SteadyUsable, Usable
  <2>. QED
    BY Zenon, <2>3, <2>5, <2>7, <2>8 DEF WalkInv
<1>2. CASE Return
  <2>0. /\ call.best # NoBackend \/ call.round = Len(call.wanted)
        /\ call' = [call EXCEPT !.stage = "done"]
    BY Zenon, <1>2 DEF Return
  <2>1. /\ call' \in Calls
        /\ call'.stage = "done" /\ call'.breaker = call.breaker /\ call'.wanted = call.wanted
        /\ call'.snapshot = call.snapshot /\ call'.round = call.round /\ call'.pos = call.pos
        /\ call'.best = call.best
    BY Zenon, <1>0, <2>0 DEF Calls
  <2>2. call.stage # "idle" /\ "done" # "walking"
    BY <1>0
  <2>3. SelectTypeOK'
    BY Zenon, <1>0, <2>1, <2>2 DEF SelectTypeOK
  <2>4. Model' = Model /\ \A m : SteadyFor(m)' = SteadyFor(m)
    BY Zenon, <1>0, <2>1 DEF SteadyFor, Model
  <2>5. RoundsExhausted' /\ BestServes' /\ PassedBy'
    BY Zenon, <2>1, <2>2, <2>4 DEF WalkInv, RoundsExhausted, BestServes, PassedBy
  <2>6. SteadyUsable' /\ ReturnsAtEnd'
    BY Zenon, <1>0, <2>0, <2>1, <2>2 DEF SteadyUsable, ReturnsAtEnd
  <2>. QED
    BY Zenon, <2>3, <2>5, <2>6 DEF WalkInv
<1>. QED
  BY Zenon, <1>1, <1>2

\* Health and breakers move, or the table is replaced: the call keeps its
\* snapshot, and what was steady may cease to be.
LEMMA OthersStep ==
  ASSUME SelectTypeOK, WalkInv,
         \/ \E t \in Tables : update_backends(t)
         \/ \E b \in Backends : BreakerMoves(b) \/ \E h \in BOOLEAN : set_healthy(b, h)
  PROVE  SelectTypeOK' /\ WalkInv'
<1>1. /\ call' = call
      /\ backends' \in Tables /\ healthy' \subseteq Backends /\ open' \subseteq Backends
      /\ \/ UNCHANGED <<healthy, open, steady>>
         \/ steady' = StillSteady(healthy', open')
  <2>1. CASE \E t \in Tables : update_backends(t)
    BY Zenon, <2>1 DEF update_backends, SelectTypeOK
  <2>2. ASSUME NEW b \in Backends, BreakerMoves(b)
        PROVE  /\ open' \subseteq Backends /\ steady' = StillSteady(healthy', open')
               /\ UNCHANGED <<backends, healthy, call>>
    <3>1. open' = open \ {b} \/ open' = open \cup {b}
      BY Zenon, <2>2 DEF BreakerMoves
    <3>2. UNCHANGED <<backends, healthy, call>> /\ steady' = StillSteady(healthy, open')
      BY Zenon, <2>2 DEF BreakerMoves
    <3>. QED
      BY Zenon, <3>1, <3>2 DEF SelectTypeOK
  <2>3. ASSUME NEW b \in Backends, NEW h \in BOOLEAN, set_healthy(b, h)
        PROVE  /\ healthy' \subseteq Backends /\ steady' = StillSteady(healthy', open')
               /\ UNCHANGED <<backends, open, call>>
    <3>1. healthy' = healthy \ {b} \/ healthy' = healthy \cup {b}
      BY Zenon, <2>3 DEF set_healthy
    <3>2. UNCHANGED <<backends, open, call>> /\ steady' = StillSteady(healthy', open)
      BY Zenon, <2>3 DEF set_healthy
    <3>. QED
      BY Zenon, <3>1, <3>2 DEF SelectTypeOK
  <2>. QED
    BY Zenon, <2>1, <2>2, <2>3 DEF SelectTypeOK
<1>2. steady' \subseteq steady
  BY Zenon, <1>1 DEF StillSteady
<1>3. SteadyUsable'
  BY Zenon, <1>1 DEF WalkInv, SteadyUsable, StillSteady, Usable
<1>4. Model' = Model /\ \A m : SteadyFor(m)' \subseteq SteadyFor(m)
  BY Zenon, <1>1, <1>2 DEF SteadyFor, Model
<1>5. RoundsExhausted'
  BY Zenon, <1>1, <1>4 DEF WalkInv, RoundsExhausted
<1>6. BestServes' /\ ReturnsAtEnd'
  BY Zenon, <1>1, <1>4 DEF WalkInv, BestServes, ReturnsAtEnd
<1>7. PassedBy'
  BY Zenon, <1>1, <1>4 DEF WalkInv, PassedBy
<1>8. SelectTypeOK'
  BY Zenon, <1>1, <1>2 DEF SelectTypeOK
<1>. QED
  BY Zenon, <1>3, <1>5, <1>6, <1>7, <1>8 DEF WalkInv

\* Between two calls there is nothing to know.
AtRest ==
  /\ call = Idle /\ steady = {}
  /\ backends \in Tables /\ healthy \subseteq Backends /\ open \subseteq Backends

LEMMA IdleOK == AtRest => SelectTypeOK /\ WalkInv
<1>. SUFFICES ASSUME AtRest PROVE SelectTypeOK /\ WalkInv
  OBVIOUS
<1>1. /\ call.stage = "idle" /\ call.snapshot = <<>> /\ call.pos = 1
      /\ 1 \in 1..(Len(<<>>) + 1) /\ 1 \in Nat /\ <<>> \in Seq(Models \cup {AnyModel})
  BY SMT DEF Idle, AtRest
<1>2. call \in Calls
  BY Zenon, <1>1 DEF Calls, Idle, AtRest
<1>3. SelectTypeOK
  BY Zenon, <1>1, <1>2 DEF SelectTypeOK, AtRest
<1>. QED
  BY Zenon, <1>1, <1>3 DEF WalkInv, SteadyUsable, RoundsExhausted, BestServes, PassedBy, ReturnsAtEnd

LEMMA WalkInvariant == SelectSpec => [](SelectTypeOK /\ WalkInv)
<1>1. SelectInit => SelectTypeOK /\ WalkInv
  BY Zenon, IdleOK DEF SelectInit, AtRest
<1>2. SelectTypeOK /\ WalkInv /\ [SelectNext]_selectVars => SelectTypeOK' /\ WalkInv'
  <2>. SUFFICES ASSUME SelectTypeOK, WalkInv, [SelectNext]_selectVars
                PROVE  SelectTypeOK' /\ WalkInv'
    OBVIOUS
  <2>1. CASE select_best_backend \/ get_best_backend
    <3>1. <<AnyModel>> \in Seq(Models \cup {AnyModel}) /\ <<AnyModel>> # <<>>
      BY SMT
    <3>. QED
      BY Zenon, <2>1, <3>1, BeginStep DEF select_best_backend, get_best_backend
  <2>2. ASSUME NEW m \in Models, NEW f \in Fallbacks, get_ai_backend(m, f)
        PROVE  SelectTypeOK' /\ WalkInv'
    <3>1. f \in Seq(Models)
      BY Zenon, SelectionAssumption
    <3>2. <<m>> \o f \in Seq(Models \cup {AnyModel}) /\ <<m>> \o f # <<>>
      BY SMT, <3>1
    <3>. QED
      BY Zenon, <2>2, <3>2, BeginStep DEF get_ai_backend
  <2>3. CASE Forget
    <3>1. AtRest'
      BY Zenon, <2>3 DEF AtRest, Forget, SelectTypeOK
    <3>. QED
      BY <3>1, IdleOK, PTL
  <2>4. CASE UNCHANGED selectVars
    BY Zenon, <2>4 DEF selectVars, SelectTypeOK, WalkInv, SteadyUsable, Usable, RoundsExhausted,
       BestServes, PassedBy, ReturnsAtEnd, SteadyFor, Model
  <2>. QED
    BY Zenon, <2>1, <2>2, <2>3, <2>4, WalkStep, RoundStep, OthersStep DEF SelectNext
<1>. QED
  BY <1>1, <1>2, PTL DEF SelectSpec

\* The variables of a selection keep their types: a walk stays within the list of
\* models and its snapshot.
THEOREM SelectTypeCorrect == SelectSpec => []SelectTypeOK
BY WalkInvariant, PTL

\* get_ai_backend gives a model up only if no backend for it was usable throughout
\* the call, and a call answers None only if that is so of all its models.
THEOREM FallbackOnlyWhenNeededHolds == SelectSpec => []FallbackOnlyWhenNeeded
<1>1. SelectTypeOK /\ WalkInv => FallbackOnlyWhenNeeded
  <2>. SUFFICES ASSUME SelectTypeOK, WalkInv, call.stage = "done",
                       NEW i \in DOMAIN call.wanted, SteadyFor(call.wanted[i]) # {}
                PROVE  call.best # NoBackend /\ call.round <= i
    BY Zenon DEF FallbackOnlyWhenNeeded
  <2>1. call.stage # "idle" /\ call.pos > Len(call.snapshot)
    BY DEF WalkInv, ReturnsAtEnd
  <2>2. ~(i < call.round)
    BY Zenon, <2>1 DEF WalkInv, RoundsExhausted
  <2>3. call.round <= i
    BY SMT, <2>2, CallFields
  <2>4. ASSUME call.best = NoBackend PROVE FALSE
    <3>1. call.round = Len(call.wanted)
      BY Zenon, <2>4 DEF WalkInv, ReturnsAtEnd
    <3>2. i = call.round
      BY SMT, <2>3, <3>1, CallFields
    <3>. QED
      BY Zenon, <2>1, <2>4, <3>2, NothingSteady DEF Model
  <2>. QED
    BY Zenon, <2>3, <2>4
<1>. QED
  BY <1>1, WalkInvariant, PTL

\* However the scores move between the comparisons of min_by, the winner is not
\* above all other backends for its model while another was usable throughout.
THEOREM NotTheWorstHolds == SelectSpec => []NotTheWorst
<1>1. SelectTypeOK /\ WalkInv => NotTheWorst
  <2>. SUFFICES ASSUME SelectTypeOK, WalkInv, call.stage = "done",
                       NEW c \in SteadyFor(Model) \ {call.best}
                PROVE  \E b \in Range(call.snapshot) \ {call.best} :
                          Serves(b, Model) /\ NotAbove(call.best, b)
    BY Zenon DEF NotTheWorst
  <2>1. call.stage # "idle" /\ call.pos > Len(call.snapshot)
    BY DEF WalkInv, ReturnsAtEnd
  <2>2. PICK j \in DOMAIN call.snapshot : call.snapshot[j] = c
    BY Zenon DEF SteadyFor, Range
  <2>3. j < call.pos
    BY SMT, <2>1, CallFields
  <2>. QED
    BY Zenon, <2>1, <2>2, <2>3 DEF WalkInv, PassedBy
<1>. QED
  BY <1>1, WalkInvariant, PTL

=============================================================================
