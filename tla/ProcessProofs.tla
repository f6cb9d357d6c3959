--------------------------- MODULE ProcessProofs ----------------------------
(***************************************************************************)
(* Proofs about the process around the request path: its shutdown          *)
(* (Server), its start-up (Startup) and the certificates it serves         *)
(* (Certificates).                                                         *)
(***************************************************************************)
EXTENDS Server, Startup, Certificates, FiniteSetTheorems, TLAPS

(***************************************************************************)
(* Proofs about Server, for any finite set of connections, any requests    *)
(* and any grace period.                                                   *)
(***************************************************************************)

\* The tasks that hold a guard are finitely many.
LEMMA GuardedFinite == IsFiniteSet(Guarded) /\ Cardinality(Guarded) \in Nat
<1>1. Guarded \subseteq Conns
  BY DEF Guarded
<1>2. IsFiniteSet(Guarded)
  BY <1>1, ServerAssumption, FS_Subset
<1>. QED
  BY <1>2, FS_CardinalityType

\* A task that takes its guard raises the count of guards by one.
LEMMA GuardTaken ==
  ASSUME NEW c \in Conns, c \notin Guarded, Guarded' = Guarded \cup {c}
  PROVE  Cardinality(Guarded)' = Cardinality(Guarded) + 1
BY GuardedFinite, FS_AddElement

\* A task that ends lowers it by one.
LEMMA GuardDropped ==
  ASSUME NEW c \in Conns, c \in Guarded, Guarded' = Guarded \ {c}
  PROVE  /\ Cardinality(Guarded)' = Cardinality(Guarded) - 1
         /\ Cardinality(Guarded)' \in Nat
<1>1. IsFiniteSet(Guarded \ {c})
  BY GuardedFinite, FS_RemoveElement
<1>2. Cardinality(Guarded \ {c}) \in Nat
  BY <1>1, FS_CardinalityType
<1>. QED
  BY <1>2, GuardedFinite, FS_RemoveElement

-----------------------------------------------------------------------------
\* The gauge follows the guards through every way a task starts and ends.
LEMMA GaugeStep ==
  ASSUME TypeOK, GaugeExact, [Next]_vars
  PROVE  GaugeExact' /\ active_connections' \in Nat
<1>0. active_connections = Cardinality(Guarded) /\ Cardinality(Guarded) \in Nat
  BY GuardedFinite DEF GaugeExact
<1>1. ASSUME Guarded' = Guarded, UNCHANGED active_connections
      PROVE  GaugeExact' /\ active_connections' \in Nat
  BY <1>0, <1>1 DEF GaugeExact
<1>2. ASSUME NEW c \in Conns, c \in Guarded, Guarded' = Guarded \ {c}, DropGuard
      PROVE  GaugeExact' /\ active_connections' \in Nat
  BY Zenon, <1>0, <1>2, GuardDropped DEF GaugeExact, DropGuard
<1>3. CASE CtrlC \/ CtrlCErr \/ Bind \/ BindErr \/ Tick \/ UNCHANGED vars
  <2>1. UNCHANGED <<conn, active_connections>>
    BY <1>3 DEF CtrlC, CtrlCErr, Bind, BindErr, Tick, vars
  <2>. QED
    BY <1>1, <2>1 DEF Guarded
<1>4. CASE Stop
  <2>1. Guarded' = Guarded
    BY <1>4 DEF Stop, Guarded, TypeOK
  <2>. QED
    BY <1>1, <1>4, <2>1 DEF Stop
<1>5. CASE Exit
  <2>1. Guarded' = {}
    BY <1>5 DEF Exit, Guarded, TypeOK
  <2>2. active_connections' = 0
    BY <1>0, <1>5 DEF Exit
  <2>. QED
    BY <2>1, <2>2, FS_EmptySet DEF GaugeExact
<1>6. ASSUME NEW c \in Conns,
             \/ Connect(c) \/ Accept(c) \/ HandshakeOk(c) \/ EndRequest(c)
             \/ \E n \in Needs : BeginRequest(c, n)
      PROVE  GaugeExact' /\ active_connections' \in Nat
  <2>1. Guarded' = Guarded
    BY <1>6 DEF Connect, Accept, HandshakeOk, EndRequest, BeginRequest, Guarded, TypeOK
  <2>. QED
    BY <1>1, <1>6, <2>1 DEF Connect, Accept, HandshakeOk, EndRequest, BeginRequest
<1>7. ASSUME NEW c \in Conns, StartTask(c)
      PROVE  GaugeExact' /\ active_connections' \in Nat
  <2>1. c \notin Guarded /\ Guarded' = Guarded \cup {c}
    BY <1>7 DEF StartTask, Guarded, TypeOK
  <2>2. Cardinality(Guarded)' = Cardinality(Guarded) + 1
    BY <2>1, GuardTaken
  <2>3. active_connections' = active_connections + 1
    BY <1>7 DEF StartTask
  <2>. QED
    BY <1>0, <2>2, <2>3 DEF GaugeExact
<1>8. ASSUME NEW c \in Conns, HandshakeErr(c) \/ EndConnection(c)
      PROVE  GaugeExact' /\ active_connections' \in Nat
  <2>1. c \in Guarded /\ Guarded' = Guarded \ {c}
    BY <1>8 DEF HandshakeErr, EndConnection, Guarded, TypeOK
  <2>. QED
    BY <1>2, <1>8, <2>1 DEF HandshakeErr, EndConnection
<1>. QED
  BY <1>3, <1>4, <1>5, <1>6, <1>7, <1>8 DEF Next

\* The other variables keep their types.
LEMMA TypeStep ==
  ASSUME TypeOK, GaugeExact, [Next]_vars
  PROVE  TypeOK'
<1>0. active_connections' \in Nat
  BY GaugeStep
<1>1. CASE CtrlC \/ CtrlCErr \/ UNCHANGED vars
  BY <1>1 DEF CtrlC, CtrlCErr, vars, mainVars, TypeOK
<1>2. CASE Bind \/ BindErr
  BY <1>2, ServerAssumption DEF Bind, BindErr, signalVars, TypeOK
<1>3. CASE Stop
  BY <1>3, ServerAssumption DEF Stop, signalVars, Busy, TypeOK
<1>4. CASE Tick
  <2>1. left' \in [Conns -> Nat]
    BY <1>4 DEF Tick, Busy, TypeOK
  <2>2. drain' \in 0..Grace
    BY <1>4, ServerAssumption DEF Tick, TypeOK
  <2>. QED
    BY <1>4, <2>1, <2>2 DEF Tick, signalVars, TypeOK
<1>5. CASE Exit
  BY Zenon, <1>0, <1>5 DEF Exit, signalVars, TypeOK
<1>6. ASSUME NEW c \in Conns,
             Connect(c) \/ Accept(c) \/ StartTask(c) \/ HandshakeOk(c) \/ HandshakeErr(c)
      PROVE  TypeOK'
  BY <1>0, <1>6 DEF Connect, Accept, StartTask, HandshakeOk, HandshakeErr,
                    mainVars, signalVars, TypeOK
<1>7. ASSUME NEW c \in Conns, EndRequest(c) \/ EndConnection(c)
      PROVE  TypeOK'
  BY <1>0, <1>7 DEF EndRequest, EndConnection, mainVars, signalVars, TypeOK
<1>8. ASSUME NEW c \in Conns, NEW n \in Needs, BeginRequest(c, n)
      PROVE  TypeOK'
  BY <1>8, ServerAssumption DEF BeginRequest, mainVars, signalVars, TypeOK
<1>. QED
  BY <1>1, <1>2, <1>3, <1>4, <1>5, <1>6, <1>7, <1>8 DEF Next

\* A promised request stays ahead of the end of the sleep, and so is over when the
\* process exits.
LEMMA PromiseStep ==
  ASSUME TypeOK, PromiseKept, ShortRequestsFinish, [Next]_vars
  PROVE  PromiseKept' /\ ShortRequestsFinish'
<1>1. CASE CtrlC \/ CtrlCErr \/ UNCHANGED vars
  BY <1>1 DEF CtrlC, CtrlCErr, vars, mainVars, PromiseKept, ShortRequestsFinish
<1>2. CASE Bind \/ BindErr
  BY <1>2 DEF Bind, BindErr, PromiseKept, ShortRequestsFinish
<1>3. CASE Stop
  BY <1>3 DEF Stop, Busy, TypeOK, PromiseKept, ShortRequestsFinish
<1>4. CASE Tick
  <2>1. ShortRequestsFinish'
    BY <1>4 DEF Tick, ShortRequestsFinish
  <2>2. ASSUME NEW c \in promised', conn'[c] = "busy"
        PROVE  main' = "sleep" /\ left'[c] < drain'
    <3>1. c \in Conns /\ c \in Busy /\ main = "sleep" /\ left[c] < drain
      BY <1>4, <2>2 DEF Tick, Busy, TypeOK, PromiseKept
    <3>2. left'[c] = left[c] - 1 /\ drain' = drain - 1 /\ main' = main
      BY <1>4, <3>1 DEF Tick
    <3>3. left[c] \in Int /\ drain \in Int
      BY <3>1, ServerAssumption DEF TypeOK
    <3>. QED
      BY <3>1, <3>2, <3>3
  <2>. QED
    BY <2>1, <2>2 DEF PromiseKept
<1>5. CASE Exit
  <2>1. ASSUME NEW c \in promised'
        PROVE  conn'[c] # "busy" /\ conn'[c] # "cut"
    <3>1. c \in promised /\ c \in Conns /\ drain = 0 /\ left[c] \in Nat
      BY <1>5, <2>1 DEF Exit, TypeOK
    <3>2. conn[c] # "busy" /\ conn[c] # "cut"
      BY <3>1 DEF PromiseKept, ShortRequestsFinish
    <3>3. conn'[c] = CASE conn[c] = "busy" -> "cut"
                       [] conn[c] \in {"spawned", "handshake", "idle"} -> "done"
                       [] OTHER -> conn[c]
      BY Zenon, <1>5, <3>1 DEF Exit
    <3>. QED
      BY <3>2, <3>3
  <2>. QED
    BY <2>1 DEF PromiseKept, ShortRequestsFinish
<1>6. ASSUME NEW c \in Conns,
             Connect(c) \/ Accept(c) \/ StartTask(c) \/ HandshakeOk(c) \/ HandshakeErr(c)
      PROVE  PromiseKept' /\ ShortRequestsFinish'
  BY <1>6 DEF Connect, Accept, StartTask, HandshakeOk, HandshakeErr, mainVars, TypeOK,
              PromiseKept, ShortRequestsFinish
<1>7. ASSUME NEW c \in Conns, EndRequest(c) \/ EndConnection(c)
      PROVE  PromiseKept' /\ ShortRequestsFinish'
  BY <1>7 DEF EndRequest, EndConnection, mainVars, TypeOK, PromiseKept, ShortRequestsFinish
<1>8. ASSUME NEW c \in Conns, NEW n \in Needs, BeginRequest(c, n)
      PROVE  PromiseKept' /\ ShortRequestsFinish'
  BY <1>8 DEF BeginRequest, mainVars, TypeOK, PromiseKept, ShortRequestsFinish
<1>. QED
  BY <1>1, <1>2, <1>3, <1>4, <1>5, <1>6, <1>7, <1>8 DEF Next

\* The three are inductive together.
LEMMA ServerInvariant == Spec => [](TypeOK /\ ServerInv)
<1>1. Init => TypeOK /\ ServerInv
  <2>. SUFFICES ASSUME Init PROVE TypeOK /\ ServerInv
    OBVIOUS
  <2>1. TypeOK
    BY ServerAssumption DEF Init, TypeOK
  <2>2. Guarded = {}
    BY DEF Init, Guarded
  <2>3. GaugeExact
    BY <2>2, FS_EmptySet DEF Init, GaugeExact
  <2>4. PromiseKept /\ ShortRequestsFinish
    BY DEF Init, PromiseKept, ShortRequestsFinish
  <2>. QED
    BY <2>1, <2>3, <2>4 DEF ServerInv
<1>2. TypeOK /\ ServerInv /\ [Next]_vars => TypeOK' /\ ServerInv'
  BY GaugeStep, TypeStep, PromiseStep DEF ServerInv
<1>. QED
  BY <1>1, <1>2, PTL DEF Spec

-----------------------------------------------------------------------------
\* The variables keep their types: the gauge of open connections never wraps.
THEOREM TypeCorrect == Spec => []TypeOK
  BY ServerInvariant, PTL

\* active_connections is the number of connection tasks that hold a guard.
THEOREM GaugeExactHolds == Spec => []GaugeExact
  BY ServerInvariant, PTL DEF ServerInv

\* The exit cuts no request that needs less time than the sleep leaves it.
THEOREM ShortRequestsFinishHolds == Spec => []ShortRequestsFinish
  BY ServerInvariant, PTL DEF ServerInv

-----------------------------------------------------------------------------
(***************************************************************************)
(* Proofs about Startup, for any number of instances on the host.          *)
(***************************************************************************)

(***************************************************************************)
(* The variables keep their types.                                         *)
(***************************************************************************)
LEMMA StartupTypeStep == StartupTypeOK /\ [StartupNext]_startupVars => StartupTypeOK'
<1> SUFFICES ASSUME StartupTypeOK, [StartupNext]_startupVars PROVE StartupTypeOK'
    OBVIOUS
<1> USE DEF StartupTypeOK, Ports, Required, Advance, Ends
<1>1. ASSUME NEW p \in Processes, Launch(p) PROVE StartupTypeOK'
    BY Zenon, <1>1 DEF Launch
<1>2. ASSUME NEW p \in Processes, MainStep(p) PROVE StartupTypeOK'
    <2>1. CASE init_telemetry(p)
        BY <2>1 DEF init_telemetry
    <2>2. CASE init_metrics_exporter(p)
        BY <2>2 DEF init_metrics_exporter
    <2>3. CASE load_tls_config(p)
        BY <2>3 DEF load_tls_config
    <2>4. CASE SpawnControlPlane(p)
        BY <2>4 DEF SpawnControlPlane
    <2>5. CASE SpawnQuic(p)
        BY Zenon, <2>5 DEF SpawnQuic
    <2>6. CASE PrepareContext(p)
        BY <2>6 DEF PrepareContext
    <2>7. CASE Listen(p)
        BY <2>7 DEF Listen
    <2>8. CASE ListenErr(p)
        BY <2>8 DEF ListenErr
    <2>9. CASE Returns(p)
        BY <2>9 DEF Returns
    <2> QED
        BY <1>2, <2>1, <2>2, <2>3, <2>4, <2>5, <2>6, <2>7, <2>8, <2>9 DEF MainStep
<1>3. ASSUME NEW p \in Processes, ListenerStops(p) PROVE StartupTypeOK'
    BY Zenon, <1>3 DEF ListenerStops
<1>4. ASSUME NEW p \in Processes, Panics(p) \/ QuicPanics(p) \/ Killed(p) PROVE StartupTypeOK'
    BY SMTT(30), <1>4 DEF Panics, QuicPanics, Killed
<1>5. ASSUME NEW p \in Processes, AdminTask(p) PROVE StartupTypeOK'
    BY <1>5 DEF AdminTask, RemoveSocket, RemoveSocketErr, BindSocket
<1>6. ASSUME NEW p \in Processes, start_quic_server(p) PROVE StartupTypeOK'
    BY <1>6 DEF start_quic_server
<1>7. ASSUME NEW p \in Processes, start_k8s_watcher(p) PROVE StartupTypeOK'
    BY SMTT(30), <1>7 DEF start_k8s_watcher
<1>8. ASSUME NEW x \in Ports, OtherBinds(x) \/ OtherLeaves(x) PROVE StartupTypeOK'
    BY <1>8 DEF OtherBinds, OtherLeaves
<1>9. CASE UNCHANGED startupVars
    BY <1>9 DEF startupVars
<1> QED
    BY <1>1, <1>2, <1>3, <1>4, <1>5, <1>6, <1>7, <1>8, <1>9 DEF StartupNext

(***************************************************************************)
(* Type correctness of start-up, whatever starts, fails and is killed.     *)
(***************************************************************************)
THEOREM StartupTypeCorrect == StartupSpec => []StartupTypeOK
<1>1. StartupInit => StartupTypeOK
    BY Zenon DEF StartupInit, StartupTypeOK, Ports, Required
<1> QED
    BY <1>1, StartupTypeStep, PTL DEF StartupSpec

-----------------------------------------------------------------------------
(***************************************************************************)
(* A process past the metrics port holds it, so at most one is.            *)
(***************************************************************************)
LEMMA OneInside ==
    ASSUME StartupInv, NEW p \in Inside, NEW q \in Inside PROVE p = q
BY DEF StartupInv

(***************************************************************************)
(* A process that ends frees its ports and loses its tasks; the port of    *)
(* another one is not touched.                                             *)
(***************************************************************************)
LEMMA EndsKeeps ==
    ASSUME StartupTypeOK, StartupInv, NEW p \in Processes, Ends(p) PROVE StartupInv'
<1> USE DEF StartupTypeOK, Ends
<1>1. Inside' \subseteq Inside /\ p \notin Inside'
    BY DEF Inside
<1>2. ASSUME NEW q \in Inside' PROVE port'["metrics"] = q
    BY <1>1, <1>2 DEF StartupInv, Ports
<1>3. ASSUME NEW q \in Processes, admin'[q] # "off" PROVE q \in Inside' /\ q # p
    <2>1. q # p /\ admin[q] # "off"
        BY <1>3
    <2> QED
        BY <2>1 DEF StartupInv, Inside
<1>4. AdminReachable'
    BY <1>3 DEF StartupInv, AdminReachable
<1> QED
    BY <1>2, <1>3, <1>4 DEF StartupInv

(***************************************************************************)
(* A step of a process that changes neither a task of the admin service    *)
(* nor the metrics port keeps the invariant if nobody enters.              *)
(***************************************************************************)
LEMMA QuietKeeps ==
    ASSUME StartupInv, Inside' = Inside, port'["metrics"] = port["metrics"],
           UNCHANGED <<sock, admin>>
    PROVE  StartupInv'
BY Zenon DEF StartupInv, AdminReachable

LEMMA StartupStep ==
    StartupTypeOK /\ StartupInv /\ [StartupNext]_startupVars => StartupInv'
<1> SUFFICES ASSUME StartupTypeOK, StartupInv, [StartupNext]_startupVars PROVE StartupInv'
    OBVIOUS
<1> USE DEF StartupTypeOK, Ports, Required, Advance
<1>1. ASSUME NEW p \in Processes,
             \/ Launch(p) \/ init_telemetry(p) \/ load_tls_config(p) \/ SpawnQuic(p)
             \/ PrepareContext(p) \/ Listen(p) \/ ListenErr(p) \/ ListenerStops(p)
      PROVE  StartupInv'
    <2>1. Inside' = Inside
        BY Zenon, <1>1 DEF Inside, Launch, init_telemetry, load_tls_config, SpawnQuic,
                    PrepareContext, Listen, ListenErr, ListenerStops
    <2>2. port'["metrics"] = port["metrics"] /\ UNCHANGED <<sock, admin>>
        BY <1>1 DEF Launch, init_telemetry, load_tls_config, SpawnQuic,
                    PrepareContext, Listen, ListenErr, ListenerStops
    <2> QED
        BY Zenon, <2>1, <2>2, QuietKeeps
<1>2. ASSUME NEW p \in Processes, init_metrics_exporter(p) PROVE StartupInv'
    <2>1. Inside = {}
        BY <1>2, StartupAssumption DEF init_metrics_exporter, StartupInv, Inside
    <2>2. Inside' = {p} /\ port'["metrics"] = p
        BY <1>2, <2>1 DEF init_metrics_exporter, Inside
    <2>3. \A q \in Processes : admin'[q] = "off"
        BY <1>2, <2>1 DEF init_metrics_exporter, StartupInv
    <2> QED
        BY <2>2, <2>3 DEF StartupInv, AdminReachable
<1>3. ASSUME NEW p \in Processes, SpawnControlPlane(p) PROVE StartupInv'
    <2>1. p \in Inside /\ Inside' = Inside
        BY <1>3 DEF SpawnControlPlane, Inside
    <2> QED
        BY <1>3, <2>1 DEF SpawnControlPlane, StartupInv, AdminReachable
<1>4. ASSUME NEW p \in Processes, Panics(p) \/ QuicPanics(p) \/ Returns(p) \/ Killed(p)
      PROVE  StartupInv'
    BY <1>4, EndsKeeps DEF Panics, QuicPanics, Returns, Killed
<1>5. ASSUME NEW p \in Processes, AdminTask(p) PROVE StartupInv'
    <2>1. p \in Inside /\ Inside' = Inside /\ UNCHANGED port
        BY <1>5 DEF AdminTask, RemoveSocket, RemoveSocketErr, BindSocket, StartupInv, Inside
    <2>2. \A q \in Processes \ {p} : admin[q] = "off" /\ admin'[q] = "off"
        BY <1>5, <2>1, OneInside
        DEF AdminTask, RemoveSocket, RemoveSocketErr, BindSocket, StartupInv
    <2>3. admin'[p] = "serving" => sock' = p
        BY <1>5 DEF AdminTask, RemoveSocket, RemoveSocketErr, BindSocket, StartupInv, AdminReachable
    <2> QED
        BY <2>1, <2>2, <2>3 DEF StartupInv, AdminReachable
<1>6. ASSUME NEW p \in Processes, start_quic_server(p) \/ start_k8s_watcher(p) PROVE StartupInv'
    <2>1. Inside' = Inside /\ port'["metrics"] = port["metrics"] /\ UNCHANGED <<sock, admin>>
        BY <1>6 DEF start_quic_server, start_k8s_watcher, Inside
    <2> QED
        BY <2>1, QuietKeeps
<1>7. ASSUME NEW x \in Ports, OtherBinds(x) \/ OtherLeaves(x) PROVE StartupInv'
    <2>1. Inside' = Inside /\ UNCHANGED <<sock, admin>>
        BY <1>7 DEF OtherBinds, OtherLeaves, Inside
    <2>2. CASE port'["metrics"] = port["metrics"]
        BY Zenon, <2>1, <2>2, QuietKeeps
    <2>3. CASE port'["metrics"] # port["metrics"]
        <3>1. port["metrics"] \notin Processes
            BY <1>7, <2>3, StartupAssumption DEF OtherBinds, OtherLeaves
        <3>2. Inside = {}
            BY SMTT(30), <3>1 DEF StartupInv, Inside
        <3> QED
            BY Zenon, <2>1, <3>2 DEF StartupInv, AdminReachable
    <2> QED
        BY <2>2, <2>3
<1>8. CASE UNCHANGED startupVars
    BY <1>8 DEF startupVars, StartupInv, AdminReachable, Inside
<1> QED
    BY <1>1, <1>2, <1>3, <1>4, <1>5, <1>6, <1>7, <1>8 DEF StartupNext, MainStep

(***************************************************************************)
(* The socket file leads to the admin service that is serving, for any     *)
(* number of instances started, stopped and killed in any order, although  *)
(* start_admin_server removes the file without looking whose it is.        *)
(***************************************************************************)
THEOREM AdminReachableHolds == StartupSpec => []AdminReachable
<1>1. StartupInit => StartupInv
    BY Zenon DEF StartupInit, StartupInv, AdminReachable, Inside
<1>2. StartupInv => AdminReachable
    BY Zenon DEF StartupInv
<1> QED
    BY <1>1, <1>2, StartupStep, StartupTypeCorrect, PTL DEF StartupSpec

-----------------------------------------------------------------------------
(***************************************************************************)
(* Proofs about Certificates, for any number of lookups and reloads, any   *)
(* names and any history of the files.                                     *)
(***************************************************************************)

(***************************************************************************)
(* The records that lookups and reloads start from.                        *)
(***************************************************************************)
LEMMA IdleTypes ==
    /\ IdleLookup \in [stage : {"idle", "exact", "wildcard", "default"},
                       name : {Clean(n) : n \in ServerNames} \cup {<<>>},
                       overtaken : BOOLEAN, answer : Bundles \cup {NoBundle}]
    /\ IdleReload \in [stage : {"idle", "key", "register"}, domain : FromFiles \cup {<<>>},
                       certs : Generations \cup {Empty}, key : Generations \cup {Empty},
                       disturbed : BOOLEAN]
    /\ IdleLookup.stage = "idle" /\ IdleReload.stage = "idle"
BY DEF IdleLookup, IdleReload

(***************************************************************************)
(* insert keeps the map and the lookups well typed.                        *)
(***************************************************************************)
LEMMA InsertType ==
    ASSUME CertTypeOK, NEW domain \in Domains, NEW bundle \in Bundles,
           register_domain(domain, bundle)
    PROVE  /\ DOMAIN domains' \subseteq Keys
           /\ \A k \in DOMAIN domains' : domains'[k] \in Bundles
           /\ lookup' \in [Lookups -> [stage : {"idle", "exact", "wildcard", "default"},
                                       name : {Clean(n) : n \in ServerNames} \cup {<<>>},
                                       overtaken : BOOLEAN, answer : Bundles \cup {NoBundle}]]
<1> DEFINE key == Clean(domain)
<1>1. key \in Keys
    BY DEF Keys
<1>2. Insert(key, bundle)
    BY DEF register_domain
<1> HIDE DEF key
<1>3. \A t \in Lookups : Passed(t, key) \in BOOLEAN
    BY Zenon DEF Passed
<1> QED
    BY ZenonT(30), <1>1, <1>2, <1>3 DEF Insert, CertTypeOK

(***************************************************************************)
(* The bundle that a reload registers is well formed.                      *)
(***************************************************************************)
LEMMA ReloadedBundle ==
    ASSUME CertTypeOK, ReadsCurrent, NEW r \in Reloads, reload[r].stage = "register"
    PROVE  /\ reload[r].domain \in FromFiles /\ reload[r].domain \in Domains
           /\ [certs |-> reload[r].certs, key |-> reload[r].key] \in Bundles
BY Zenon, CertAssumption DEF CertTypeOK, ReadsCurrent, Bundles

(***************************************************************************)
(* A process started anew after an abort has everything as at first, but   *)
(* for the files.                                                          *)
(***************************************************************************)
LEMMA AbortKeeps ==
    ASSUME CertTypeOK, Aborts, UNCHANGED <<certFile, keyFile>>
    PROVE  CertTypeOK' /\ CertInv'
<1>1. DOMAIN domains' = {} /\ \A k \in DOMAIN domains' : FALSE
    BY SMTT(30) DEF Aborts
<1>2. /\ default_bundle' = NoBundle
      /\ lookup' = [t \in Lookups |-> IdleLookup]
      /\ reload' = [r \in Reloads |-> IdleReload]
    BY Zenon DEF Aborts
<1>3. CertTypeOK'
    BY Zenon, <1>1, <1>2, IdleTypes DEF CertTypeOK
<1>4. /\ \A t \in Lookups : lookup'[t].stage = "idle"
      /\ \A r \in Reloads : reload'[r].stage = "idle"
    BY Zenon, <1>2, IdleTypes
<1>5. PassedAbsent' /\ WildcardHasDot'
    BY Zenon, <1>1, <1>4 DEF PassedAbsent, WildcardHasDot
<1>6. ReadsCurrent'
    BY Zenon, <1>4 DEF ReadsCurrent
<1> QED
    BY Zenon, <1>3, <1>5, <1>6 DEF CertInv

LEMMA CertTypeStep ==
    CertTypeOK /\ ReadsCurrent /\ [CertNext]_certVars => CertTypeOK'
<1> SUFFICES ASSUME CertTypeOK, ReadsCurrent, [CertNext]_certVars PROVE CertTypeOK'
    OBVIOUS
<1>1. ASSUME NEW t \in Lookups, NEW n \in ServerNames, LookupBegins(t, n) PROVE CertTypeOK'
    BY Zenon, <1>1, IdleTypes DEF LookupBegins, CertTypeOK, IdleLookup
<1>2. ASSUME NEW t \in Lookups, LookupExact(t) \/ LookupWildcard(t) \/ LookupDefault(t)
      PROVE  CertTypeOK'
    <2> DEFINE L == [stage : {"idle", "exact", "wildcard", "default"},
                     name : {Clean(n) : n \in ServerNames} \cup {<<>>},
                     overtaken : BOOLEAN, answer : Bundles \cup {NoBundle}]
    <2>1. ASSUME NEW b \in Bundles \cup {NoBundle} PROVE [IdleLookup EXCEPT !.answer = b] \in L
        BY Zenon, <2>1 DEF IdleLookup
    <2>2. ASSUME NEW s \in {"wildcard", "default"} PROVE [lookup[t] EXCEPT !.stage = s] \in L
        BY <2>2 DEF CertTypeOK
    <2>3. \E l \in L : lookup' = [lookup EXCEPT ![t] = l]
        BY ZenonT(30), <1>2, <2>1, <2>2
        DEF LookupExact, LookupWildcard, LookupDefault, Read, CertTypeOK
    <2>4. UNCHANGED <<domains, default_bundle, certFile, keyFile, reload>>
        BY <1>2 DEF LookupExact, LookupWildcard, LookupDefault
    <2> QED
        BY <2>3, <2>4 DEF CertTypeOK
<1>3. ASSUME NEW d \in Domains, remove_domain(d) PROVE CertTypeOK'
    BY Zenon, <1>3 DEF remove_domain, CertTypeOK
<1>4. ASSUME NEW d \in Domains, NEW b \in Issued, Register(d, b) PROVE CertTypeOK'
    BY <1>4, InsertType, CertAssumption DEF Register, CertTypeOK
<1>5. ASSUME NEW b \in Issued, set_default(b) PROVE CertTypeOK'
    BY Zenon, <1>5, CertAssumption DEF set_default, CertTypeOK
<1>6. ASSUME NEW r \in Reloads, NEW d \in FromFiles, load_certs(r, d) PROVE CertTypeOK'
    <2>1. certFile # Unreadable => certFile \in Generations \cup {Empty}
        BY DEF CertTypeOK, Contents
    <2> QED
        BY Zenon, <1>6, <2>1, IdleTypes DEF load_certs, CertTypeOK
<1>7. ASSUME NEW r \in Reloads, load_private_key(r) PROVE CertTypeOK'
    <2> DEFINE R == [stage : {"idle", "key", "register"}, domain : FromFiles \cup {<<>>},
                     certs : Generations \cup {Empty}, key : Generations \cup {Empty},
                     disturbed : BOOLEAN]
    <2>1. ASSUME keyFile \in Generations
          PROVE  [reload[r] EXCEPT !.stage = "register", !.key = keyFile] \in R
        BY ZenonT(30), <2>1 DEF CertTypeOK
    <2>2. CASE keyFile = Empty /\ Aborts
        BY Zenon, <1>7, <2>2, AbortKeeps DEF load_private_key
    <2>3. CASE ~(keyFile = Empty /\ Aborts)
        <3>1. reload \in [Reloads -> R]
            BY Zenon DEF CertTypeOK
        <3>2. \/ /\ keyFile \in Generations
                 /\ reload' = [reload EXCEPT ![r] =
                       [reload[r] EXCEPT !.stage = "register", !.key = keyFile]]
              \/ reload' = [reload EXCEPT ![r] = IdleReload]
            BY <1>7, <2>3, <3>1 DEF load_private_key
        <3>3. \E l \in R : reload' = [reload EXCEPT ![r] = l]
            BY Zenon, <2>1, <3>2, IdleTypes
        <3>4. UNCHANGED <<domains, default_bundle, certFile, keyFile, lookup>>
            BY Zenon, <1>7, <2>3 DEF load_private_key
        <3>5. reload' \in [Reloads -> R]
            BY Zenon, <3>1, <3>3
        <3> QED
            BY Zenon, <3>4, <3>5 DEF CertTypeOK
    <2> QED
        BY Zenon, <2>2, <2>3
<1>8. ASSUME NEW r \in Reloads, RegisterReloaded(r) PROVE CertTypeOK'
    <2>1. reload[r].stage = "register"
        BY <1>8 DEF RegisterReloaded
    <2> QED
        BY Zenon, <1>8, <2>1, InsertType, ReloadedBundle, IdleTypes DEF RegisterReloaded, CertTypeOK
<1>9. ASSUME NEW c \in Contents, NEW k \in Contents, Rotate(c, k) PROVE CertTypeOK'
    BY ZenonT(30), <1>9 DEF Rotate, CertTypeOK
<1>10. CASE UNCHANGED certVars
    BY Zenon, <1>10 DEF certVars, CertTypeOK
<1> QED
    BY <1>1, <1>2, <1>3, <1>4, <1>5, <1>6, <1>7, <1>8, <1>9, <1>10 DEF CertNext

-----------------------------------------------------------------------------
(***************************************************************************)
(* The keys that lookups have passed.                                      *)
(***************************************************************************)
LEMMA InsertOvertakes ==
    ASSUME CertTypeOK, PassedAbsent, NEW key, NEW bundle, Insert(key, bundle)
    PROVE  PassedAbsent'
<1> SUFFICES ASSUME NEW t \in Lookups, ~lookup'[t].overtaken, NEW k \in DOMAIN domains'
             PROVE  ~Passed(t, k)'
    BY DEF PassedAbsent
<1>1. /\ ~lookup[t].overtaken /\ ~Passed(t, key)
      /\ lookup'[t].stage = lookup[t].stage /\ lookup'[t].name = lookup[t].name
    BY ZenonT(30) DEF Insert, CertTypeOK
<1>2. k \in DOMAIN domains \/ k = key
    BY DEF Insert
<1>3. ~Passed(t, k)
    BY Zenon, <1>1, <1>2 DEF PassedAbsent
<1> QED
    BY Zenon, <1>1, <1>3 DEF Passed

(***************************************************************************)
(* A lookup goes on only past a key that is absent.                        *)
(***************************************************************************)
LEMMA LookupPasses ==
    ASSUME CertTypeOK, PassedAbsent, NEW t \in Lookups,
           LookupExact(t) \/ LookupWildcard(t) \/ LookupDefault(t)
    PROVE  PassedAbsent'
<1> SUFFICES ASSUME NEW u \in Lookups, ~lookup'[u].overtaken, NEW k \in DOMAIN domains'
             PROVE  ~Passed(u, k)'
    BY DEF PassedAbsent
<1>1. domains' = domains
    BY Zenon DEF LookupExact, LookupWildcard, LookupDefault
<1>2. CASE u # t
    <2>1. lookup'[u] = lookup[u]
        BY Zenon, <1>2 DEF LookupExact, LookupWildcard, LookupDefault, Read, CertTypeOK
    <2> QED
        BY <1>1, <2>1 DEF PassedAbsent, Passed
<1>3. CASE u = t /\ lookup'[t].stage = "idle"
    BY <1>3 DEF Passed
<1>4. CASE u = t /\ lookup'[t].stage # "idle"
    <2>1. lookup'[t].name = lookup[t].name /\ ~lookup[t].overtaken
        BY SMTT(30), <1>4, IdleTypes
        DEF LookupExact, LookupWildcard, LookupDefault, Read, CertTypeOK, IdleLookup
    <2>2. CASE LookupExact(t)
        <3>1. lookup[t].name \notin DOMAIN domains
            BY <1>4, <2>2, IdleTypes DEF LookupExact, Read, CertTypeOK, IdleLookup
        <3>2. lookup'[t].stage = IF HasDot(lookup[t].name) THEN "wildcard" ELSE "default"
            BY Zenon, <2>2, <3>1 DEF LookupExact, Read, CertTypeOK
        <3> QED
            BY <1>1, <1>4, <2>1, <3>1, <3>2 DEF Passed
    <2>3. CASE LookupWildcard(t)
        <3>1. Wildcard(lookup[t].name) \notin DOMAIN domains
            BY Zenon, <1>4, <2>3, IdleTypes DEF LookupWildcard, Read, CertTypeOK, IdleLookup
        <3>2. lookup[t].name \notin DOMAIN domains
            BY <2>1, <2>3 DEF LookupWildcard, PassedAbsent, Passed
        <3> QED
            BY <1>1, <1>4, <2>1, <3>1, <3>2 DEF Passed
    <2>4. CASE LookupDefault(t)
        BY <1>4, <2>4 DEF LookupDefault, CertTypeOK, IdleLookup
    <2> QED
        BY <2>2, <2>3, <2>4
<1> QED
    BY Zenon, <1>2, <1>3, <1>4

LEMMA DotStep ==
    CertTypeOK /\ WildcardHasDot /\ [CertNext]_certVars => WildcardHasDot'
<1> SUFFICES ASSUME CertTypeOK, WildcardHasDot, [CertNext]_certVars,
                    NEW t \in Lookups, lookup'[t].stage = "wildcard"
             PROVE  HasDot(lookup'[t].name)
    BY Zenon DEF WildcardHasDot, HasDot
<1>1. CASE lookup'[t].stage = lookup[t].stage /\ lookup'[t].name = lookup[t].name
    BY Zenon, <1>1 DEF WildcardHasDot
<1>2. ASSUME NEW u \in Lookups,
             \/ LookupExact(u) \/ LookupWildcard(u) \/ LookupDefault(u)
             \/ \E n \in ServerNames : LookupBegins(u, n)
      PROVE  HasDot(lookup'[t].name)
    <2>1. CASE u # t
        <3>1. lookup'[t] = lookup[t]
            BY Zenon, <1>2, <2>1
            DEF LookupBegins, LookupExact, LookupWildcard, LookupDefault, Read, CertTypeOK
        <3> QED
            BY <3>1 DEF WildcardHasDot
    <2>2. CASE u = t
        <3>1. LookupExact(t)
            <4>1. ~LookupWildcard(t)
                <5> SUFFICES ASSUME LookupWildcard(t) PROVE FALSE
                    OBVIOUS
                <5>1. lookup'[t].stage \in {"idle", "default"}
                    BY DEF LookupWildcard, Read, CertTypeOK, IdleLookup
                <5> QED
                    BY <5>1
            <4>2. ~LookupDefault(t)
                BY DEF LookupDefault, CertTypeOK, IdleLookup
            <4>3. ASSUME NEW n \in ServerNames PROVE ~LookupBegins(t, n)
                BY ZenonT(30) DEF LookupBegins, CertTypeOK, IdleLookup
            <4> QED
                BY Zenon, <1>2, <2>2, <4>1, <4>2, <4>3
        <3> QED
            <4>1. lookup[t].name \notin DOMAIN domains
                BY <3>1 DEF LookupExact, Read, CertTypeOK, IdleLookup
            <4>2. lookup' = [lookup EXCEPT ![t] = [lookup[t] EXCEPT !.stage =
                                IF HasDot(lookup[t].name) THEN "wildcard" ELSE "default"]]
                BY <3>1, <4>1 DEF LookupExact, Read
            <4>3. /\ lookup'[t].name = lookup[t].name
                  /\ lookup'[t].stage = IF HasDot(lookup[t].name) THEN "wildcard" ELSE "default"
                BY Zenon, <4>2 DEF CertTypeOK
            <4> QED
                BY <4>3
    <2> QED
        BY Zenon, <2>1, <2>2
<1>3. ASSUME NEW key, NEW bundle, Insert(key, bundle) PROVE HasDot(lookup'[t].name)
    <2>1. lookup'[t].stage = lookup[t].stage /\ lookup'[t].name = lookup[t].name
        BY <1>3 DEF Insert, CertTypeOK
    <2> QED
        BY Zenon, <1>1, <2>1
<1>4. CASE Aborts
    BY Zenon, <1>4, IdleTypes DEF Aborts
<1> QED
    BY Zenon, <1>1, <1>2, <1>3, <1>4
       DEF CertNext, certVars, Register, RegisterReloaded, register_domain,
           remove_domain, set_default, load_certs, load_private_key, Rotate

LEMMA PassedStep ==
    CertTypeOK /\ PassedAbsent /\ [CertNext]_certVars => PassedAbsent'
<1> SUFFICES ASSUME CertTypeOK, PassedAbsent, [CertNext]_certVars PROVE PassedAbsent'
    OBVIOUS
<1>1. ASSUME NEW t \in Lookups, NEW n \in ServerNames, LookupBegins(t, n) PROVE PassedAbsent'
    <2>1. /\ domains' = domains
          /\ \A u \in Lookups : u # t => lookup'[u] = lookup[u]
          /\ lookup'[t].stage = "exact"
        BY Zenon, <1>1 DEF LookupBegins, CertTypeOK, IdleLookup
    <2> QED
        BY <2>1 DEF PassedAbsent, Passed
<1>2. ASSUME NEW d \in Domains, remove_domain(d) PROVE PassedAbsent'
    BY <1>2 DEF remove_domain, PassedAbsent, Passed
<1>3. ASSUME NEW d \in Domains, NEW b \in Issued, Register(d, b) PROVE PassedAbsent'
    BY Zenon, <1>3, InsertOvertakes DEF Register, register_domain
<1>4. ASSUME NEW r \in Reloads, RegisterReloaded(r) PROVE PassedAbsent'
    BY Zenon, <1>4, InsertOvertakes DEF RegisterReloaded, register_domain
<1>5. CASE UNCHANGED <<domains, lookup>>
    BY <1>5 DEF PassedAbsent, Passed
<1>6. ASSUME NEW r \in Reloads, load_private_key(r) PROVE PassedAbsent'
    <2>1. CASE Aborts
        BY Zenon, <1>6, <2>1, AbortKeeps DEF load_private_key, CertInv
    <2> QED
        BY Zenon, <1>5, <1>6, <2>1 DEF load_private_key
<1> QED
    BY Zenon, <1>1, <1>2, <1>3, <1>4, <1>5, <1>6, LookupPasses
       DEF CertNext, certVars, set_default, load_certs, Rotate

(***************************************************************************)
(* What reloads have read.                                                 *)
(***************************************************************************)
LEMMA ReadsStep ==
    CertTypeOK /\ ReadsCurrent /\ [CertNext]_certVars => ReadsCurrent'
<1> SUFFICES ASSUME CertTypeOK, ReadsCurrent, [CertNext]_certVars PROVE ReadsCurrent'
    OBVIOUS
<1>1. ASSUME NEW r \in Reloads, NEW d \in FromFiles, load_certs(r, d) PROVE ReadsCurrent'
    BY <1>1 DEF load_certs, ReadsCurrent, CertTypeOK, IdleReload
<1>2. ASSUME NEW r \in Reloads, load_private_key(r) PROVE ReadsCurrent'
    <2>1. CASE Aborts
        BY Zenon, <1>2, <2>1, AbortKeeps DEF load_private_key, CertInv
    <2>2. CASE ~Aborts
        BY SMTT(30), <1>2, <2>2 DEF load_private_key, ReadsCurrent, CertTypeOK, IdleReload
    <2> QED
        BY Zenon, <2>1, <2>2
<1>3. ASSUME NEW r \in Reloads, RegisterReloaded(r) PROVE ReadsCurrent'
    BY <1>3 DEF RegisterReloaded, ReadsCurrent, CertTypeOK, IdleReload
<1>4. ASSUME NEW c \in Contents, NEW k \in Contents, Rotate(c, k) PROVE ReadsCurrent'
    <2> SUFFICES ASSUME NEW r \in Reloads
                 PROVE  /\ reload'[r].stage = reload[r].stage /\ reload'[r].domain = reload[r].domain
                        /\ reload'[r].key = reload[r].key
                        /\ reload'[r].stage # "idle" => reload'[r].disturbed
        BY Zenon DEF ReadsCurrent
    <2>1. reload'[r] = [reload[r] EXCEPT !.disturbed = (reload[r].stage # "idle")]
        BY <1>4 DEF Rotate
    <2>2. reload[r] \in [stage : {"idle", "key", "register"}, domain : FromFiles \cup {<<>>},
                         certs : Generations \cup {Empty}, key : Generations \cup {Empty},
                         disturbed : BOOLEAN]
        BY Zenon DEF CertTypeOK
    <2> QED
        BY Zenon, <2>1, <2>2
<1>5. CASE UNCHANGED <<reload, certFile, keyFile>>
    BY <1>5 DEF ReadsCurrent
<1> QED
    BY Zenon, <1>1, <1>2, <1>3, <1>4, <1>5
       DEF CertNext, certVars, LookupBegins, LookupExact, LookupWildcard, LookupDefault,
           Register, remove_domain, set_default

LEMMA CertInvariant == CertSpec => [](CertTypeOK /\ CertInv)
<1>1. CertInit => CertTypeOK /\ CertInv
    <2> SUFFICES ASSUME CertInit PROVE CertTypeOK /\ CertInv
        OBVIOUS
    <2>1. DOMAIN domains = {}
        BY SMTT(30) DEF CertInit
    <2>2. CertTypeOK
        BY Zenon, <2>1, IdleTypes DEF CertInit, CertTypeOK, Contents
    <2>3. CertInv
        BY <2>1, IdleTypes DEF CertInit, CertInv, PassedAbsent, WildcardHasDot, ReadsCurrent
    <2> QED
        BY <2>2, <2>3
<1>2. CertTypeOK /\ CertInv /\ [CertNext]_certVars => (CertTypeOK /\ CertInv)'
    BY CertTypeStep, PassedStep, DotStep, ReadsStep DEF CertInv
<1> QED
    BY <1>1, <1>2, PTL DEF CertSpec

-----------------------------------------------------------------------------
(***************************************************************************)
(* The variables keep their types: in particular the map has lower-case    *)
(* keys only, so no registered domain is out of reach.                     *)
(***************************************************************************)
THEOREM CertTypeCorrect == CertSpec => []CertTypeOK
BY CertInvariant, PTL

(***************************************************************************)
(* A lookup that no registration overtakes is atomic, although it reads    *)
(* the manager in three steps.                                             *)
(***************************************************************************)
THEOREM LookupsAtomic == CertSpec => AtomicUnlessOvertaken
<1> DEFINE A == \A t \in Lookups :
                  /\ LookupExact(t) \/ LookupWildcard(t) \/ LookupDefault(t)
                  /\ lookup'[t].stage = "idle" /\ ~lookup[t].overtaken
                  => lookup'[t].answer = Atomic(lookup[t].name)
<1>1. CertTypeOK /\ CertInv /\ [CertNext]_certVars => [A]_certVars
    <2> SUFFICES ASSUME CertTypeOK, PassedAbsent, WildcardHasDot, NEW t \in Lookups,
                        LookupExact(t) \/ LookupWildcard(t) \/ LookupDefault(t),
                        lookup'[t].stage = "idle", ~lookup[t].overtaken
                 PROVE  lookup'[t].answer = Atomic(lookup[t].name)
        BY Zenon DEF CertInv
    <2>1. \A k \in DOMAIN domains : ~Passed(t, k)
        BY DEF PassedAbsent
    <2>3. CASE LookupExact(t)
        <3>1. lookup[t].name \in DOMAIN domains /\ lookup'[t].answer = domains[lookup[t].name]
            BY SMTT(30), <2>3 DEF LookupExact, Read, CertTypeOK, IdleLookup
        <3> QED
            BY <3>1 DEF Atomic
    <2>4. CASE LookupWildcard(t)
        <3>1. lookup[t].name \notin DOMAIN domains
            BY <2>1, <2>4 DEF LookupWildcard, Passed
        <3>2. /\ Wildcard(lookup[t].name) \in DOMAIN domains
              /\ lookup'[t].answer = domains[Wildcard(lookup[t].name)]
            BY Zenon, <2>4 DEF LookupWildcard, Read, CertTypeOK, IdleLookup
        <3>3. HasDot(lookup[t].name)
            BY Zenon, <2>4 DEF LookupWildcard, WildcardHasDot
        <3> QED
            BY Zenon, <3>1, <3>2, <3>3 DEF Atomic
    <2>5. CASE LookupDefault(t)
        <3>1. /\ lookup[t].name \notin DOMAIN domains
              /\ HasDot(lookup[t].name) => Wildcard(lookup[t].name) \notin DOMAIN domains
            BY <2>1, <2>5 DEF LookupDefault, Passed
        <3>2. lookup'[t].answer = default_bundle
            BY <2>5 DEF LookupDefault, CertTypeOK, IdleLookup
        <3> QED
            BY <3>1, <3>2 DEF Atomic
    <2> QED
        BY Zenon, <2>3, <2>4, <2>5
<1> QED
    BY <1>1, CertInvariant, PTL DEF CertSpec, AtomicUnlessOvertaken

(***************************************************************************)
(* A reload that no replacement of a file disturbs serves what the two     *)
(* files hold.                                                             *)
(***************************************************************************)
THEOREM ReloadsExact == CertSpec => ReloadExact
<1> DEFINE A == \A r \in Reloads, d \in FromFiles :
                  RegisterReloaded(r) /\ d = reload[r].domain /\ ~reload[r].disturbed
                  => Atomic(Clean(d))' = [certs |-> certFile, key |-> keyFile]
<1>1. CertTypeOK /\ CertInv /\ [CertNext]_certVars => [A]_certVars
    <2> SUFFICES ASSUME CertTypeOK, ReadsCurrent, NEW r \in Reloads, NEW d \in FromFiles,
                        RegisterReloaded(r), d = reload[r].domain, ~reload[r].disturbed
                 PROVE  Atomic(Clean(d))' = [certs |-> certFile, key |-> keyFile]
        BY Zenon DEF CertInv
    <2>1. reload[r].certs = certFile /\ reload[r].key = keyFile
        BY Zenon DEF RegisterReloaded, ReadsCurrent
    <2>2. Insert(Clean(d), [certs |-> certFile, key |-> keyFile])
        BY <2>1 DEF RegisterReloaded, register_domain
    <2>3. /\ Clean(d) \in DOMAIN domains'
          /\ domains'[Clean(d)] = [certs |-> certFile, key |-> keyFile]
        BY Zenon, <2>2 DEF Insert
    <2>4. Clean(d)' = Clean(d)
        BY DEF Clean
    <2> QED
        BY Zenon, <2>3, <2>4 DEF Atomic
<1> QED
    BY <1>1, CertInvariant, PTL DEF CertSpec, ReloadExact

=============================================================================
