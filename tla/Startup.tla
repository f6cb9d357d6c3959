------------------------------- MODULE Startup ------------------------------
(***************************************************************************)
(* Start-up of proxy processes on one host: async_main                     *)
(* (vortex-proxy/src/main.rs) initialises the parts that must be there,    *)
(* where a failure panics, and spawns the admin service, the Kubernetes    *)
(* watcher and the QUIC listener as tasks, whose errors are only logged.   *)
(* Release builds abort on a panic, so one in a task ends the process too. *)
(* A process may be started while another one runs or drains, and may be   *)
(* killed at any point; its ports are freed then, but the socket file of   *)
(* the admin service stays.  Other programs may hold the ports.            *)
(***************************************************************************)
CONSTANTS
    Processes,   \* instances of the proxy on the host
    Other,       \* a program that is not the proxy
    None

ASSUME StartupAssumption == Other \notin Processes /\ None \notin Processes /\ None # Other

VARIABLES
    boot,        \* where async_main is
    port,        \* who holds the metrics port 9091, TCP 8443 and UDP 8443
    sock,        \* whose listener made the file /tmp/vortex_admin.sock
    admin,       \* the task of start_admin_server
    quic,        \* the task of start_quic_server
    watcher      \* the task of start_k8s_watcher

startupVars == <<boot, port, sock, admin, quic, watcher>>

Ports == {"metrics", "tcp", "udp"}

\* Steps of async_main that end in unwrap(), expect() or ?.  At "spawn" it is the
\* XDP loader, which falls back to none on an error but unwraps the program.
Required == {"telemetry", "metrics", "tls", "spawn", "engine", "redis"}

StartupInit ==
    /\ boot = [p \in Processes |-> "down"]
    /\ port = [x \in Ports |-> None]
    /\ sock = None
    /\ admin = [p \in Processes |-> "off"]
    /\ quic = [p \in Processes |-> "off"]
    /\ watcher = [p \in Processes |-> "off"]

Advance(p, from, to) ==
    /\ boot[p] = from
    /\ boot' = [boot EXCEPT ![p] = to]

\* The kernel closes the sockets of a process that ends; its tasks are gone.
Ends(p) ==
    /\ boot' = [boot EXCEPT ![p] = "down"]
    /\ port' = [x \in Ports |-> IF port[x] = p THEN None ELSE port[x]]
    /\ admin' = [admin EXCEPT ![p] = "off"]
    /\ quic' = [quic EXCEPT ![p] = "off"]
    /\ watcher' = [watcher EXCEPT ![p] = "off"]
    /\ UNCHANGED sock

-----------------------------------------------------------------------------
(***************************************************************************)
(* async_main.                                                             *)
(***************************************************************************)
Launch(p) ==
    /\ Advance(p, "down", "telemetry")
    /\ UNCHANGED <<port, sock, admin, quic, watcher>>

init_telemetry(p) ==
    /\ Advance(p, "telemetry", "metrics")
    /\ UNCHANGED <<port, sock, admin, quic, watcher>>

\* install() binds the port of the exporter, which stays bound to the end.
init_metrics_exporter_Logged(p) ==
    /\ Advance(p, "metrics", "tls")
    /\ port' = IF port["metrics"] = None THEN [port EXCEPT !["metrics"] = p] ELSE port
    /\ UNCHANGED <<sock, admin, quic, watcher>>

init_metrics_exporter(p) ==
    /\ Advance(p, "metrics", "tls")
    /\ port["metrics"] = None
    /\ port' = [port EXCEPT !["metrics"] = p]
    /\ UNCHANGED <<sock, admin, quic, watcher>>

load_tls_config(p) ==
    /\ Advance(p, "tls", "spawn")
    /\ UNCHANGED <<port, sock, admin, quic, watcher>>

\* With or without an XDP limiter: table, prober, and two tasks.
SpawnControlPlane(p) ==
    /\ Advance(p, "spawn", "engine")
    /\ admin' = [admin EXCEPT ![p] = "spawned"]
    /\ watcher' = [watcher EXCEPT ![p] = "spawned"]
    /\ UNCHANGED <<port, sock, quic>>

\* The pool, the Wasm engine, and the task of the QUIC listener.
SpawnQuic(p) ==
    /\ Advance(p, "engine", "redis")
    /\ quic' = [quic EXCEPT ![p] = "spawned"]
    /\ UNCHANGED <<port, sock, admin, watcher>>

\* The rate store, the ban manager with its sweeper, the shutdown channel.
PrepareContext_AwaitsWatcher(p) ==
    /\ Advance(p, "redis", "bind")
    /\ watcher[p] # "spawned"
    /\ UNCHANGED <<port, sock, admin, quic, watcher>>

PrepareContext(p) ==
    /\ Advance(p, "redis", "bind")
    /\ UNCHANGED <<port, sock, admin, quic, watcher>>

Panics(p) ==
    /\ boot[p] \in Required
    /\ Ends(p)

Listen(p) ==
    /\ Advance(p, "bind", "serving")
    /\ port["tcp"] = None
    /\ port' = [port EXCEPT !["tcp"] = p]
    /\ UNCHANGED <<sock, admin, quic, watcher>>

\* start_server returns Err: async_main reports it and sleeps before it returns.
ListenErr(p) ==
    /\ Advance(p, "bind", "sleep")
    /\ port["tcp"] # None
    /\ UNCHANGED <<port, sock, admin, quic, watcher>>

\* start_server returns and its listener is dropped.
ListenerStops(p) ==
    /\ Advance(p, "serving", "sleep")
    /\ port' = [port EXCEPT !["tcp"] = None]
    /\ UNCHANGED <<sock, admin, quic, watcher>>

Returns(p) ==
    /\ boot[p] = "sleep"
    /\ Ends(p)

\* A crash or a signal that is not handled.
Killed(p) ==
    /\ boot[p] # "down"
    /\ Ends(p)

-----------------------------------------------------------------------------
(***************************************************************************)
(* The spawned tasks.                                                      *)
(***************************************************************************)
\* start_admin_server removes whatever is at the path and ignores an error, then
\* binds it, which fails if there is a file.
RemoveSocket_Skipped(p) ==
    /\ admin[p] = "spawned"
    /\ admin' = [admin EXCEPT ![p] = "removed"]
    /\ UNCHANGED <<boot, port, sock, quic, watcher>>

RemoveSocket(p) ==
    /\ admin[p] = "spawned"
    /\ admin' = [admin EXCEPT ![p] = "removed"]
    /\ sock' = None
    /\ UNCHANGED <<boot, port, quic, watcher>>

RemoveSocketErr(p) ==
    /\ admin[p] = "spawned"
    /\ sock # None
    /\ admin' = [admin EXCEPT ![p] = "kept"]
    /\ UNCHANGED <<boot, port, sock, quic, watcher>>

BindSocket(p) ==
    /\ admin[p] \in {"removed", "kept"}
    /\ admin' = [admin EXCEPT ![p] = IF sock = None THEN "serving" ELSE "failed"]
    /\ sock' = IF sock = None THEN p ELSE sock
    /\ UNCHANGED <<boot, port, quic, watcher>>

start_quic_server(p) ==
    /\ quic[p] = "spawned"
    /\ \/ /\ port["udp"] = None
          /\ port' = [port EXCEPT !["udp"] = p]
          /\ quic' = [quic EXCEPT ![p] = "serving"]
       \/ /\ quic' = [quic EXCEPT ![p] = "failed"]   \* certificates, or the port
          /\ UNCHANGED port
    /\ UNCHANGED <<boot, sock, admin, watcher>>

\* load_private_key finds a file without a key.
QuicPanics(p) ==
    /\ quic[p] = "spawned"
    /\ Ends(p)

\* Client::try_default answers in its own time, or not at all.
start_k8s_watcher(p) ==
    /\ watcher[p] = "spawned"
    /\ \E w \in {"watching", "failed"} : watcher' = [watcher EXCEPT ![p] = w]
    /\ UNCHANGED <<boot, port, sock, admin, quic>>

OtherBinds(x) ==
    /\ port[x] = None
    /\ port' = [port EXCEPT ![x] = Other]
    /\ UNCHANGED <<boot, sock, admin, quic, watcher>>

OtherLeaves(x) ==
    /\ port[x] = Other
    /\ port' = [port EXCEPT ![x] = None]
    /\ UNCHANGED <<boot, sock, admin, quic, watcher>>

-----------------------------------------------------------------------------
MainStep(p) ==
    \/ init_telemetry(p) \/ init_metrics_exporter(p) \/ load_tls_config(p)
    \/ SpawnControlPlane(p) \/ SpawnQuic(p) \/ PrepareContext(p)
    \/ Listen(p) \/ ListenErr(p) \/ Returns(p)

AdminTask(p) == RemoveSocket(p) \/ RemoveSocketErr(p) \/ BindSocket(p)

StartupNext ==
    \/ \E p \in Processes :
        \/ Launch(p) \/ MainStep(p) \/ ListenerStops(p) \/ Panics(p) \/ Killed(p)
        \/ AdminTask(p) \/ start_quic_server(p) \/ QuicPanics(p) \/ start_k8s_watcher(p)
    \/ \E x \in Ports : OtherBinds(x) \/ OtherLeaves(x)

StartupSpec == StartupInit /\ [][StartupNext]_startupVars

\* Threads run.  Nothing is assumed of the Kubernetes API or of the QUIC task, and
\* failures need not happen.
StartupFairness ==
    \A p \in Processes : WF_startupVars(MainStep(p)) /\ WF_startupVars(AdminTask(p))

StartupFairSpec == StartupSpec /\ StartupFairness

-----------------------------------------------------------------------------
\* Types of the variables.
StartupTypeOK ==
    /\ boot \in [Processes -> Required \cup {"down", "bind", "serving", "sleep"}]
    /\ port \in [Ports -> Processes \cup {Other, None}]
    /\ sock \in Processes \cup {None}
    /\ admin \in [Processes -> {"off", "spawned", "removed", "kept", "serving", "failed"}]
    /\ quic \in [Processes -> {"off", "spawned", "serving", "failed"}]
    /\ watcher \in [Processes -> {"off", "spawned", "watching", "failed"}]

\* start_admin_server removes the socket of any process, not only a dangling
\* one; still the file always leads to the admin service that is serving,
\* because an instance started next to another ends at the metrics port first.
AdminReachable == \A p \in Processes : admin[p] = "serving" => sock = p

\* After a crash that left its socket behind, the admin service of the next
\* process comes up all the same, unless the file could not be removed or the
\* process ends first.
AdminComesUp ==
    \A p \in Processes :
        admin[p] = "spawned" ~> (admin[p] \in {"serving", "kept"} \/ boot[p] = "down")

\* No optional part holds the start up, by an error or by never answering: a
\* process that has its metrics port and its certificates goes on to serve, or
\* reports that the port is taken.  What can stop it is a kill, or a panic: of
\* one of the steps that must succeed, or of the QUIC task.
StartsAnyway ==
    \A p \in Processes : boot[p] = "spawn" ~> boot[p] \in {"serving", "sleep", "down"}

\* Inductive: a process past the metrics port holds it, so there is only one,
\* and only that one has tasks.
Inside == {p \in Processes : boot[p] \notin {"down", "telemetry", "metrics"}}

StartupInv ==
    /\ \A p \in Inside : port["metrics"] = p
    /\ \A p \in Processes : admin[p] # "off" => p \in Inside
    /\ AdminReachable

=============================================================================
