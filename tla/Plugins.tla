------------------------------- MODULE Plugins ------------------------------
(***************************************************************************)
(* Wasm plugins: workers execute the active one for each request           *)
(* (forward_request of vortex-proxy/src/server.rs and WasmEngine of        *)
(* vortex-filters/src/wasm_engine.rs) while update_wasm_plugin             *)
(* (vortex-admin/src/server.rs) replaces it.  Instances come from a pool.  *)
(* A Proxy-Wasm plugin may call back into the host while it runs           *)
(* (vortex-filters/src/proxy_wasm/host.rs); these calls change nothing     *)
(* that is modelled here.                                                  *)
(*                                                                         *)
(* A plugin is what its bytes lead to in each step of an execution.        *)
(***************************************************************************)
EXTENDS Naturals, FiniteSets

CONSTANTS
    Workers,          \* threads that execute plugins
    Binaries,         \* plugins that may be installed
    total_core_instances

ASSUME PluginAssumption ==
    /\ Binaries \subseteq [compiles : BOOLEAN, imports : {"none", "abi", "other"},
                           exports : SUBSET {"execute", "proxy_on_request_headers"},
                           ends : {"returns", "traps"}]
    /\ total_core_instances \in Nat \ {0}
    /\ IsFiniteSet(Workers)

\* The filter async_main starts with.
default_wat_filter ==
    [compiles |-> TRUE, imports |-> "none", exports |-> {"execute"}, ends |-> "returns"]

VARIABLES
    active_wasm_payload,
    run,           \* each worker's execution: where it is and what it executes
    instances      \* instances taken from the pool

pluginVars == <<active_wasm_payload, run, instances>>

Apis == {"execute_filter", "execute_proxy_wasm"}

Resting(outcome) == [stage |-> "idle", outcome |-> outcome]

PluginInit ==
    /\ active_wasm_payload = default_wat_filter
    /\ run = [w \in Workers |-> Resting("none")]
    /\ instances = 0

-----------------------------------------------------------------------------
(***************************************************************************)
(* execute_filter and execute_proxy_wasm: every ? drops the store, and     *)
(* with it the instance if there is one.                                   *)
(***************************************************************************)
\* The bytes are copied under the read lock; the plugin may change from here on.
ReadPayload(w, api) ==
    /\ run[w].stage = "idle"
    /\ run' = [run EXCEPT ![w] = [stage |-> "read", api |-> api, plugin |-> active_wasm_payload,
                                  began |-> active_wasm_payload]]
    /\ UNCHANGED <<active_wasm_payload, instances>>

Module_Rereads(w) ==
    /\ run[w].stage = "read"
    /\ run' = [run EXCEPT ![w] = IF active_wasm_payload.compiles
                                 THEN [@ EXCEPT !.stage = "compiled", !.plugin = active_wasm_payload]
                                 ELSE Resting("err")]
    /\ UNCHANGED <<active_wasm_payload, instances>>

Module(w) ==
    /\ run[w].stage = "read"
    /\ run' = [run EXCEPT ![w] = IF run[w].plugin.compiles
                                 THEN [@ EXCEPT !.stage = "compiled"]
                                 ELSE Resting("err")]
    /\ UNCHANGED <<active_wasm_payload, instances>>

\* execute_filter provides no imports, register_proxy_wasm_abi those of the ABI.
Links(api, plugin) ==
    \/ plugin.imports = "none"
    \/ plugin.imports = "abi" /\ api = "execute_proxy_wasm"

Instantiate_NoLimit(w) ==
    /\ run[w].stage = "compiled"
    /\ Links(run[w].api, run[w].plugin)
    /\ run' = [run EXCEPT ![w].stage = "live"]
    /\ instances' = instances + 1
    /\ UNCHANGED active_wasm_payload

Instantiate(w) ==
    /\ run[w].stage = "compiled"
    /\ Links(run[w].api, run[w].plugin)
    /\ instances < total_core_instances
    /\ run' = [run EXCEPT ![w].stage = "live"]
    /\ instances' = instances + 1
    /\ UNCHANGED active_wasm_payload

InstantiateErr(w) ==
    /\ run[w].stage = "compiled"
    /\ ~Links(run[w].api, run[w].plugin) \/ instances = total_core_instances
    /\ run' = [run EXCEPT ![w] = Resting(IF Links(run[w].api, run[w].plugin) THEN "full" ELSE "err")]
    /\ UNCHANGED <<active_wasm_payload, instances>>

\* A filter must export execute; a Proxy-Wasm plugin need not export the handler.
Entry(api) == IF api = "execute_filter" THEN "execute" ELSE "proxy_on_request_headers"

NoEntry_Leaks(w) ==
    /\ run[w].stage = "live"
    /\ Entry(run[w].api) \notin run[w].plugin.exports
    /\ run' = [run EXCEPT ![w] = Resting(IF run[w].api = "execute_filter" THEN "err" ELSE "ok")]
    /\ UNCHANGED <<active_wasm_payload, instances>>

NoEntry(w) ==
    /\ run[w].stage = "live"
    /\ Entry(run[w].api) \notin run[w].plugin.exports
    /\ run' = [run EXCEPT ![w] = Resting(IF run[w].api = "execute_filter" THEN "err" ELSE "ok")]
    /\ instances' = instances - 1
    /\ UNCHANGED active_wasm_payload

\* The entry point returns a value, which the caller only logs, or traps.
CallEnds(w) ==
    /\ run[w].stage = "live"
    /\ Entry(run[w].api) \in run[w].plugin.exports
    /\ run' = [run EXCEPT ![w] = Resting(IF run[w].plugin.ends = "returns" THEN "ok" ELSE "err")]
    /\ instances' = instances - 1
    /\ UNCHANGED active_wasm_payload

-----------------------------------------------------------------------------
\* The write lock is free between two copies; an empty request changes nothing.
update_wasm_plugin(binary) ==
    /\ active_wasm_payload # binary
    /\ active_wasm_payload' = binary
    /\ UNCHANGED <<run, instances>>

PluginNext ==
    \/ \E w \in Workers :
        \/ \E api \in Apis : ReadPayload(w, api)
        \/ Module(w) \/ Instantiate(w) \/ InstantiateErr(w) \/ NoEntry(w) \/ CallEnds(w)
    \/ \E b \in Binaries : update_wasm_plugin(b)

PluginSpec == PluginInit /\ [][PluginNext]_pluginVars

-----------------------------------------------------------------------------
\* What a worker's run is between two executions and during one.
Payloads == Binaries \cup {default_wat_filter}
Rests == [stage : {"idle"}, outcome : {"none", "ok", "err", "full"}]
Executions == [stage : {"read", "compiled", "live"}, api : Apis, plugin : Payloads, began : Payloads]

\* Types of the variables; no more instances than the pool has.
PluginTypeOK ==
    /\ active_wasm_payload \in Payloads
    /\ run \in [Workers -> Rests \cup Executions]
    /\ instances \in 0..total_core_instances

\* On every path out of an execution (link error, missing export, trap, return)
\* its instance goes back: the pool holds an instance for exactly the executions
\* that have one, so it never runs dry by itself.
InstancesReturned == instances = Cardinality({w \in Workers : run[w].stage = "live"})

\* What one plugin comes to if nothing happens around it.
Verdict(api, plugin) ==
    IF /\ plugin.compiles
       /\ Links(api, plugin)
       /\ IF Entry(api) \in plugin.exports THEN plugin.ends = "returns"
          ELSE api = "execute_proxy_wasm"
    THEN "ok" ELSE "err"

\* An execution is that of the plugin which was active when the request began,
\* from compilation to its end, however often the plugin is replaced meanwhile:
\* its outcome is that plugin's, or that there was no instance left for it.
OnePluginPerRequest ==
    [][\A w \in Workers :
          run[w].stage # "idle" /\ run'[w].stage = "idle"
             => run'[w].outcome \in {Verdict(run[w].api, run[w].began), "full"}]_pluginVars

(***************************************************************************)
(* The inductive strengthening.                                            *)
(***************************************************************************)
\* An execution holds the plugin it began with, which has passed the steps that
\* the execution has behind it.
Follows(x) ==
    x.stage # "idle" =>
        /\ x.plugin = x.began
        /\ x.stage # "read" => x.plugin.compiles
        /\ x.stage = "live" => Links(x.api, x.plugin)

HoldsItsPlugin == \A w \in Workers : Follows(run[w])

PluginInv == InstancesReturned /\ HoldsItsPlugin

=============================================================================
