------------------------------ MODULE MCHotSwap -----------------------------
(***************************************************************************)
(* The stores that are replaced while others read them, for TLC: the       *)
(* certificates, the routing table as selections walk it and the active    *)
(* plugin.  They share no state, so each of them moves only while the      *)
(* others rest in an initial state: their state spaces add up instead of   *)
(* multiplying.                                                            *)
(***************************************************************************)
EXTENDS Certificates, Selection, Plugins, TLC

CONSTANTS b1, b2, b3, m1, m2

\* An exact domain registered in another case, and the wildcard above it.
LowerCase == [l \in {"api", "API", "org", "ORG", "*"} |->
                 CASE l = "API" -> "api" [] l = "ORG" -> "org" [] OTHER -> l]
NamesAsked == {<<"api", "ORG">>, <<"org">>}
DomainNames == {<<"API", "org">>, <<"*", "org">>}
KeptInFiles == {<<"API", "org">>}
IssuedBundles == {[certs |-> 1, key |-> 1]}

\* b3 always has the highest score; those of b1 and b2 cross.
TableSet == {<<b1, b2, b3>>, <<b3, b1>>}
ModelsOf == b1 :> {m1} @@ b2 :> {m1, m2} @@ b3 :> {m2}
ScoreRanges == b1 :> {2} @@ b2 :> {1, 3} @@ b3 :> {4}
FallbackLists == {<<>>, <<m1>>}

\* One that works as a filter, one that does not compile, two for Proxy-Wasm, one
\* that cannot be linked and one without an entry point.
Plugin(compiles, imports, exports, ends) ==
    [compiles |-> compiles, imports |-> imports, exports |-> exports, ends |-> ends]
PluginBinaries ==
    {default_wat_filter,
     Plugin(FALSE, "none", {}, "traps"),
     Plugin(TRUE, "abi", {"execute", "proxy_on_request_headers"}, "returns"),
     Plugin(TRUE, "abi", {"proxy_on_request_headers"}, "traps"),
     Plugin(TRUE, "other", {"execute"}, "returns"),
     Plugin(TRUE, "none", {}, "returns")}

-----------------------------------------------------------------------------
HotSwapVars == <<certVars, selectVars, pluginVars>>

CertRest == CertInit /\ certFile = 1
SelectRest == SelectInit /\ backends = <<b1, b2, b3>>
PluginRest == PluginInit

HotSwapInit == CertRest /\ SelectRest /\ PluginRest

HotSwapNext ==
    \/ /\ SelectRest /\ PluginRest
       /\ CertNext
       /\ UNCHANGED <<selectVars, pluginVars>>
    \/ /\ CertRest /\ PluginRest
       /\ SelectNext
       /\ UNCHANGED <<certVars, pluginVars>>
    \/ /\ CertRest /\ SelectRest
       /\ PluginNext
       /\ UNCHANGED <<certVars, selectVars>>

HotSwapSpec == HotSwapInit /\ [][HotSwapNext]_HotSwapVars

-----------------------------------------------------------------------------
\* A score at which a backend would count as heavily loaded; the code has none.
HeavyLoad == 4

\* get_ai_backend utilises the fallbacks also if the model is heavily loaded: it
\* does not answer with a backend whose score is that high all the time while one
\* for another model it may use is healthy and below it all the time.
LoadFallsBack ==
    call.stage = "done" /\ call.best # NoBackend
        /\ (\A x \in Scores[call.best] : x >= HeavyLoad) =>
            \A i \in DOMAIN call.wanted, b \in Backends :
                b \in SteadyFor(call.wanted[i]) => \E x \in Scores[b] : x >= HeavyLoad

=============================================================================
