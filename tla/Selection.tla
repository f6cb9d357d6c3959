------------------------------ MODULE Selection -----------------------------
(***************************************************************************)
(* Choosing a backend: select_best_backend (vortex-core/src/load_balancer/ *)
(* selector.rs), get_best_backend and get_ai_backend (vortex-core/src/     *)
(* domain/routing.rs).  A call takes a snapshot of the routing table and   *)
(* walks it, filtering and comparing as it goes (filter and min_by are     *)
(* lazy), while other threads swap the table, change the health of         *)
(* backends, trip and close breakers and move the scores.                  *)
(***************************************************************************)
EXTENDS Naturals, Sequences, Functions

CONSTANTS
    Backends,
    Tables,       \* routing tables: sequences of backends
    Models,
    ai_models,    \* the models each backend serves
    Fallbacks,    \* lists of fallback models
    Scores,       \* the values each backend's score takes during a call
    AnyModel,     \* what a call that is not about a model wants
    NoBackend

ASSUME SelectionAssumption ==
    /\ Tables \subseteq Seq(Backends) \ {<<>>}
    /\ Fallbacks \subseteq Seq(Models)
    /\ \A b \in Backends : ai_models[b] \subseteq Models /\ Scores[b] \subseteq Nat
    /\ AnyModel \notin Models
    /\ NoBackend \notin Backends

VARIABLES
    backends,     \* the ArcSwap of the routing table
    healthy,      \* backends marked healthy
    open,         \* backends whose breaker is Open
    call,         \* the call: what it wants, its snapshot, where it is, its best so far
    steady        \* history: backends that passed the filter throughout the call

selectVars == <<backends, healthy, open, call, steady>>

Idle == [stage |-> "idle", breaker |-> FALSE, wanted |-> <<>>, snapshot |-> <<>>,
         round |-> 1, pos |-> 1, best |-> NoBackend]

SelectInit ==
    /\ backends \in Tables
    /\ healthy = Backends
    /\ open = {}
    /\ call = Idle
    /\ steady = {}

-----------------------------------------------------------------------------
(***************************************************************************)
(* The filter: get_best_backend and get_ai_backend do not ask the breaker. *)
(***************************************************************************)
Usable(b, breaker) == b \in healthy /\ (breaker => b \notin open)

Serves(b, model) == model = AnyModel \/ model \in ai_models[b]

\* The model the current round looks for, and the backend it has come to.
Model == call.wanted[call.round]
Here == call.snapshot[call.pos]

Passes(b) == Usable(b, call.breaker) /\ Serves(b, Model)

Begin(breaker, wanted) ==
    /\ call.stage = "idle"
    /\ call' = [Idle EXCEPT !.stage = "walking", !.breaker = breaker,
                            !.wanted = wanted, !.snapshot = backends]
    /\ steady' = {b \in Backends : Usable(b, breaker)}
    /\ UNCHANGED <<backends, healthy, open>>

select_best_backend == Begin(TRUE, <<AnyModel>>)
get_best_backend == Begin(FALSE, <<AnyModel>>)
get_ai_backend(model, fallback) == Begin(FALSE, <<model>> \o fallback)

Walking == call.stage = "walking" /\ call.pos <= Len(call.snapshot)

Skip ==
    /\ Walking
    /\ ~Passes(Here)
    /\ call' = [call EXCEPT !.pos = @ + 1]
    /\ UNCHANGED <<backends, healthy, open, steady>>

\* The first that passes, without a comparison.
First ==
    /\ Walking
    /\ Passes(Here)
    /\ call.best = NoBackend
    /\ call' = [call EXCEPT !.pos = @ + 1, !.best = Here]
    /\ UNCHANGED <<backends, healthy, open, steady>>

\* min_by keeps the earlier of two equals.  Each comparison reads both scores
\* anew.
Above_Reversed(b, c) == \E x \in Scores[b], y \in Scores[c] : x < y

Above(b, c) == \E x \in Scores[b], y \in Scores[c] : x > y

NotAbove(b, c) == \E x \in Scores[b], y \in Scores[c] : x <= y

Compare ==
    /\ Walking
    /\ Passes(Here)
    /\ call.best # NoBackend
    /\ \/ /\ Above(call.best, Here)
          /\ call' = [call EXCEPT !.pos = @ + 1, !.best = Here]
       \/ /\ NotAbove(call.best, Here)
          /\ call' = [call EXCEPT !.pos = @ + 1]
    /\ UNCHANGED <<backends, healthy, open, steady>>

\* The walk found nothing and there is a fallback model left: another walk over
\* the same snapshot.
NextModel_Always ==
    /\ call.stage = "walking" /\ call.pos > Len(call.snapshot)
    /\ call.round < Len(call.wanted)
    /\ call' = [call EXCEPT !.round = @ + 1, !.pos = 1]
    /\ UNCHANGED <<backends, healthy, open, steady>>

NextModel_OffByOne ==
    /\ call.stage = "walking" /\ call.pos > Len(call.snapshot)
    /\ call.best = NoBackend
    /\ call.round <= Len(call.wanted)
    /\ call' = [call EXCEPT !.round = @ + 1, !.pos = 1]
    /\ UNCHANGED <<backends, healthy, open, steady>>

NextModel ==
    /\ call.stage = "walking" /\ call.pos > Len(call.snapshot)
    /\ call.best = NoBackend
    /\ call.round < Len(call.wanted)
    /\ call' = [call EXCEPT !.round = @ + 1, !.pos = 1]
    /\ UNCHANGED <<backends, healthy, open, steady>>

Return ==
    /\ call.stage = "walking" /\ call.pos > Len(call.snapshot)
    /\ call.best # NoBackend \/ call.round = Len(call.wanted)
    /\ call' = [call EXCEPT !.stage = "done"]
    /\ UNCHANGED <<backends, healthy, open, steady>>

\* The caller is done with the answer.
Forget ==
    /\ call.stage = "done"
    /\ call' = Idle
    /\ steady' = {}
    /\ UNCHANGED <<backends, healthy, open>>

-----------------------------------------------------------------------------
(***************************************************************************)
(* The other threads.                                                      *)
(***************************************************************************)
StillSteady(h, o) ==
    IF call.stage = "walking" THEN (steady \cap h) \ (IF call.breaker THEN o ELSE {})
    ELSE steady

update_backends(table) ==
    /\ backends # table
    /\ backends' = table
    /\ UNCHANGED <<healthy, open, call, steady>>

set_healthy(b, is_healthy) ==
    /\ (b \in healthy) # is_healthy
    /\ healthy' = IF is_healthy THEN healthy \cup {b} ELSE healthy \ {b}
    /\ steady' = StillSteady(healthy', open)
    /\ UNCHANGED <<backends, open, call>>

BreakerMoves(b) ==
    /\ open' = IF b \in open THEN open \ {b} ELSE open \cup {b}
    /\ steady' = StillSteady(healthy, open')
    /\ UNCHANGED <<backends, healthy, call>>

-----------------------------------------------------------------------------
SelectNext ==
    \/ select_best_backend \/ get_best_backend
    \/ \E m \in Models, f \in Fallbacks : get_ai_backend(m, f)
    \/ Skip \/ First \/ Compare \/ NextModel \/ Return \/ Forget
    \/ \E t \in Tables : update_backends(t)
    \/ \E b \in Backends : BreakerMoves(b) \/ \E h \in BOOLEAN : set_healthy(b, h)

SelectSpec == SelectInit /\ [][SelectNext]_selectVars

-----------------------------------------------------------------------------
Calls == [stage : {"idle", "walking", "done"}, breaker : BOOLEAN,
          wanted : Seq(Models \cup {AnyModel}), snapshot : Tables \cup {<<>>},
          round : Nat, pos : Nat, best : Backends \cup {NoBackend}]

\* Types of the variables; a walk stays within the list of models and the snapshot.
SelectTypeOK ==
    /\ backends \in Tables
    /\ healthy \subseteq Backends /\ open \subseteq Backends /\ steady \subseteq Backends
    /\ call \in Calls
    /\ call.stage # "idle" => call.snapshot \in Tables /\ call.round \in DOMAIN call.wanted
    /\ call.pos \in 1..(Len(call.snapshot) + 1)

\* Backends of the snapshot that serve a model and stayed usable throughout.
SteadyFor(model) == {b \in steady \cap Range(call.snapshot) : Serves(b, model)}

\* However backends come and go during the walk, a call answers with a backend
\* for the first of its models, in the order of the fallback list, that had a
\* backend usable throughout, or for an earlier one; so it answers None only if
\* no model it may use had one.  Load plays no part in this: get_ai_backend goes
\* to a fallback if it finds no healthy backend for the model, however high the
\* scores of those it finds.
FallbackOnlyWhenNeeded ==
    call.stage = "done" =>
        \A i \in DOMAIN call.wanted :
            SteadyFor(call.wanted[i]) # {} => call.best # NoBackend /\ call.round <= i

\* Scores move between the comparisons, so the winner need not have had the
\* lowest; but a backend whose score is above that of all others for the model at
\* all times is not chosen while another one is usable throughout.
NotTheWorst ==
    call.stage = "done" /\ SteadyFor(Model) \ {call.best} # {} =>
        \E b \in Range(call.snapshot) \ {call.best} :
            Serves(b, Model) /\ NotAbove(call.best, b)

(***************************************************************************)
(* The inductive strengthening: what the walk knows of the part it has     *)
(* behind it.                                                              *)
(***************************************************************************)
\* What passed throughout passes now.
SteadyUsable == call.stage = "walking" => \A b \in steady : Usable(b, call.breaker)

\* Rounds are given up only for models without a steady backend.
RoundsExhausted ==
    call.stage # "idle" =>
        \A i \in DOMAIN call.wanted : i < call.round => SteadyFor(call.wanted[i]) = {}

\* The best so far is one of the snapshot and serves the model.
BestServes ==
    call.stage # "idle" /\ call.best # NoBackend =>
        call.best \in Range(call.snapshot) /\ Serves(call.best, Model)

\* A steady backend that was passed by is the best, or there is one that the
\* best need not be above.
PassedBy ==
    call.stage # "idle" =>
        \A j \in DOMAIN call.snapshot :
            j < call.pos /\ call.snapshot[j] \in SteadyFor(Model) =>
                /\ call.best # NoBackend
                /\ \/ call.snapshot[j] = call.best
                   \/ \E b \in Range(call.snapshot) \ {call.best} :
                         Serves(b, Model) /\ NotAbove(call.best, b)

\* A call returns at the end of the snapshot, with a backend or after its last
\* round.
ReturnsAtEnd ==
    call.stage = "done" =>
        /\ call.pos > Len(call.snapshot)
        /\ call.best # NoBackend \/ call.round = Len(call.wanted)

WalkInv == SteadyUsable /\ RoundsExhausted /\ BestServes /\ PassedBy /\ ReturnsAtEnd

=============================================================================
