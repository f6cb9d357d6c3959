------------------------------- MODULE Server -------------------------------
(***************************************************************************)
(* The life of the proxy process: start_server (vortex-proxy/src/server.rs)*)
(* accepts connections and spawns a task for each; the Ctrl+C task of      *)
(* async_main (vortex-proxy/src/main.rs) stops it through a broadcast      *)
(* channel; async_main then sleeps for a grace period and returns, and the *)
(* runtime drops the tasks that are left.                                  *)
(*                                                                         *)
(* A request is the time it still needs.  All times are in ticks.          *)
(***************************************************************************)
EXTENDS Integers, FiniteSets

CONSTANTS
    Conns,       \* client connections, each made at most once
    Needs,       \* times a request may need; none is instantaneous
    Grace        \* the sleep before the process exits

ASSUME ServerAssumption ==
    /\ IsFiniteSet(Conns)
    /\ Needs \subseteq Nat \ {0}
    /\ Grace \in Nat

VARIABLES
    tls,         \* whether start_server got a TlsAcceptor
    main,        \* where async_main is
    drain,       \* what is left of its sleep
    handler,     \* the Ctrl+C task
    channel,     \* the broadcast channel, as its receiver finds it
    conn,        \* each connection and its task
    left,        \* time the request on a connection still needs
    active_connections,
    promised     \* history: connections whose request ends before the sleep does

vars == <<tls, main, drain, handler, channel, conn, left, active_connections, promised>>

mainVars == <<tls, main, drain>>
signalVars == <<handler, channel>>

\* A task holds an ActiveConnGuard from its first poll to its end.
Guarded == {c \in Conns : conn[c] \in {"handshake", "idle", "busy"}}

Busy == {c \in Conns : conn[c] = "busy"}

Init ==
    /\ tls \in BOOLEAN
    /\ main = "bind"
    /\ drain = 0
    /\ handler = "waiting"
    /\ channel = "open"
    /\ conn = [c \in Conns |-> "new"]
    /\ left = [c \in Conns |-> 0]
    /\ active_connections = 0
    /\ promised = {}

-----------------------------------------------------------------------------
(***************************************************************************)
(* The Ctrl+C task.  Its channel was made with the receiver, which keeps a *)
(* message sent before start_server listens.                               *)
(***************************************************************************)
CtrlC_NotKept ==
    /\ handler = "waiting"
    /\ handler' = "signalled"
    /\ channel' = IF main = "accept" THEN "message" ELSE channel
    /\ UNCHANGED <<mainVars, conn, left, active_connections, promised>>

CtrlC ==
    /\ handler = "waiting"
    /\ handler' = "signalled"
    /\ channel' = "message"
    /\ UNCHANGED <<mainVars, conn, left, active_connections, promised>>

\* ctrl_c() returns Err: the task ends, and with it the only sender.
CtrlCErr ==
    /\ handler = "waiting"
    /\ handler' = "failed"
    /\ channel' = "closed"
    /\ UNCHANGED <<mainVars, conn, left, active_connections, promised>>

-----------------------------------------------------------------------------
(***************************************************************************)
(* async_main and start_server.  An accept error changes nothing.          *)
(***************************************************************************)
Bind ==
    /\ main = "bind"
    /\ main' = "accept"
    /\ UNCHANGED <<tls, drain, signalVars, conn, left, active_connections, promised>>

\* start_server returns Err; async_main reports it and sleeps all the same.
BindErr ==
    /\ main = "bind"
    /\ main' = "sleep"
    /\ drain' = Grace
    /\ UNCHANGED <<tls, signalVars, conn, left, active_connections, promised>>

Accept_Inline(c) ==
    /\ main = "accept"
    /\ conn[c] = "queued"
    /\ \A d \in Conns : conn[d] # "handshake"
    /\ conn' = [conn EXCEPT ![c] = "spawned"]
    /\ UNCHANGED <<mainVars, signalVars, left, active_connections, promised>>

Accept(c) ==
    /\ main = "accept"
    /\ conn[c] = "queued"
    /\ conn' = [conn EXCEPT ![c] = "spawned"]
    /\ UNCHANGED <<mainVars, signalVars, left, active_connections, promised>>

\* recv() returns, with the message or because the sender is gone: both end the
\* loop.  The listener is dropped with the connections it has not accepted.
Stop ==
    /\ main = "accept"
    /\ channel # "open"
    /\ main' = "sleep"
    /\ drain' = Grace
    /\ conn' = [c \in Conns |-> IF conn[c] = "queued" THEN "refused" ELSE conn[c]]
    /\ promised' = {c \in Busy : left[c] < Grace}
    /\ UNCHANGED <<tls, signalVars, left, active_connections>>

\* Time passes; a request that needs no more of it has ended by then.
Tick ==
    /\ main \in {"accept", "sleep"}
    /\ main = "sleep" => drain > 0
    /\ \A c \in Busy : left[c] > 0
    /\ drain' = IF main = "sleep" THEN drain - 1 ELSE drain
    /\ left' = [c \in Conns |-> IF c \in Busy THEN left[c] - 1 ELSE left[c]]
    /\ UNCHANGED <<tls, main, signalVars, conn, active_connections, promised>>

\* async_main returns and the runtime drops every task, guards included.
Exit_NoSleep ==
    /\ main = "sleep"
    /\ main' = "exited"
    /\ conn' = [c \in Conns |-> CASE conn[c] = "busy" -> "cut"
                                  [] conn[c] \in {"spawned", "handshake", "idle"} -> "done"
                                  [] OTHER -> conn[c]]
    /\ active_connections' = active_connections - Cardinality(Guarded)
    /\ UNCHANGED <<tls, drain, signalVars, left, promised>>

Exit ==
    /\ main = "sleep"
    /\ drain = 0
    /\ main' = "exited"
    /\ conn' = [c \in Conns |-> CASE conn[c] = "busy" -> "cut"
                                  [] conn[c] \in {"spawned", "handshake", "idle"} -> "done"
                                  [] OTHER -> conn[c]]
    /\ active_connections' = active_connections - Cardinality(Guarded)
    /\ UNCHANGED <<tls, drain, signalVars, left, promised>>

-----------------------------------------------------------------------------
(***************************************************************************)
(* A client and the task of its connection, which outlives the listener.   *)
(***************************************************************************)
Connect(c) ==
    /\ main = "accept"
    /\ conn[c] = "new"
    /\ conn' = [conn EXCEPT ![c] = "queued"]
    /\ UNCHANGED <<mainVars, signalVars, left, active_connections, promised>>

\* First poll: the guard is made and the gauge raised, up to the first await.
StartTask_NotCounted(c) ==
    /\ conn[c] = "spawned"
    /\ conn' = [conn EXCEPT ![c] = IF tls THEN "handshake" ELSE "idle"]
    /\ UNCHANGED <<mainVars, signalVars, left, active_connections, promised>>

StartTask(c) ==
    /\ conn[c] = "spawned"
    /\ conn' = [conn EXCEPT ![c] = IF tls THEN "handshake" ELSE "idle"]
    /\ active_connections' = active_connections + 1
    /\ UNCHANGED <<mainVars, signalVars, left, promised>>

HandshakeOk(c) ==
    /\ conn[c] = "handshake"
    /\ conn' = [conn EXCEPT ![c] = "idle"]
    /\ UNCHANGED <<mainVars, signalVars, left, active_connections, promised>>

\* The task ends and its guard is dropped.
DropGuard == active_connections' = active_connections - 1

HandshakeErr_Leaks(c) ==
    /\ conn[c] = "handshake"
    /\ conn' = [conn EXCEPT ![c] = "done"]
    /\ UNCHANGED <<mainVars, signalVars, left, active_connections, promised>>

HandshakeErr(c) ==
    /\ conn[c] = "handshake"
    /\ conn' = [conn EXCEPT ![c] = "done"]
    /\ DropGuard
    /\ UNCHANGED <<mainVars, signalVars, left, promised>>

\* serve_connection takes a request, before or after the listener stopped.
BeginRequest(c, n) ==
    /\ conn[c] = "idle"
    /\ conn' = [conn EXCEPT ![c] = "busy"]
    /\ left' = [left EXCEPT ![c] = n]
    /\ promised' = IF main = "sleep" /\ n < drain THEN promised \cup {c} ELSE promised \ {c}
    /\ UNCHANGED <<mainVars, signalVars, active_connections>>

EndRequest(c) ==
    /\ conn[c] = "busy"
    /\ left[c] = 0
    /\ conn' = [conn EXCEPT ![c] = "idle"]
    /\ UNCHANGED <<mainVars, signalVars, left, active_connections, promised>>

\* serve_connection returns: the client closed, or went away during its request.
EndConnection(c) ==
    /\ conn[c] \in {"idle", "busy"}
    /\ conn' = [conn EXCEPT ![c] = "done"]
    /\ left' = [left EXCEPT ![c] = 0]
    /\ DropGuard
    /\ UNCHANGED <<mainVars, signalVars, promised>>

-----------------------------------------------------------------------------
Next ==
    \/ CtrlC \/ CtrlCErr
    \/ Bind \/ BindErr \/ Stop \/ Tick \/ Exit
    \/ \E c \in Conns :
        \/ Connect(c) \/ Accept(c) \/ StartTask(c)
        \/ HandshakeOk(c) \/ HandshakeErr(c)
        \/ EndRequest(c) \/ EndConnection(c)
        \/ \E n \in Needs : BeginRequest(c, n)

Spec == Init /\ [][Next]_vars

(***************************************************************************)
(* select! polls its two branches in random order, so neither is passed    *)
(* over for ever; requests end when their time has come and timers fire.   *)
(* Nothing is assumed of clients: a handshake may never end.               *)
(***************************************************************************)
RunFairness ==
    /\ WF_vars(Stop) /\ WF_vars(Tick) /\ WF_vars(Exit)
    /\ \A c \in Conns : WF_vars(Accept(c)) /\ WF_vars(EndRequest(c))

Fairness == WF_vars(Bind \/ BindErr) /\ RunFairness

FairSpec == Spec /\ Fairness

-----------------------------------------------------------------------------
\* Types of the variables; the gauge, an AtomicUsize, never wraps below zero.
TypeOK ==
    /\ tls \in BOOLEAN
    /\ main \in {"bind", "accept", "sleep", "exited"}
    /\ drain \in 0..Grace
    /\ handler \in {"waiting", "signalled", "failed"}
    /\ channel \in {"open", "message", "closed"}
    /\ conn \in [Conns -> {"new", "queued", "spawned", "handshake", "idle", "busy",
                           "done", "refused", "cut"}]
    /\ left \in [Conns -> Nat]
    /\ active_connections \in Nat
    /\ promised \subseteq Conns

\* However connections end (failed handshake, client gone, runtime dropped), the
\* active_connections that get_stats reports counts the tasks that hold a guard.
GaugeExact == active_connections = Cardinality(Guarded)

\* A request that needs less time than is left of the grace period, when the
\* listener stops or when the request begins later, is not cut by the exit.
ShortRequestsFinish == \A c \in promised : conn[c] # "cut"

\* Whenever the Ctrl+C task ends, even before the listener is bound, the process
\* exits, whatever its clients do.
SignalEnds == handler # "waiting" ~> main = "exited"

\* No client in the backlog waits for another client's handshake or request.
QueueMoves == \A c \in Conns : conn[c] = "queued" ~> conn[c] # "queued"

(***************************************************************************)
(* The inductive strengthening.                                            *)
(***************************************************************************)
\* A promised request under way needs less time than the process has left.
PromiseKept ==
    \A c \in promised :
        conn[c] = "busy" => main = "sleep" /\ left[c] < drain

ServerInv == GaugeExact /\ PromiseKept /\ ShortRequestsFinish

=============================================================================
