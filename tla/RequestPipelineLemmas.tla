------------------------ MODULE RequestPipelineLemmas -----------------------
(***************************************************************************)
(* What the theorems about RequestPipeline rest on: the types of the       *)
(* variables, the locals of a call, the state of a connection, and who     *)
(* owns its sender.                                                        *)
(***************************************************************************)
EXTENDS RequestPipeline, TLAPS

(***************************************************************************)
(* Types.                                                                  *)
(***************************************************************************)
\* A call past the selection has a backend and hence a pool.
LEMMA HasBackend ==
  ASSUME TypeOK, CallShape, NEW r \in Requests, pc[r] \notin {"idle", "limit", "select"}
  PROVE  /\ be[r] \in Backends
         /\ AddrOf[be[r]] \in Addrs
         /\ pool[AddrOf[be[r]]] \in Seq(Conns)
<1>1. be[r] \in Backends
  BY SMTT(30) DEF TypeOK, CallShape
<1>2. AddrOf[be[r]] \in Addrs
  BY Zenon, <1>1, PipelineAssumption
<1>. QED
  BY Zenon, <1>1, <1>2 DEF TypeOK

\* So has a call between the pool and its end a sender.
LEMMA HasSender ==
  ASSUME TypeOK, CallShape, NEW r \in Requests,
         pc[r] \in {"pop_ready", "prepare", "send", "head", "push"}
  PROVE  held[r] \in Conns /\ held[r] # None
BY Zenon DEF TypeOK, CallShape

\* Connections that are dropped keep their types.
LEMMA DropTypes ==
  ASSUME TypeOK, NEW cs, Drop(cs)
  PROVE  /\ conn' \in [Conns -> ConnStates]
         /\ peer' \in [Conns -> Addrs \cup {None}]
         /\ exchanges' \in [Conns -> SUBSET Requests]
<1>0. /\ conn \in [Conns -> ConnStates]
      /\ peer \in [Conns -> Addrs \cup {None}]
      /\ exchanges \in [Conns -> SUBSET Requests]
      /\ "none" \in ConnStates /\ "draining" \in ConnStates
  BY Zenon DEF TypeOK, ConnStates
<1>. QED
  BY Zenon, <1>0 DEF Drop

\* Breaker records keep theirs.
LEMMA RecordTypes ==
  ASSUME TypeOK, NEW r \in Requests, NEW b \in Backends,
         RecordSuccess(r, b) \/ RecordFailure(r, b)
  PROVE  /\ failures' \in [Backends -> 0..FAILURE_THRESHOLD]
         /\ cooled' \in [Backends -> BOOLEAN]
         /\ effects' \in [Requests -> Seq({"success", "failure", "ban"})]
<1>1. CASE RecordSuccess(r, b)
  BY SMTT(30), <1>1, PipelineAssumption DEF RecordSuccess, TypeOK
<1>2. CASE RecordFailure(r, b)
  <2> DEFINE n == IF failures[b] < FAILURE_THRESHOLD THEN failures[b] + 1 ELSE failures[b]
  <2>1. n \in 0..FAILURE_THRESHOLD
    BY SMTT(30), PipelineAssumption DEF TypeOK
  <2>2. /\ failures' = [failures EXCEPT ![b] = n]
        /\ cooled' = [cooled EXCEPT ![b] = n < FAILURE_THRESHOLD]
        /\ effects' = [effects EXCEPT ![r] = Append(@, "failure")]
    BY Zenon, <1>2 DEF RecordFailure
  <2>3. (n < FAILURE_THRESHOLD) \in BOOLEAN
    OBVIOUS
  <2>. HIDE DEF n
  <2>. QED
    BY SMTT(30), <2>1, <2>2, <2>3 DEF TypeOK
<1>. QED
  BY Zenon, <1>1, <1>2

\* A call that returns leaves its locals in their types.
LEMMA ReturnTypes ==
  ASSUME TypeOK, NEW r \in Requests, NEW answer \in Replies, Return(r, answer)
  PROVE  /\ pc' \in [Requests -> Locations]
         /\ seen' \in [Requests -> SUBSET Backends]
         /\ held' \in [Requests -> Conns \cup {None}]
         /\ reply' \in [Requests -> Replies]
BY Zenon DEF TypeOK, Return, Locations

\* Every step of a call keeps the types.
LEMMA CallTypes ==
  ASSUME TypeOK, CallShape, NEW r \in Requests,
         Arrive(r) \/ CallStep(r) \/ Cancel(r),
         active' \in [Backends -> Nat], be' \in [Requests -> Backends \cup {None}]
  PROVE  TypeOK'
<1>1. CASE Arrive(r) \/ RateAllowed(r) \/ SkipBackend(r) \/ PopMiss(r) \/ PopReady(r)
           \/ ConnectOk(r) \/ PrepareOk(r) \/ SelectBackend(r)
  <2>1. pc' \in [Requests -> Locations]
    <3>1. pc \in [Requests -> Locations]
      BY Zenon DEF TypeOK
    <3>2. \/ UNCHANGED pc
          \/ \E l \in {"limit", "select", "connect", "prepare", "handshake", "send", "pop"} :
                pc' = [pc EXCEPT ![r] = l]
      BY Zenon, <1>1 DEF Arrive, RateAllowed, SkipBackend, PopMiss, PopReady, ConnectOk,
         PrepareOk, SelectBackend, Goto
    <3>3. {"limit", "select", "connect", "prepare", "handshake", "send", "pop"} \subseteq Locations
      BY DEF Locations, Awaits
    <3>. QED
      BY Zenon, <3>1, <3>2, <3>3
  <2>2. /\ seen' \in [Requests -> SUBSET Backends]
        /\ effects' \in [Requests -> Seq({"success", "failure", "ban"})]
        /\ reply' \in [Requests -> Replies]
    <3>1. /\ seen \in [Requests -> SUBSET Backends] /\ table \in SUBSET Backends
          /\ effects \in [Requests -> Seq({"success", "failure", "ban"})]
          /\ reply \in [Requests -> Replies]
      BY Zenon DEF TypeOK
    <3>2. /\ \/ UNCHANGED seen
             \/ \E S \in SUBSET Backends : seen' = [seen EXCEPT ![r] = S]
          /\ UNCHANGED effects \/ effects' = [effects EXCEPT ![r] = <<>>]
          /\ UNCHANGED reply \/ reply' = [reply EXCEPT ![r] = "none"]
      <4>1. CASE Arrive(r) \/ PopMiss(r) \/ PopReady(r) \/ ConnectOk(r) \/ PrepareOk(r)
        BY Zenon, <4>1 DEF Arrive, PopMiss, PopReady, ConnectOk, PrepareOk
      <4>2. CASE RateAllowed(r)
        BY Zenon, <3>1, <4>2 DEF RateAllowed
      <4>3. CASE SkipBackend(r)
        <5>1. PICK b : seen' = [seen EXCEPT ![r] = seen[r] \ {b}]
          BY Zenon, <3>1, <4>3 DEF SkipBackend
        <5>2. seen[r] \ {b} \in SUBSET Backends
          BY Zenon, <3>1
        <5>. QED
          BY Zenon, <4>3, <5>1, <5>2 DEF SkipBackend
      <4>4. CASE SelectBackend(r)
        BY Zenon, <4>4 DEF SelectBackend
      <4>. QED
        BY Zenon, <1>1, <4>1, <4>2, <4>3, <4>4
    <3>3. "none" \in Replies /\ <<>> \in Seq({"success", "failure", "ban"})
      BY SMTT(30) DEF Replies
    <3>4. seen' \in [Requests -> SUBSET Backends]
      BY Zenon, <3>1, <3>2
    <3>5. effects' \in [Requests -> Seq({"success", "failure", "ban"})]
      BY Zenon, <3>1, <3>2, <3>3
    <3>. QED
      BY Zenon, <3>1, <3>2, <3>3, <3>4, <3>5
  <2>3. UNCHANGED <<table, fresh, healthy, failures, cooled, connVars, held, worldVars, probeVars>>
    BY Zenon, <1>1 DEF Arrive, RateAllowed, SkipBackend, PopMiss, PopReady, ConnectOk,
       PrepareOk, SelectBackend, backendVars
  <2>. QED
    BY Zenon, <2>1, <2>2, <2>3 DEF TypeOK, connVars, worldVars, probeVars
<1>2. CASE RateDenied(r) \/ SelectNone(r)
  <2>1. \E answer \in Replies : Return(r, answer)
    BY Zenon, <1>2 DEF RateDenied, SelectNone, Replies
  <2>2. effects' \in [Requests -> Seq({"success", "failure", "ban"})]
    <3>1. effects \in [Requests -> Seq({"success", "failure", "ban"})]
      BY Zenon DEF TypeOK
    <3>2. UNCHANGED effects \/ effects' = [effects EXCEPT ![r] = Append(effects[r], "ban")]
      BY Zenon, <1>2, <3>1 DEF RateDenied, SelectNone
    <3>3. Append(effects[r], "ban") \in Seq({"success", "failure", "ban"})
      BY SMTT(30), <3>1
    <3>. QED
      BY Zenon, <3>1, <3>2, <3>3
  <2>3. UNCHANGED <<table, fresh, healthy, failures, cooled, connVars, worldVars, probeVars>>
    BY Zenon, <1>2 DEF RateDenied, SelectNone
  <2>. QED
    BY Zenon, <2>1, <2>2, <2>3, ReturnTypes DEF TypeOK, connVars, worldVars, probeVars
<1>3. CASE ConnectErr(r) \/ HandshakeErr(r)
  <2>1. be[r] \in Backends
    BY Zenon, <1>3, HasBackend DEF ConnectErr, HandshakeErr
  <2>2. RecordFailure(r, be[r]) /\ \E answer \in Replies : Return(r, answer)
    BY Zenon, <1>3 DEF ConnectErr, HandshakeErr, Replies
  <2>3. UNCHANGED <<table, fresh, healthy, connVars, worldVars, probeVars>>
    BY Zenon, <1>3 DEF ConnectErr, HandshakeErr
  <2>. QED
    BY Zenon, <2>1, <2>2, <2>3, ReturnTypes, RecordTypes
    DEF TypeOK, connVars, worldVars, probeVars
<1>4. CASE HeadErr(r)
  <2>1. be[r] \in Backends
    BY Zenon, <1>4, HasBackend DEF HeadErr
  <2>2. RecordFailure(r, be[r]) /\ Drop(Holds(r)) /\ \E answer \in Replies : Return(r, answer)
    BY Zenon, <1>4 DEF HeadErr, Replies
  <2>3. UNCHANGED <<table, fresh, healthy, pool, worldVars, probeVars>>
    BY Zenon, <1>4 DEF HeadErr
  <2>. QED
    BY Zenon, <2>1, <2>2, <2>3, ReturnTypes, RecordTypes, DropTypes
    DEF TypeOK, worldVars, probeVars
<1>5. CASE PrepareErr(r) \/ Cancel(r)
  <2>1. Drop(Holds(r)) /\ \E answer \in Replies : Return(r, answer)
    BY Zenon, <1>5 DEF PrepareErr, Cancel, Replies
  <2>2. UNCHANGED <<table, fresh, healthy, failures, cooled, pool, effects, worldVars, probeVars>>
    BY Zenon, <1>5 DEF PrepareErr, Cancel
  <2>. QED
    BY Zenon, <2>1, <2>2, ReturnTypes, DropTypes DEF TypeOK, worldVars, probeVars
<1>6. CASE PopDead(r) \/ PopHit(r)
  <2>1. AddrOf[be[r]] \in Addrs /\ pool[AddrOf[be[r]]] \in Seq(Conns)
    BY Zenon, <1>6, HasBackend DEF PopDead, PopHit
  <2>2. PICK a \in Addrs : a = AddrOf[be[r]]
    BY Zenon, <2>1
  <2>3. /\ pool[a] \in Seq(Conns) /\ pool[a] # <<>>
        /\ pool' = [pool EXCEPT ![a] = Tail(@)]
    BY Zenon, <1>6, <2>1, <2>2 DEF PopDead, PopHit, Queue, PoolKey
  <2>4. Head(pool[a]) \in Conns /\ Tail(pool[a]) \in Seq(Conns)
    BY SMTT(30), <2>3
  <2>5. pool' \in [Addrs -> Seq(Conns)]
    BY Zenon, <2>3, <2>4 DEF TypeOK
  <2>6. CASE PopDead(r)
    <3>1. \E cs : Drop(cs)
      BY Zenon, <2>6 DEF PopDead
    <3>2. UNCHANGED <<table, fresh, backendVars, callVars, worldVars, probeVars>>
      BY Zenon, <2>6 DEF PopDead
    <3>. QED
      BY Zenon, <2>5, <3>1, <3>2, DropTypes DEF TypeOK, backendVars, callVars, worldVars, probeVars
  <2>7. CASE PopHit(r)
    <3>1. held' \in [Requests -> Conns \cup {None}]
      BY Zenon, <2>2, <2>4, <2>7 DEF PopHit, TypeOK, Queue, PoolKey
    <3>2. pc' \in [Requests -> Locations]
      BY Zenon, <2>7 DEF PopHit, TypeOK, Goto, Locations, Awaits
    <3>3. UNCHANGED <<table, fresh, backendVars, conn, peer, exchanges, seen, be, effects,
                      reply, worldVars, probeVars>>
      BY Zenon, <2>7 DEF PopHit
    <3>. QED
      BY Zenon, <2>5, <3>1, <3>2, <3>3 DEF TypeOK, backendVars, worldVars, probeVars
  <2>. QED
    BY Zenon, <1>6, <2>6, <2>7
<1>7. CASE PopClosed(r)
  <2>1. Drop(Holds(r))
    BY Zenon, <1>7 DEF PopClosed
  <2>2. held' \in [Requests -> Conns \cup {None}] /\ pc' \in [Requests -> Locations]
    BY Zenon, <1>7 DEF PopClosed, TypeOK, Goto, Locations, Awaits
  <2>3. UNCHANGED <<table, fresh, backendVars, pool, seen, be, effects, reply,
                    worldVars, probeVars>>
    BY Zenon, <1>7 DEF PopClosed
  <2>. QED
    BY Zenon, <2>1, <2>2, <2>3, DropTypes DEF TypeOK, backendVars, worldVars, probeVars
<1>8. CASE HandshakeOk(r)
  <2>1. AddrOf[be[r]] \in Addrs
    BY Zenon, <1>8, HasBackend DEF HandshakeOk
  <2>2. /\ conn' \in [Conns -> ConnStates]
        /\ peer' \in [Conns -> Addrs \cup {None}]
        /\ held' \in [Requests -> Conns \cup {None}]
    <3>1. /\ conn \in [Conns -> ConnStates]
          /\ peer \in [Conns -> Addrs \cup {None}]
          /\ held \in [Requests -> Conns \cup {None}]
          /\ "idle" \in ConnStates
      BY Zenon DEF TypeOK, ConnStates
    <3>2. PICK c \in Conns : /\ conn' = [conn EXCEPT ![c] = "idle"]
                             /\ peer' = [peer EXCEPT ![c] = AddrOf[be[r]]]
                             /\ held' = [held EXCEPT ![r] = c]
      BY Zenon, <1>8 DEF HandshakeOk
    <3>3. conn' \in [Conns -> ConnStates]
      BY Zenon, <3>1, <3>2
    <3>4. peer' \in [Conns -> Addrs \cup {None}]
      BY Zenon, <2>1, <3>1, <3>2
    <3>. QED
      BY Zenon, <3>1, <3>2, <3>3, <3>4
  <2>3. pc' \in [Requests -> Locations]
    BY Zenon, <1>8 DEF HandshakeOk, TypeOK, Goto, Locations, Awaits
  <2>4. UNCHANGED <<table, fresh, backendVars, pool, exchanges, seen, be, effects, reply,
                    worldVars, probeVars>>
    BY Zenon, <1>8 DEF HandshakeOk
  <2>. QED
    BY Zenon, <2>2, <2>3, <2>4 DEF TypeOK, backendVars, worldVars, probeVars
<1>9. CASE Send(r)
  <2>1. held[r] \in Conns
    BY Zenon, <1>9, HasSender DEF Send
  <2>2. /\ conn' \in [Conns -> ConnStates]
        /\ exchanges' \in [Conns -> SUBSET Requests]
    <3>1. PICK c \in Conns : c = held[r]
      BY Zenon, <2>1
    <3>2. /\ conn \in [Conns -> ConnStates]
          /\ exchanges \in [Conns -> SUBSET Requests]
      BY Zenon DEF TypeOK
    <3>3. \/ UNCHANGED <<conn, exchanges>>
          \/ /\ conn' = [conn EXCEPT ![c] = "busy"]
             /\ exchanges' = [exchanges EXCEPT ![c] = exchanges[c] \cup {r}]
      BY Zenon, <1>9, <3>1, <3>2 DEF Send
    <3>4. "busy" \in ConnStates /\ exchanges[c] \cup {r} \in SUBSET Requests
      BY Zenon, <3>2 DEF ConnStates
    <3>. QED
      BY Zenon, <3>2, <3>3, <3>4
  <2>3. pc' \in [Requests -> Locations]
    BY Zenon, <1>9 DEF Send, TypeOK, Goto, Locations, Awaits
  <2>4. UNCHANGED <<table, fresh, backendVars, pool, peer, seen, be, held, effects, reply,
                    worldVars, probeVars>>
    BY Zenon, <1>9 DEF Send
  <2>. QED
    BY Zenon, <2>2, <2>3, <2>4 DEF TypeOK, backendVars, worldVars, probeVars
<1>10. CASE HeadOk(r)
  <2>1. be[r] \in Backends
    BY Zenon, <1>10, HasBackend DEF HeadOk
  <2>2. RecordSuccess(r, be[r])
    BY Zenon, <1>10 DEF HeadOk
  <2>3. pc' \in [Requests -> Locations]
    BY Zenon, <1>10 DEF HeadOk, TypeOK, Goto, Locations
  <2>4. UNCHANGED <<table, fresh, healthy, active, connVars, seen, be, held, reply,
                    worldVars, probeVars>>
    BY Zenon, <1>10 DEF HeadOk
  <2>. QED
    BY Zenon, <2>1, <2>2, <2>3, <2>4, RecordTypes DEF TypeOK, connVars, worldVars, probeVars
<1>11. CASE Push(r)
  <2>1. held[r] \in Conns
    BY Zenon, <1>11, HasSender DEF Push
  <2>2. AddrOf[be[r]] \in Addrs /\ pool[AddrOf[be[r]]] \in Seq(Conns)
    BY Zenon, <1>11, HasBackend DEF Push
  <2>3. PICK a \in Addrs : a = AddrOf[be[r]]
    BY Zenon, <2>2
  <2>4. /\ pool' \in [Addrs -> Seq(Conns)]
        /\ conn' \in [Conns -> ConnStates]
        /\ peer' \in [Conns -> Addrs \cup {None}]
        /\ exchanges' \in [Conns -> SUBSET Requests]
    <3>1. CASE conn[held[r]] = "closed"
      <4>1. Drop(Holds(r)) /\ UNCHANGED pool
        BY Zenon, <1>11, <3>1 DEF Push, PoolPush
      <4>. QED
        BY Zenon, <4>1, DropTypes DEF TypeOK
    <3>2. CASE conn[held[r]] # "closed"
      <4>1. /\ pool' = [pool EXCEPT ![a] = Append(@, held[r])]
            /\ UNCHANGED <<conn, peer, exchanges>>
        BY Zenon, <1>11, <2>3, <3>2 DEF Push, PoolPush, PoolKey
      <4>2. Append(pool[a], held[r]) \in Seq(Conns)
        BY SMTT(30), <2>1, <2>2, <2>3
      <4>. QED
        BY Zenon, <4>1, <4>2 DEF TypeOK
    <3>. QED
      BY Zenon, <3>1, <3>2
  <2>5. \E answer \in Replies : Return(r, answer)
    BY Zenon, <1>11 DEF Push, Replies
  <2>6. UNCHANGED <<table, fresh, healthy, failures, cooled, effects, worldVars, probeVars>>
    BY Zenon, <1>11 DEF Push
  <2>. QED
    BY Zenon, <2>4, <2>5, <2>6, ReturnTypes DEF TypeOK, worldVars, probeVars
<1>. QED
  BY Zenon, <1>1, <1>2, <1>3, <1>4, <1>5, <1>6, <1>7, <1>8, <1>9, <1>10, <1>11 DEF CallStep

\* The steps of connections, of the environment, of the control plane and of
\* the prober touch no call, and no pool.
LEMMA OutsideSteps ==
  ASSUME [Next]_vars
  PROVE  \/ \E r \in Requests : Arrive(r) \/ CallStep(r) \/ Cancel(r)
         \/ UNCHANGED <<callVars, active, pool>>
            /\ \/ UNCHANGED <<conn, peer, exchanges>>
               \/ \E c \in Conns, state \in {"idle", "closed"} :
                     conn[c] \in {"idle", "busy", "draining"} /\ Settle(c, state)
<1>1. CASE UNCHANGED vars
  BY Zenon, <1>1 DEF vars, connVars, backendVars
<1>2. CASE \E c \in Conns : BodyDone(c) \/ ConnCloses(c)
  BY Zenon, <1>2 DEF BodyDone, ConnCloses, backendVars
<1>3. CASE \/ \E a \in Addrs : UpstreamFlips(a)
           \/ \E b \in Backends : CoolDown(b)
           \/ \E b \in fresh : ReloadConfig(b)
           \/ \E bs \in SUBSET fresh : ApplyRoute(bs)
           \/ ProberStep
  BY Zenon, <1>3 DEF UpstreamFlips, CoolDown, ReloadConfig, ApplyRoute, UpdateBackends, ProberStep,
     ProbeTick, ProbeApply, ProbeConnect, connVars, backendVars
<1>. QED
  BY Zenon, <1>1, <1>2, <1>3 DEF Next

\* Every step keeps the types.
LEMMA TypeStep ==
  ASSUME TypeOK, CallShape, [Next]_vars,
         active' \in [Backends -> Nat], be' \in [Requests -> Backends \cup {None}]
  PROVE  TypeOK'
<1>1. ASSUME NEW r \in Requests, Arrive(r) \/ CallStep(r) \/ Cancel(r)
      PROVE  TypeOK'
  BY Zenon, <1>1, CallTypes
<1>2. ASSUME NEW c \in Conns, BodyDone(c) \/ ConnCloses(c)
      PROVE  TypeOK'
  <2>1. PICK state \in {"idle", "closed"} : Settle(c, state)
    BY Zenon, <1>2 DEF BodyDone, ConnCloses
  <2>2. /\ conn' \in [Conns -> ConnStates]
        /\ peer' \in [Conns -> Addrs \cup {None}]
        /\ exchanges' \in [Conns -> SUBSET Requests]
    <3>1. /\ conn \in [Conns -> ConnStates]
          /\ peer \in [Conns -> Addrs \cup {None}]
          /\ exchanges \in [Conns -> SUBSET Requests]
          /\ state \in ConnStates /\ "none" \in ConnStates
      BY Zenon, <2>1 DEF TypeOK, ConnStates
    <3>. QED
      BY Zenon, <2>1, <3>1 DEF Settle
  <2>3. UNCHANGED <<table, fresh, backendVars, pool, callVars, worldVars, probeVars>>
    BY Zenon, <1>2 DEF BodyDone, ConnCloses
  <2>. QED
    BY Zenon, <2>2, <2>3 DEF TypeOK, backendVars, callVars, worldVars, probeVars
<1>3. ASSUME NEW a \in Addrs, UpstreamFlips(a)
      PROVE  TypeOK'
  BY SMTT(30), <1>3 DEF UpstreamFlips, TypeOK, backendVars, callVars, connVars, probeVars
<1>4. ASSUME NEW b \in Backends, CoolDown(b)
      PROVE  TypeOK'
  BY Zenon, <1>4 DEF CoolDown, TypeOK, callVars, connVars, worldVars, probeVars
<1>5. ASSUME NEW bs \in SUBSET fresh, UpdateBackends(bs)
      PROVE  TypeOK'
  BY Zenon, <1>5 DEF UpdateBackends, TypeOK, backendVars, callVars, connVars, worldVars, probeVars
<1>6. CASE ProberStep
  <2>1. CASE ProbeTick
    BY Zenon, <2>1 DEF ProbeTick, TypeOK, backendVars, callVars, connVars, worldVars
  <2>2. ASSUME NEW b \in Backends, ProbeConnect(b)
        PROVE  TypeOK'
    <3>0. probe' = <<b, AddrOf[b] \in up>> /\ probing' \subseteq Backends
      BY Zenon, <2>2 DEF ProbeConnect, TypeOK
    <3>1. probe' \in Backends \X BOOLEAN
      <4>1. (AddrOf[b] \in up) \in BOOLEAN
        OBVIOUS
      <4>2. \A u : u \in BOOLEAN => <<b, u>> \in Backends \X BOOLEAN
        OBVIOUS
      <4>3. <<b, AddrOf[b] \in up>> \in Backends \X BOOLEAN
        BY Zenon, <4>1, <4>2
      <4>. QED
        BY Zenon, <3>0, <4>3
    <3>. QED
      BY Zenon, <2>2, <3>0, <3>1 DEF ProbeConnect, TypeOK, backendVars, callVars, connVars, worldVars
  <2>3. CASE ProbeApply
    <3>1. probe \in Backends \X BOOLEAN
      BY Zenon, <2>3 DEF ProbeApply, TypeOK
    <3>2. healthy' \in [Backends -> BOOLEAN]
      BY Zenon, <2>3, <3>1 DEF ProbeApply, TypeOK
    <3>. QED
      BY Zenon, <2>3, <3>2 DEF ProbeApply, TypeOK, callVars, connVars, worldVars
  <2>. QED
    BY Zenon, <1>6, <2>1, <2>2, <2>3 DEF ProberStep
<1>7. CASE UNCHANGED vars
  BY Zenon, <1>7 DEF vars, TypeOK, backendVars, callVars, connVars, worldVars, probeVars
<1>8. ASSUME NEW b \in fresh, ReloadConfig(b)
      PROVE  TypeOK'
  BY Zenon, <1>5, <1>8 DEF ReloadConfig
<1>9. ASSUME NEW bs \in SUBSET fresh, ApplyRoute(bs)
      PROVE  TypeOK'
  BY Zenon, <1>5, <1>9 DEF ApplyRoute
<1>. QED
  BY Zenon, <1>1, <1>2, <1>3, <1>4, <1>6, <1>7, <1>8, <1>9 DEF Next

-----------------------------------------------------------------------------
(***************************************************************************)
(* The locals of a call and what it records.                               *)
(***************************************************************************)
\* A call's steps touch no other call's locals.
LEMMA OthersKeep ==
  ASSUME TypeOK, NEW r \in Requests, Arrive(r) \/ CallStep(r) \/ Cancel(r),
         NEW q \in Requests, q # r
  PROVE  /\ pc'[q] = pc[q] /\ be'[q] = be[q] /\ held'[q] = held[q]
         /\ effects'[q] = effects[q] /\ reply'[q] = reply[q]
<1>0. /\ pc \in [Requests -> Locations]
      /\ be \in [Requests -> Backends \cup {None}]
      /\ held \in [Requests -> Conns \cup {None}]
      /\ effects \in [Requests -> Seq({"success", "failure", "ban"})]
      /\ reply \in [Requests -> Replies]
  BY Zenon DEF TypeOK
<1>1. CASE \/ Arrive(r) \/ RateAllowed(r) \/ RateDenied(r) \/ SkipBackend(r)
           \/ SelectBackend(r) \/ SelectNone(r)
  BY Zenon, <1>0, <1>1 DEF Arrive, RateAllowed, RateDenied, SkipBackend, SelectBackend, SelectNone,
     Goto, Return
<1>2. CASE PopDead(r) \/ PopHit(r) \/ PopMiss(r) \/ PopReady(r) \/ PopClosed(r) \/ ConnectOk(r)
  BY Zenon, <1>0, <1>2 DEF PopDead, PopHit, PopMiss, PopReady, PopClosed, ConnectOk, Goto, callVars
<1>3. CASE ConnectErr(r) \/ HandshakeOk(r) \/ HandshakeErr(r) \/ PrepareOk(r) \/ PrepareErr(r)
  BY Zenon, <1>0, <1>3 DEF ConnectErr, HandshakeOk, HandshakeErr, PrepareOk, PrepareErr, Goto, Return,
     RecordFailure
<1>4. CASE Send(r) \/ HeadOk(r) \/ HeadErr(r) \/ Push(r) \/ Cancel(r)
  BY Zenon, <1>0, <1>4 DEF Send, HeadOk, HeadErr, Push, Cancel, Goto, Return, RecordFailure,
     RecordSuccess
<1>. QED
  BY Zenon, <1>1, <1>2, <1>3, <1>4 DEF CallStep

\* A call that returns has the shape of an idle one.
LEMMA ReturnShape ==
  ASSUME TypeOK, NEW r \in Requests, NEW answer, Return(r, answer)
  PROVE  pc'[r] = "idle" /\ be'[r] = None /\ held'[r] = None /\ reply'[r] = answer
BY Zenon DEF TypeOK, Return

\* The shape of the call that moves.
LEMMA OwnShape ==
  ASSUME TypeOK, CallShape, EffectsMatchReply,
         NEW r \in Requests, Arrive(r) \/ CallStep(r) \/ Cancel(r)
  PROVE  /\ be'[r] # None <=> pc'[r] \notin {"idle", "limit", "select"}
         /\ held'[r] # None <=> pc'[r] \in {"pop_ready", "prepare", "send", "head", "push"}
         /\ pc'[r] # "idle" => effects'[r] = IF pc'[r] = "push" THEN <<"success">> ELSE <<>>
         /\ pc'[r] = "idle" => effects'[r] = EffectsOf(reply'[r])
<1>0. /\ pc \in [Requests -> Locations]
      /\ be \in [Requests -> Backends \cup {None}]
      /\ held \in [Requests -> Conns \cup {None}]
      /\ effects \in [Requests -> Seq({"success", "failure", "ban"})]
      /\ reply \in [Requests -> Replies]
  BY Zenon DEF TypeOK
<1>s. /\ be[r] # None <=> pc[r] \notin {"idle", "limit", "select"}
      /\ held[r] # None <=> pc[r] \in {"pop_ready", "prepare", "send", "head", "push"}
      /\ pc[r] # "idle" => effects[r] = IF pc[r] = "push" THEN <<"success">> ELSE <<>>
  BY Zenon DEF CallShape
<1>1. CASE Arrive(r) \/ RateAllowed(r)
  BY Zenon, <1>0, <1>s, <1>1 DEF Arrive, RateAllowed, Goto
<1>2. CASE \/ PopMiss(r) \/ PopReady(r) \/ ConnectOk(r) \/ PrepareOk(r) \/ Send(r)
           \/ SkipBackend(r) \/ PopDead(r)
  <2>1. UNCHANGED <<be, held, effects>>
    BY Zenon, <1>2 DEF PopMiss, PopReady, ConnectOk, PrepareOk, Send, SkipBackend, PopDead, callVars
  <2>2. \/ pc[r] = "pop" /\ pc'[r] = "connect"
        \/ pc[r] = "pop_ready" /\ pc'[r] = "prepare"
        \/ pc[r] = "connect" /\ pc'[r] = "handshake"
        \/ pc[r] = "prepare" /\ pc'[r] = "send"
        \/ pc[r] = "send" /\ pc'[r] = "head"
        \/ pc[r] \in {"pop", "select"} /\ pc'[r] = pc[r]
    BY Zenon, <1>0, <1>2 DEF PopMiss, PopReady, ConnectOk, PrepareOk, Send, SkipBackend, PopDead,
       callVars, Goto
  <2>. QED
    BY Zenon, <1>s, <2>1, <2>2
<1>3. CASE SelectBackend(r)
  <2>1. be'[r] \in Backends
    BY SMTT(30), <1>3 DEF SelectBackend, TypeOK
  <2>. QED
    BY Zenon, <1>0, <1>s, <1>3, <2>1, PipelineAssumption DEF SelectBackend, Goto
<1>4. CASE PopHit(r)
  <2>1. pc[r] = "pop" /\ Queue(r) # <<>> /\ held'[r] = Head(Queue(r)) /\ pc'[r] = "pop_ready"
        /\ UNCHANGED <<be, effects>>
    BY Zenon, <1>0, <1>4 DEF PopHit, Goto
  <2>2. Queue(r) \in Seq(Conns)
    BY Zenon, <2>1, HasBackend DEF Queue, PoolKey
  <2>3. held'[r] \in Conns
    BY SMTT(30), <2>1, <2>2
  <2>. QED
    BY Zenon, <1>s, <2>1, <2>3, PipelineAssumption
<1>5. CASE HandshakeOk(r)
  <2>1. pc[r] = "handshake" /\ held'[r] \in Conns /\ pc'[r] = "prepare"
        /\ UNCHANGED <<be, effects>>
    BY Zenon, <1>0, <1>5 DEF HandshakeOk, Goto
  <2>. QED
    BY Zenon, <1>s, <2>1, PipelineAssumption
<1>6. CASE PopClosed(r)
  BY Zenon, <1>0, <1>s, <1>6 DEF PopClosed, Goto
<1>7. CASE HeadOk(r)
  <2>1. pc[r] = "head" /\ pc'[r] = "push" /\ UNCHANGED <<be, held>>
    BY Zenon, <1>0, <1>7 DEF HeadOk, Goto
  <2>2. effects[r] = <<>> /\ effects'[r] = Append(effects[r], "success")
    BY Zenon, <1>0, <1>s, <1>7, <2>1 DEF HeadOk, RecordSuccess
  <2>. QED
    BY SMTT(30), <1>s, <2>1, <2>2
<1>8. CASE RateDenied(r)
  <2>1. effects[r] = <<>> /\ effects'[r] = Append(effects[r], "ban") /\ Return(r, "429")
    BY Zenon, <1>0, <1>s, <1>8 DEF RateDenied
  <2>. QED
    BY SMTT(30), <2>1, ReturnShape DEF EffectsOf
<1>9. CASE ConnectErr(r) \/ HandshakeErr(r) \/ HeadErr(r)
  <2>1. effects[r] = <<>> /\ RecordFailure(r, be[r]) /\ Return(r, "503_upstream")
    BY Zenon, <1>s, <1>9 DEF ConnectErr, HandshakeErr, HeadErr
  <2>2. effects'[r] = Append(effects[r], "failure")
    BY Zenon, <1>0, <2>1 DEF RecordFailure
  <2>. QED
    BY SMTT(30), <2>1, <2>2, ReturnShape DEF EffectsOf
<1>10. CASE Push(r)
  <2>1. effects'[r] = <<"success">> /\ Return(r, "200")
    BY Zenon, <1>s, <1>10 DEF Push
  <2>. QED
    BY SMTT(30), <2>1, ReturnShape DEF EffectsOf
<1>11. CASE SelectNone(r) \/ PrepareErr(r) \/ Cancel(r)
  <2>1. PICK answer \in {"503_no_upstream", "error", "cancelled"} : Return(r, answer)
    BY Zenon, <1>11 DEF SelectNone, PrepareErr, Cancel
  <2>2. effects'[r] = <<>>
    BY Zenon, <1>s, <1>11 DEF SelectNone, PrepareErr, Cancel, Awaits
  <2>. QED
    BY Zenon, <2>1, <2>2, ReturnShape DEF EffectsOf
<1>. QED
  BY Zenon, <1>1, <1>2, <1>3, <1>4, <1>5, <1>6, <1>7, <1>8, <1>9, <1>10, <1>11 DEF CallStep

\* Every call keeps its shape, and an ended one its record.
LEMMA ShapeStep ==
  ASSUME TypeOK, CallShape, EffectsMatchReply, [Next]_vars
  PROVE  CallShape' /\ EffectsMatchReply'
<1>1. ASSUME NEW r \in Requests, Arrive(r) \/ CallStep(r) \/ Cancel(r)
      PROVE  CallShape' /\ EffectsMatchReply'
  <2>1. ASSUME NEW q \in Requests, q # r
        PROVE  /\ pc'[q] = pc[q] /\ be'[q] = be[q] /\ held'[q] = held[q]
               /\ effects'[q] = effects[q] /\ reply'[q] = reply[q]
    BY Zenon, <1>1, <2>1, OthersKeep
  <2>2. CallShape'
    BY SMTT(30), <1>1, <2>1, OwnShape DEF CallShape
  <2>3. EffectsMatchReply'
    BY Zenon, <1>1, <2>1, OwnShape DEF EffectsMatchReply
  <2>. QED
    BY Zenon, <2>2, <2>3
<1>2. CASE UNCHANGED callVars
  BY Zenon, <1>2 DEF callVars, CallShape, EffectsMatchReply
<1>. QED
  BY Zenon, <1>1, <1>2, OutsideSteps

-----------------------------------------------------------------------------
(***************************************************************************)
(* The state of a connection.                                              *)
(***************************************************************************)
\* A step of a call drops connections, opens one, sends on its own, or leaves
\* them alone; and it only gets to the send after it found its sender ready.
LEMMA ConnCases ==
  ASSUME TypeOK, CallShape, NEW r \in Requests, Arrive(r) \/ CallStep(r) \/ Cancel(r)
  PROVE  \/ Send(r)
         \/ HandshakeOk(r)
         \/ /\ \/ UNCHANGED <<conn, peer, exchanges>>
               \/ \E cs : Drop(cs)
            /\ pc'[r] # "send"
         \/ PrepareOk(r)
<1>0. pc \in [Requests -> Locations]
  BY Zenon DEF TypeOK
<1>1. CASE \/ Arrive(r) \/ RateAllowed(r) \/ RateDenied(r) \/ SkipBackend(r)
           \/ SelectBackend(r) \/ SelectNone(r) \/ PopMiss(r) \/ PopReady(r) \/ PopHit(r)
  BY Zenon, <1>0, <1>1 DEF Arrive, RateAllowed, RateDenied, SkipBackend, SelectBackend, SelectNone,
     PopMiss, PopReady, PopHit, Goto, Return, connVars
<1>2. CASE ConnectOk(r) \/ ConnectErr(r) \/ HandshakeErr(r) \/ HeadOk(r)
  BY Zenon, <1>0, <1>2 DEF ConnectOk, ConnectErr, HandshakeErr, HeadOk, Goto, Return, connVars
<1>3. CASE PopDead(r) \/ PopClosed(r) \/ PrepareErr(r) \/ HeadErr(r) \/ Cancel(r)
  <2>1. \E cs : Drop(cs)
    BY Zenon, <1>3 DEF PopDead, PopClosed, PrepareErr, HeadErr, Cancel
  <2>2. pc'[r] # "send"
    BY Zenon, <1>0, <1>3 DEF PopDead, PopClosed, PrepareErr, HeadErr, Cancel, Goto, Return, callVars
  <2>. QED
    BY Zenon, <2>1, <2>2
<1>4. CASE Push(r)
  <2>1. UNCHANGED <<conn, peer, exchanges>> \/ Drop(Holds(r))
    BY Zenon, <1>4 DEF Push, PoolPush
  <2>2. pc'[r] # "send"
    BY Zenon, <1>0, <1>4 DEF Push, Return
  <2>. QED
    BY Zenon, <2>1, <2>2
<1>. QED
  BY Zenon, <1>1, <1>2, <1>3, <1>4 DEF CallStep

\* Connections keep their shape.
LEMMA ConnStep ==
  ASSUME TypeOK, CallShape, ConnShape, SenderOwned, [Next]_vars
  PROVE  ConnShape'
<1>0. /\ conn \in [Conns -> ConnStates]
      /\ peer \in [Conns -> Addrs \cup {None}]
      /\ exchanges \in [Conns -> SUBSET Requests]
      /\ pc \in [Requests -> Locations]
      /\ held \in [Requests -> Conns \cup {None}]
  BY Zenon DEF TypeOK
<1>s. /\ \A c \in Conns : /\ conn[c] = "none" <=> peer[c] = None
                          /\ exchanges[c] # {} <=> conn[c] \in {"busy", "draining"}
      /\ \A q \in Requests : pc[q] = "send" => conn[held[q]] \notin {"busy", "draining"} /\ held[q] \in Conns
  BY Zenon, HasSender DEF ConnShape
<1>1. ASSUME NEW r \in Requests, Arrive(r) \/ CallStep(r) \/ Cancel(r)
      PROVE  ConnShape'
  <2>0. \A q \in Requests : q # r => pc'[q] = pc[q] /\ held'[q] = held[q]
    BY Zenon, <1>1, OthersKeep
  <2>1. CASE Send(r)
    <3>1. PICK c \in Conns : c = held[r] /\ c # None
      BY Zenon, <2>1, HasSender DEF Send
    <3>2. be[r] \in Backends /\ AddrOf[be[r]] \in Addrs
      BY Zenon, <2>1, HasBackend DEF Send
    <3>3. peer[c] # None
      BY SMTT(30), <3>1, <3>2, PipelineAssumption DEF SenderOwned
    <3>4. \A q \in Requests : q # r => held[q] # c
      BY Zenon, <3>1 DEF SenderOwned
    <3>5. pc'[r] = "head" /\ UNCHANGED <<held, peer>>
      BY Zenon, <1>0, <2>1 DEF Send, Goto
    <3>6. conn[c] # "busy" /\ conn[c] # "none"
      BY Zenon, <1>s, <2>1, <3>1, <3>3 DEF Send
    <3>7. CASE conn[c] = "closed"
      <4>1. UNCHANGED <<conn, exchanges>>
        BY Zenon, <2>1, <3>1, <3>7 DEF Send
      <4>. QED
        BY Zenon, <1>s, <2>0, <3>5, <4>1 DEF ConnShape
    <3>8. CASE conn[c] # "closed"
      <4>1. /\ conn' = [conn EXCEPT ![c] = "busy"]
            /\ exchanges' = [exchanges EXCEPT ![c] = @ \cup {r}]
        BY Zenon, <2>1, <3>1, <3>8 DEF Send
      <4>2. \A d \in Conns : /\ conn'[d] = "none" <=> peer'[d] = None
                             /\ exchanges'[d] # {} <=> conn'[d] \in {"busy", "draining"}
        BY SMTT(30), <1>0, <1>s, <3>3, <3>5, <3>6, <4>1
      <4>3. \A q \in Requests : pc'[q] = "send" => conn'[held'[q]] \notin {"busy", "draining"}
        BY SMTT(30), <1>0, <1>s, <2>0, <3>4, <3>5, <4>1
      <4>. QED
        BY Zenon, <4>2, <4>3 DEF ConnShape
    <3>. QED
      BY Zenon, <3>7, <3>8
  <2>2. CASE HandshakeOk(r)
    <3>1. PICK c \in Conns : /\ conn[c] = "none"
                             /\ conn' = [conn EXCEPT ![c] = "idle"]
                             /\ peer' = [peer EXCEPT ![c] = AddrOf[be[r]]]
      BY Zenon, <2>2 DEF HandshakeOk
    <3>2. AddrOf[be[r]] # None
      BY SMTT(30), <2>2, HasBackend, PipelineAssumption DEF HandshakeOk
    <3>3. pc'[r] = "prepare" /\ UNCHANGED exchanges
      BY Zenon, <1>0, <2>2 DEF HandshakeOk, Goto
    <3>4. \A d \in Conns : /\ conn'[d] = "none" <=> peer'[d] = None
                           /\ exchanges'[d] # {} <=> conn'[d] \in {"busy", "draining"}
      BY Zenon, <1>0, <1>s, <3>1, <3>2, <3>3
    <3>5. \A q \in Requests : pc'[q] = "send" => conn'[held'[q]] \notin {"busy", "draining"}
      BY SMTT(30), <1>0, <1>s, <2>0, <3>1, <3>3
    <3>. QED
      BY Zenon, <3>4, <3>5 DEF ConnShape
  <2>3. ASSUME UNCHANGED <<conn, peer, exchanges>> \/ \E cs : Drop(cs), pc'[r] # "send"
        PROVE  ConnShape'
    <3>1. CASE UNCHANGED <<conn, peer, exchanges>>
      BY Zenon, <1>s, <2>0, <2>3, <3>1 DEF ConnShape
    <3>2. ASSUME NEW cs, Drop(cs)
          PROVE  ConnShape'
      <4>1. ASSUME NEW d \in Conns
            PROVE  \/ /\ conn'[d] = "none" /\ peer'[d] = None /\ exchanges'[d] = {}
                   \/ /\ conn'[d] = "draining" /\ Carries(d)
                      /\ peer'[d] = peer[d] /\ exchanges'[d] = exchanges[d]
                   \/ /\ conn'[d] = conn[d]
                      /\ peer'[d] = peer[d] /\ exchanges'[d] = exchanges[d]
        BY Zenon, <3>2 DEF Drop
      <4>2. \A d \in Conns : Carries(d) => exchanges[d] # {}
        BY Zenon DEF Carries
      <4>3. \A d \in Conns : /\ conn'[d] = "none" <=> peer'[d] = None
                             /\ exchanges'[d] # {} <=> conn'[d] \in {"busy", "draining"}
                             /\ conn[d] \notin {"busy", "draining"}
                                  => conn'[d] \notin {"busy", "draining"}
        BY SMTT(30), <1>s, <4>1, <4>2
      <4>4. \A q \in Requests : pc'[q] = "send" => conn'[held'[q]] \notin {"busy", "draining"}
        BY Zenon, <1>s, <2>0, <2>3, <4>3
      <4>. QED
        BY Zenon, <4>3, <4>4 DEF ConnShape
    <3>. QED
      BY Zenon, <2>3, <3>1, <3>2
  <2>4. CASE PrepareOk(r)
    <3>1. UNCHANGED <<conn, peer, exchanges, held>> /\ conn[held[r]] = "idle"
      BY Zenon, <2>4 DEF PrepareOk, connVars, Ready
    <3>. QED
      BY SMTT(30), <1>s, <2>0, <3>1 DEF ConnShape
  <2>. QED
    BY Zenon, <1>1, <2>1, <2>2, <2>3, <2>4, ConnCases
<1>2. ASSUME UNCHANGED callVars, NEW c \in Conns, NEW state \in {"idle", "closed"},
             conn[c] \in {"idle", "busy", "draining"}, Settle(c, state)
      PROVE  ConnShape'
  <2>1. UNCHANGED <<pc, held>>
    BY Zenon, <1>2 DEF callVars
  <2>2. /\ conn[c] # "none"
        /\ conn'[c] = (IF conn[c] = "draining" THEN "none" ELSE state)
        /\ peer'[c] = (IF conn[c] = "draining" THEN None ELSE peer[c])
        /\ exchanges'[c] = {}
        /\ \A d \in Conns : d # c => /\ conn'[d] = conn[d] /\ peer'[d] = peer[d]
                                     /\ exchanges'[d] = exchanges[d]
    BY Zenon, <1>0, <1>2 DEF Settle
  <2>3. conn'[c] \notin {"busy", "draining"} /\ (conn'[c] = "none" <=> peer'[c] = None)
    BY Zenon, <1>s, <1>2, <2>2
  <2>4. \A d \in Conns : /\ conn'[d] = "none" <=> peer'[d] = None
                         /\ exchanges'[d] # {} <=> conn'[d] \in {"busy", "draining"}
    BY Zenon, <1>s, <2>2, <2>3
  <2>5. \A q \in Requests : pc'[q] = "send" => conn'[held'[q]] \notin {"busy", "draining"}
    BY Zenon, <1>s, <2>1, <2>2, <2>3
  <2>. QED
    BY Zenon, <2>4, <2>5 DEF ConnShape
<1>3. CASE UNCHANGED <<callVars, active, pool>> /\ UNCHANGED <<conn, peer, exchanges>>
  BY Zenon, <1>3 DEF callVars, ConnShape
<1>. QED
  BY Zenon, <1>1, <1>2, <1>3, OutsideSteps

\* A step of a call takes nothing up but its own request, and only to send it.
LEMMA ExchangeCases ==
  ASSUME TypeOK, CallShape, ExchangeShape,
         NEW r \in Requests, Arrive(r) \/ CallStep(r) \/ Cancel(r)
  PROVE  \/ Send(r)
         \/ /\ \A c \in Conns : exchanges'[c] \subseteq exchanges[c]
            /\ \A c \in Conns : r \in exchanges[c] =>
                  \/ pc'[r] = "idle"
                  \/ pc'[r] = "push" /\ held'[r] = held[r] /\ held[r] = c
<1>0. pc \in [Requests -> Locations]
  BY Zenon DEF TypeOK
<1>1. CASE Send(r)
  BY Zenon, <1>1
<1>2. CASE ~Send(r)
  <2>1. \A c \in Conns : exchanges'[c] \subseteq exchanges[c]
    <3>1. \/ UNCHANGED exchanges
          \/ \E cs : Drop(cs)
      BY Zenon, <1>2, ConnCases DEF HandshakeOk, PrepareOk, connVars
    <3>. QED
      BY Zenon, <3>1 DEF Drop
  <2>2. ASSUME NEW c \in Conns, r \in exchanges[c]
        PROVE  \/ pc'[r] = "idle"
               \/ pc'[r] = "push" /\ held'[r] = held[r] /\ held[r] = c
    <3>1. pc[r] = "idle" \/ (pc[r] \in {"head", "push"} /\ held[r] = c)
      BY Zenon, <2>2 DEF ExchangeShape
    <3>2. CASE Arrive(r)
      BY Zenon, <2>2, <3>2 DEF Arrive
    <3>3. CASE HeadOk(r)
      BY Zenon, <1>0, <3>1, <3>3 DEF HeadOk, Goto
    <3>4. CASE HeadErr(r) \/ Push(r) \/ Cancel(r)
      BY Zenon, <1>0, <3>4 DEF HeadErr, Push, Cancel, Return
    <3>5. CASE \/ RateAllowed(r) \/ RateDenied(r) \/ SkipBackend(r) \/ SelectBackend(r)
               \/ SelectNone(r) \/ PopDead(r) \/ PopHit(r) \/ PopMiss(r) \/ PopReady(r)
               \/ PopClosed(r) \/ ConnectOk(r) \/ ConnectErr(r) \/ HandshakeOk(r)
               \/ HandshakeErr(r) \/ PrepareOk(r) \/ PrepareErr(r)
      <4>1. pc[r] \in {"limit", "select", "pop", "pop_ready", "connect", "handshake", "prepare"}
        BY Zenon, <3>5 DEF RateAllowed, RateDenied, SkipBackend, SelectBackend, SelectNone, PopDead,
           PopHit, PopMiss, PopReady, PopClosed, ConnectOk, ConnectErr, HandshakeOk, HandshakeErr,
           PrepareOk, PrepareErr
      <4>. QED
        BY Zenon, <3>1, <4>1
    <3>. QED
      BY Zenon, <1>2, <3>2, <3>3, <3>4, <3>5 DEF CallStep
  <2>. QED
    BY Zenon, <2>1, <2>2
<1>. QED
  BY Zenon, <1>1, <1>2

\* Exchanges stay apart.
LEMMA ExchangeStep ==
  ASSUME TypeOK, CallShape, ConnShape, ExchangeShape, [Next]_vars
  PROVE  ExchangeShape'
<1>0. /\ conn \in [Conns -> ConnStates]
      /\ exchanges \in [Conns -> SUBSET Requests]
      /\ pc \in [Requests -> Locations]
  BY Zenon DEF TypeOK
<1>s. /\ \A c \in Conns : \A q, t \in exchanges[c] : q = t
      /\ \A c, d \in Conns : \A q \in exchanges[c] : q \in exchanges[d] => c = d
      /\ \A c \in Conns : \A q \in exchanges[c] :
          pc[q] = "idle" \/ (pc[q] \in {"head", "push"} /\ held[q] = c)
  BY Zenon DEF ExchangeShape, OneExchange
<1>1. ASSUME \A c \in Conns : exchanges'[c] \subseteq exchanges[c],
             \A c \in Conns : \A q \in exchanges[c] :
                 pc'[q] = "idle" \/ (pc'[q] \in {"head", "push"} /\ held'[q] = c)
      PROVE  ExchangeShape'
  BY Zenon, <1>s, <1>1 DEF ExchangeShape, OneExchange
<1>2. ASSUME NEW r \in Requests, Arrive(r) \/ CallStep(r) \/ Cancel(r)
      PROVE  ExchangeShape'
  <2>0. \A q \in Requests : q # r => pc'[q] = pc[q] /\ held'[q] = held[q]
    BY Zenon, <1>2, OthersKeep
  <2>1. CASE Send(r)
    <3>1. PICK c \in Conns : c = held[r]
      BY Zenon, <2>1, HasSender DEF Send
    <3>2. pc[r] = "send" /\ pc'[r] = "head" /\ held' = held
      BY Zenon, <1>0, <2>1 DEF Send, Goto
    <3>3. exchanges[c] = {} /\ \A d \in Conns : r \notin exchanges[d]
      BY Zenon, <1>s, <3>1, <3>2 DEF ConnShape
    <3>4. /\ \A t \in exchanges'[c] : t = r
          /\ \A d \in Conns : d # c => exchanges'[d] = exchanges[d]
      <4>1. \/ UNCHANGED exchanges
            \/ exchanges' = [exchanges EXCEPT ![c] = exchanges[c] \cup {r}]
        BY Zenon, <1>0, <2>1, <3>1 DEF Send
      <4>2. \A d \in Conns : d # c => exchanges'[d] = exchanges[d]
        BY Zenon, <1>0, <4>1
      <4>3. exchanges'[c] \subseteq exchanges[c] \cup {r}
        BY SMTT(30), <1>0, <4>1
      <4>. QED
        BY Zenon, <3>3, <4>2, <4>3
    <3>5. ASSUME NEW d \in Conns, NEW q \in exchanges'[d]
          PROVE  \/ q = r /\ d = c
                 \/ q # r /\ d # c /\ q \in exchanges[d] /\ q \in Requests
      BY Zenon, <1>0, <3>3, <3>4
    <3>6. OneExchange'
      BY Zenon, <1>s, <3>4, <3>5 DEF OneExchange
    <3>7. \A d, e \in Conns : \A q \in exchanges'[d] : q \in exchanges'[e] => d = e
      BY Zenon, <1>s, <3>5
    <3>8. \A d \in Conns : \A q \in exchanges'[d] :
              pc'[q] = "idle" \/ (pc'[q] \in {"head", "push"} /\ held'[q] = d)
      BY Zenon, <1>s, <2>0, <3>1, <3>2, <3>5
    <3>. QED
      BY Zenon, <3>6, <3>7, <3>8 DEF ExchangeShape
  <2>2. ASSUME \A c \in Conns : exchanges'[c] \subseteq exchanges[c],
               \A c \in Conns : r \in exchanges[c] =>
                  \/ pc'[r] = "idle"
                  \/ pc'[r] = "push" /\ held'[r] = held[r] /\ held[r] = c
        PROVE  ExchangeShape'
    <3>1. ASSUME NEW c \in Conns, NEW q \in exchanges[c]
          PROVE  pc'[q] = "idle" \/ (pc'[q] \in {"head", "push"} /\ held'[q] = c)
      <4>1. q \in Requests
        BY Zenon, <1>0, <3>1
      <4>2. CASE q = r
        BY Zenon, <2>2, <3>1, <4>2
      <4>3. CASE q # r
        BY Zenon, <1>s, <2>0, <3>1, <4>1, <4>3
      <4>. QED
        BY Zenon, <4>2, <4>3
    <3>. QED
      BY Zenon, <1>1, <2>2, <3>1
  <2>. QED
    BY Zenon, <1>2, <2>1, <2>2, ExchangeCases
<1>3. ASSUME UNCHANGED callVars, NEW c \in Conns, NEW state, Settle(c, state)
      PROVE  ExchangeShape'
  <2>1. UNCHANGED <<pc, held>> /\ \A d \in Conns : exchanges'[d] \subseteq exchanges[d]
    BY Zenon, <1>0, <1>3 DEF callVars, Settle
  <2>. QED
    BY Zenon, <1>s, <1>1, <2>1
<1>4. CASE UNCHANGED callVars /\ UNCHANGED <<conn, peer, exchanges>>
  <2>1. UNCHANGED <<pc, held, exchanges>>
    BY Zenon, <1>4 DEF callVars
  <2>. QED
    BY Zenon, <1>s, <1>1, <2>1
<1>. QED
  BY Zenon, <1>2, <1>3, <1>4, OutsideSteps

-----------------------------------------------------------------------------
(***************************************************************************)
(* Who owns a sender.  Every step is one of six moves of senders between   *)
(* calls and pools, or moves none.                                         *)
(***************************************************************************)
Stay == /\ UNCHANGED <<pool, held>>
        /\ \A q \in Requests : held[q] # None => be'[q] = be[q]
        /\ DrainSet' \subseteq DrainSet
        /\ \A c \in Conns : c \in DrainSet' \/ c \notin DrainSet => peer'[c] = peer[c]
        /\ \A c \in DrainSet : c \notin DrainSet' => peer'[c] = None

Lose(r) == /\ held[r] \in Conns
           /\ held' = [held EXCEPT ![r] = None]
           /\ UNCHANGED pool
           /\ DrainSet' = DrainSet
           /\ peer' = [c \in Conns |-> IF c = held[r] THEN None ELSE peer[c]]
           /\ \A q \in Requests : q # r => be'[q] = be[q]

Leave(r) == /\ held[r] \in Conns
            /\ held' = [held EXCEPT ![r] = None]
            /\ UNCHANGED <<pool, peer>>
            /\ DrainSet' = DrainSet \cup {held[r]}
            /\ \A q \in Requests : q # r => be'[q] = be[q]

Discard(a) == /\ pool[a] # <<>>
              /\ pool' = [pool EXCEPT ![a] = Tail(@)]
              /\ peer' = [c \in Conns |-> IF c = Head(pool[a]) THEN None ELSE peer[c]]
              /\ DrainSet' = DrainSet
              /\ UNCHANGED <<held, be>>

Take(r, a) == /\ held[r] = None
              /\ AddrOf[be[r]] = a
              /\ pool[a] # <<>>
              /\ pool' = [pool EXCEPT ![a] = Tail(@)]
              /\ held' = [held EXCEPT ![r] = Head(pool[a])]
              /\ DrainSet' = DrainSet
              /\ UNCHANGED <<peer, be>>

Make(r, a, c) == /\ held[r] = None
                 /\ AddrOf[be[r]] = a
                 /\ peer[c] = None /\ c \notin DrainSet
                 /\ peer' = [peer EXCEPT ![c] = a]
                 /\ held' = [held EXCEPT ![r] = c]
                 /\ DrainSet' = DrainSet
                 /\ UNCHANGED <<pool, be>>

Give(r, a) == /\ held[r] \in Conns
              /\ AddrOf[be[r]] = a
              /\ held' = [held EXCEPT ![r] = None]
              /\ pool' = [pool EXCEPT ![a] = Append(@, held[r])]
              /\ DrainSet' = DrainSet
              /\ UNCHANGED peer
              /\ \A q \in Requests : q # r => be'[q] = be[q]

\* A closed connection carries nothing.
LEMMA Unused ==
  ASSUME ConnShape, NEW c \in Conns, conn[c] = "closed"
  PROVE  ~Carries(c)
BY Zenon DEF ConnShape, Carries

\* A call that ends with its sender dropped.
LEMMA Loses ==
  ASSUME TypeOK, CallShape, NoSender, NEW r \in Requests, Drop(Holds(r)), UNCHANGED pool,
         held' = [held EXCEPT ![r] = None],
         \A q \in Requests : q # r => be'[q] = be[q]
  PROVE  Stay \/ Lose(r) \/ Leave(r)
<1>0. /\ held \in [Requests -> Conns \cup {None}]
      /\ peer \in [Conns -> Addrs \cup {None}]
      /\ conn \in [Conns -> ConnStates]
  BY Zenon DEF TypeOK
<1>1. CASE held[r] = None
  <2>1. Holds(r) = {}
    BY Zenon, <1>1 DEF Holds
  <2>2. \A c \in Conns : peer'[c] = peer[c] /\ conn'[c] = conn[c]
    BY Zenon, <2>1 DEF Drop
  <2>3. held' = held
    BY Zenon, <1>0, <1>1
  <2>4. DrainSet' = DrainSet
    BY Zenon, <2>2 DEF DrainSet
  <2>. QED
    BY Zenon, <1>1, <2>2, <2>3, <2>4 DEF Stay
<1>2. CASE held[r] # None
  <2>0. PICK h \in Conns : h = held[r]
    BY Zenon, <1>0, <1>2
  <2>1. Holds(r) = {h}
    BY Zenon, <1>2, <2>0 DEF Holds
  <2>2. h \notin DrainSet
    BY Zenon, <2>0 DEF NoSender
  <2>3. \A c \in Conns : c # h => conn'[c] = conn[c]
    BY Zenon, <2>1 DEF Drop
  <2>4. CASE Carries(h)
    <3>1. conn'[h] = "draining" /\ \A c \in Conns : peer'[c] = peer[c]
      BY Zenon, <2>1, <2>4 DEF Drop
    <3>2. DrainSet' = DrainSet \cup {h}
      BY Zenon, <2>3, <3>1 DEF DrainSet
    <3>3. peer' = peer
      BY Zenon, <1>0, <2>1, <2>4 DEF Drop
    <3>. QED
      BY Zenon, <2>0, <3>2, <3>3 DEF Leave
  <2>5. CASE ~Carries(h)
    <3>1. conn'[h] = "none"
      BY Zenon, <2>1, <2>5 DEF Drop
    <3>2. DrainSet' = DrainSet
      BY Zenon, <2>2, <2>3, <3>1 DEF DrainSet
    <3>3. peer' = [c \in Conns |-> IF c = h THEN None ELSE peer[c]]
      <4>1. {c \in Holds(r) : ~Carries(c)} = {h}
        BY Zenon, <2>1, <2>5
      <4>. QED
        BY Zenon, <4>1 DEF Drop
    <3>. QED
      BY Zenon, <2>0, <3>2, <3>3 DEF Lose
  <2>. QED
    BY Zenon, <2>4, <2>5
<1>. QED
  BY Zenon, <1>1, <1>2

\* The moves are all there are.
LEMMA OwnerCases ==
  ASSUME TypeOK, CallShape, ConnShape, NoSender, [Next]_vars
  PROVE  \/ Stay
         \/ \E r \in Requests : Lose(r) \/ Leave(r)
         \/ \E a \in Addrs : Discard(a)
         \/ \E r \in Requests, a \in Addrs : Take(r, a)
         \/ \E r \in Requests, a \in Addrs, c \in Conns : Make(r, a, c)
         \/ \E r \in Requests, a \in Addrs : Give(r, a)
<1>0. /\ held \in [Requests -> Conns \cup {None}]
      /\ peer \in [Conns -> Addrs \cup {None}]
      /\ conn \in [Conns -> ConnStates]
  BY Zenon DEF TypeOK
<1>1. ASSUME NEW r \in Requests, Arrive(r) \/ CallStep(r) \/ Cancel(r)
      PROVE  \/ Stay
             \/ Lose(r) \/ Leave(r)
             \/ \E a \in Addrs : Discard(a) \/ Take(r, a) \/ Give(r, a)
             \/ \E a \in Addrs, c \in Conns : Make(r, a, c)
  <2>0. \A q \in Requests : q # r => be'[q] = be[q]
    BY Zenon, <1>1, OthersKeep
  <2>1. CASE \/ Arrive(r) \/ RateAllowed(r) \/ SkipBackend(r) \/ PopMiss(r) \/ PopReady(r)
             \/ ConnectOk(r) \/ PrepareOk(r) \/ Send(r) \/ HeadOk(r)
    <3>1. UNCHANGED <<pool, peer, held, be>>
      BY Zenon, <2>1 DEF Arrive, RateAllowed, SkipBackend, PopMiss, PopReady, ConnectOk, PrepareOk,
         Send, HeadOk, connVars
    <3>2. DrainSet' = DrainSet
      <4>1. CASE Send(r)
        <5>1. PICK c \in Conns : c = held[r]
          BY Zenon, <4>1, HasSender DEF Send
        <5>2. conn' = conn \/ conn' = [conn EXCEPT ![c] = "busy"]
          BY Zenon, <4>1, <5>1 DEF Send
        <5>3. conn[c] # "draining"
          BY Zenon, <5>1 DEF NoSender, DrainSet
        <5>4. \A d \in Conns : conn'[d] = "draining" <=> conn[d] = "draining"
          BY SMTT(30), <1>0, <5>2, <5>3
        <5>. QED
          BY Zenon, <5>4 DEF DrainSet
      <4>2. CASE conn' = conn
        BY Zenon, <4>2 DEF DrainSet
      <4>. QED
        BY Zenon, <2>1, <4>1, <4>2 DEF Arrive, RateAllowed, SkipBackend, PopMiss, PopReady, ConnectOk,
           PrepareOk, HeadOk, connVars
    <3>. QED
      BY Zenon, <3>1, <3>2 DEF Stay
  <2>2. CASE SelectBackend(r)
    <3>1. UNCHANGED <<pool, conn, peer, held>> /\ held[r] = None
      BY Zenon, <2>2 DEF SelectBackend, connVars, CallShape
    <3>2. DrainSet' = DrainSet
      BY Zenon, <3>1 DEF DrainSet
    <3>. QED
      BY Zenon, <2>0, <3>1, <3>2 DEF Stay
  <2>3. CASE RateDenied(r) \/ SelectNone(r) \/ ConnectErr(r) \/ HandshakeErr(r)
    <3>1. held[r] = None
      BY Zenon, <2>3 DEF RateDenied, SelectNone, ConnectErr, HandshakeErr, CallShape
    <3>2. UNCHANGED <<pool, conn, peer>> /\ held' = [held EXCEPT ![r] = None]
      BY Zenon, <2>3 DEF RateDenied, SelectNone, ConnectErr, HandshakeErr, connVars, Return
    <3>3. held' = held
      BY Zenon, <1>0, <3>1, <3>2
    <3>4. DrainSet' = DrainSet
      BY Zenon, <3>2 DEF DrainSet
    <3>. QED
      BY Zenon, <2>0, <3>1, <3>2, <3>3, <3>4 DEF Stay
  <2>4. CASE PopClosed(r) \/ PrepareErr(r) \/ HeadErr(r) \/ Cancel(r)
    <3>1. Drop(Holds(r)) /\ UNCHANGED pool /\ held' = [held EXCEPT ![r] = None]
      BY Zenon, <2>4 DEF PopClosed, PrepareErr, HeadErr, Cancel, Return
    <3>. QED
      BY Zenon, <2>0, <3>1, Loses
  <2>5. CASE PopDead(r)
    <3>1. PICK a \in Addrs : a = AddrOf[be[r]]
      BY Zenon, <2>5, HasBackend DEF PopDead
    <3>2. PICK h : h = Head(pool[a])
      OBVIOUS
    <3>3. conn[h] = "closed" /\ Drop({h}) /\ h \in Conns
      <4>1. pool[a] # <<>> /\ conn[h] = "closed" /\ Drop({h})
        BY Zenon, <2>5, <3>1, <3>2 DEF PopDead, Queue, PoolKey
      <4>2. pool[a] \in Seq(Conns)
        BY Zenon DEF TypeOK
      <4>3. h \in Conns
        BY SMTT(30), <3>2, <4>1, <4>2
      <4>. QED
        BY Zenon, <4>1, <4>3
    <3>4. ~Carries(h)
      BY Zenon, <3>3, Unused
    <3>5. {c \in {h} : ~Carries(c)} = {h}
      BY Zenon, <3>4
    <3>6. peer' = [c \in Conns |-> IF c = h THEN None ELSE peer[c]]
      BY Zenon, <3>3, <3>5 DEF Drop
    <3>7. \A c \in Conns : conn'[c] = "draining" <=> conn[c] = "draining"
      BY Zenon, <3>3, <3>5 DEF Drop
    <3>8. DrainSet' = DrainSet
      BY Zenon, <3>7 DEF DrainSet
    <3>. QED
      BY Zenon, <2>5, <3>1, <3>2, <3>6, <3>8 DEF PopDead, Discard, Queue, PoolKey, callVars
  <2>6. CASE PopHit(r)
    <3>1. PICK a \in Addrs : a = AddrOf[be[r]]
      BY Zenon, <2>6, HasBackend DEF PopHit
    <3>2. held[r] = None
      BY Zenon, <2>6 DEF PopHit, CallShape
    <3>3. DrainSet' = DrainSet
      BY Zenon, <2>6 DEF PopHit, DrainSet
    <3>. QED
      BY Zenon, <2>6, <3>1, <3>2, <3>3 DEF PopHit, Take, Queue, PoolKey
  <2>7. CASE HandshakeOk(r)
    <3>1. PICK a \in Addrs : a = AddrOf[be[r]]
      BY Zenon, <2>7, HasBackend DEF HandshakeOk
    <3>2. held[r] = None
      BY Zenon, <2>7 DEF HandshakeOk, CallShape
    <3>3. PICK c \in Conns : /\ conn[c] = "none"
                             /\ conn' = [conn EXCEPT ![c] = "idle"]
                             /\ peer' = [peer EXCEPT ![c] = a]
                             /\ held' = [held EXCEPT ![r] = c]
      BY Zenon, <2>7, <3>1 DEF HandshakeOk
    <3>4. peer[c] = None
      BY Zenon, <3>3 DEF ConnShape
    <3>5. \A d \in Conns : conn'[d] = "draining" <=> conn[d] = "draining"
      BY Zenon, <1>0, <3>3
    <3>6. DrainSet' = DrainSet /\ c \notin DrainSet
      BY Zenon, <3>3, <3>5 DEF DrainSet
    <3>. QED
      BY Zenon, <2>7, <3>1, <3>2, <3>3, <3>4, <3>6 DEF HandshakeOk, Make
  <2>8. CASE Push(r)
    <3>1. PICK a \in Addrs : a = AddrOf[be[r]]
      BY Zenon, <2>8, HasBackend DEF Push
    <3>2. held[r] \in Conns
      BY Zenon, <2>8, HasSender DEF Push
    <3>3. held' = [held EXCEPT ![r] = None]
      BY Zenon, <2>8 DEF Push, Return
    <3>4. CASE conn[held[r]] = "closed"
      <4>1. Drop(Holds(r)) /\ UNCHANGED pool
        BY Zenon, <2>8, <3>4 DEF Push, PoolPush
      <4>. QED
        BY Zenon, <2>0, <3>3, <4>1, Loses
    <3>5. CASE conn[held[r]] # "closed"
      <4>1. /\ pool' = [pool EXCEPT ![a] = Append(@, held[r])]
            /\ UNCHANGED <<conn, peer>>
        BY Zenon, <2>8, <3>1, <3>5 DEF Push, PoolPush, PoolKey
      <4>2. DrainSet' = DrainSet
        BY Zenon, <4>1 DEF DrainSet
      <4>. QED
        BY Zenon, <2>0, <3>1, <3>2, <3>3, <4>1, <4>2 DEF Give
    <3>. QED
      BY Zenon, <3>4, <3>5
  <2>. QED
    BY Zenon, <1>1, <2>1, <2>2, <2>3, <2>4, <2>5, <2>6, <2>7, <2>8 DEF CallStep
<1>2. CASE UNCHANGED <<callVars, active, pool>> /\ UNCHANGED <<conn, peer, exchanges>>
  BY Zenon, <1>2 DEF callVars, Stay, DrainSet
<1>3. ASSUME UNCHANGED <<callVars, active, pool>>, NEW c \in Conns,
             NEW state \in {"idle", "closed"}, Settle(c, state)
      PROVE  Stay
  <2>1. /\ conn'[c] # "draining"
        /\ conn[c] = "draining" => peer'[c] = None
        /\ conn[c] # "draining" => peer'[c] = peer[c]
        /\ \A d \in Conns : d # c => conn'[d] = conn[d] /\ peer'[d] = peer[d]
    BY Zenon, <1>0, <1>3 DEF Settle
  <2>2. UNCHANGED <<pool, held, be>>
    BY Zenon, <1>3 DEF callVars
  <2>. QED
    BY Zenon, <2>1, <2>2 DEF Stay, DrainSet
<1>. QED
  BY Zenon, <1>1, <1>2, <1>3, OutsideSteps

\* What the head and the tail of a pool are.
LEMMA PoolTail ==
  ASSUME TypeOK, NEW a \in Addrs, pool[a] # <<>>, pool' = [pool EXCEPT ![a] = Tail(@)]
  PROVE  /\ Head(pool[a]) = pool[a][1] /\ Head(pool[a]) \in Conns /\ 1 \in 1..Len(pool[a])
         /\ Len(pool'[a]) = Len(pool[a]) - 1
         /\ \A i \in 1..Len(pool'[a]) : /\ i + 1 \in 1..Len(pool[a])
                                        /\ pool'[a][i] = pool[a][i + 1]
         /\ \A x \in Addrs : x # a => pool'[x] = pool[x]
<1>1. pool[a] \in Seq(Conns) /\ pool \in [Addrs -> Seq(Conns)]
  BY Zenon DEF TypeOK
<1>2. pool'[a] = Tail(pool[a]) /\ \A x \in Addrs : x # a => pool'[x] = pool[x]
  BY Zenon, <1>1
<1>3. PICK Q \in Seq(Conns) : Q = pool[a]
  BY Zenon, <1>1
<1>4. /\ Head(Q) = Q[1] /\ Head(Q) \in Conns /\ 1 \in 1..Len(Q)
      /\ Len(Tail(Q)) = Len(Q) - 1
      /\ \A i \in 1..Len(Tail(Q)) : i + 1 \in 1..Len(Q) /\ Tail(Q)[i] = Q[i + 1]
  BY SMTT(30), <1>3
<1>. QED
  BY Zenon, <1>2, <1>3, <1>4

\* And what a pool with a sender appended is.
LEMMA PoolAppend ==
  ASSUME TypeOK, NEW a \in Addrs, NEW c \in Conns, pool' = [pool EXCEPT ![a] = Append(@, c)]
  PROVE  /\ Len(pool[a]) \in Nat /\ Len(pool'[a]) = Len(pool[a]) + 1
         /\ \A i \in 1..Len(pool[a]) : pool'[a][i] = pool[a][i]
         /\ pool'[a][Len(pool[a]) + 1] = c
         /\ \A x \in Addrs : x # a => pool'[x] = pool[x]
<1>1. pool[a] \in Seq(Conns) /\ pool \in [Addrs -> Seq(Conns)]
  BY Zenon DEF TypeOK
<1>2. pool'[a] = Append(pool[a], c) /\ \A x \in Addrs : x # a => pool'[x] = pool[x]
  BY Zenon, <1>1
<1>3. PICK Q \in Seq(Conns) : Q = pool[a]
  BY Zenon, <1>1
<1>4. /\ Len(Q) \in Nat /\ Len(Append(Q, c)) = Len(Q) + 1
      /\ \A i \in 1..Len(Q) : Append(Q, c)[i] = Q[i]
      /\ Append(Q, c)[Len(Q) + 1] = c
  OBVIOUS
<1>. QED
  BY Zenon, <1>2, <1>3, <1>4

\* Ownership is exclusive in each move.
LEMMA SenderStep ==
  ASSUME TypeOK, CallShape, ConnShape, SenderOwned, NoSender, [Next]_vars
  PROVE  SenderOwned'
<1>0. /\ held \in [Requests -> Conns \cup {None}]
      /\ peer \in [Conns -> Addrs \cup {None}]
      /\ pool \in [Addrs -> Seq(Conns)]
      /\ None \notin Conns /\ None \notin Addrs
  BY Zenon, PipelineAssumption DEF TypeOK
<1>s. /\ \A q, s \in Requests : held[q] # None /\ held[q] = held[s] => q = s
      /\ \A q \in Requests : held[q] # None => peer[held[q]] = AddrOf[be[q]]
      /\ \A x \in Addrs : \A i \in 1..Len(pool[x]) :
          /\ peer[pool[x][i]] = x
          /\ \A q \in Requests : held[q] # pool[x][i]
          /\ \A j \in 1..Len(pool[x]) : pool[x][i] = pool[x][j] => i = j
  BY Zenon DEF SenderOwned
<1>t. \A x \in Addrs : \A i \in 1..Len(pool[x]) : pool[x][i] \in Conns
  BY SMTT(30), <1>0
<1>v. \A x \in Addrs : \A i, j \in 1..Len(pool[x]) : pool[x][i] = pool[x][j] => i = j
  BY Zenon, <1>s
<1>u. \A q \in Requests : held[q] # None => AddrOf[be[q]] \in Addrs
  BY Zenon, HasBackend DEF CallShape
<1>1. CASE Stay
  <2>1. /\ \A q \in Requests : held[q] # None => peer'[held[q]] = peer[held[q]]
        /\ \A x \in Addrs : \A i \in 1..Len(pool[x]) : peer'[pool[x][i]] = peer[pool[x][i]]
    <3>1. \A c \in Conns : c \notin DrainSet => peer'[c] = peer[c]
      BY Zenon, <1>1 DEF Stay
    <3>2. \A q \in Requests : held[q] \notin DrainSet
      BY Zenon DEF NoSender
    <3>3. \A x \in Addrs : \A i \in 1..Len(pool[x]) : pool[x][i] \notin DrainSet
      BY Zenon DEF NoSender
    <3>4. \A q \in Requests : held[q] # None => peer'[held[q]] = peer[held[q]]
      BY Zenon, <1>0, <3>1, <3>2
    <3>. QED
      BY Zenon, <1>t, <3>1, <3>3, <3>4
  <2>2. held' = held /\ pool' = pool /\ \A q \in Requests : held[q] # None => be'[q] = be[q]
    BY Zenon, <1>1 DEF Stay
  <2>. QED
    BY SMTT(30), <1>s, <2>1, <2>2 DEF SenderOwned
<1>2. ASSUME NEW r \in Requests, Lose(r) \/ Leave(r)
      PROVE  SenderOwned'
  <2>1. /\ held'[r] = None /\ \A q \in Requests : q # r => held'[q] = held[q]
        /\ held[r] \in Conns /\ held[r] # None /\ pool' = pool
        /\ \A c \in Conns : c # held[r] => peer'[c] = peer[c]
        /\ \A q \in Requests : q # r => be'[q] = be[q]
    BY Zenon, <1>0, <1>2 DEF Lose, Leave
  <2>2. \A q, s \in Requests : held'[q] # None /\ held'[q] = held'[s] => q = s
    BY SMTT(30), <1>s, <2>1
  <2>3. \A q \in Requests : held'[q] # None => peer'[held'[q]] = AddrOf[be'[q]]
    BY SMTT(30), <1>0, <1>s, <2>1
  <2>4. ASSUME NEW x \in Addrs, NEW i \in 1..Len(pool'[x])
        PROVE  /\ peer'[pool'[x][i]] = x
               /\ \A q \in Requests : held'[q] # pool'[x][i]
               /\ \A j \in 1..Len(pool'[x]) : pool'[x][i] = pool'[x][j] => i = j
    BY SMTT(30), <1>0, <1>s, <1>t, <2>1
  <2>. QED
    BY Zenon, <2>2, <2>3, <2>4 DEF SenderOwned
<1>3. ASSUME NEW a \in Addrs, Discard(a)
      PROVE  SenderOwned'
  <2>1. /\ Head(pool[a]) = pool[a][1] /\ Head(pool[a]) \in Conns /\ 1 \in 1..Len(pool[a])
        /\ \A i \in 1..Len(pool'[a]) : /\ i + 1 \in 1..Len(pool[a])
                                       /\ pool'[a][i] = pool[a][i + 1]
        /\ \A x \in Addrs : x # a => pool'[x] = pool[x]
    BY Zenon, <1>3, PoolTail DEF Discard
  <2>2. PICK c \in Conns : c = pool[a][1]
    BY Zenon, <2>1
  <2>3. /\ held' = held /\ be' = be
        /\ \A d \in Conns : d # c => peer'[d] = peer[d]
    BY Zenon, <1>3, <2>1, <2>2 DEF Discard
  <2>4. \A q \in Requests : held[q] # None => held[q] # c
    BY SMTT(30), <1>s, <2>1, <2>2
  <2>5. \A q \in Requests : held'[q] # None => peer'[held'[q]] = AddrOf[be'[q]]
    BY SMTT(30), <1>0, <1>s, <2>3, <2>4
  <2>6. ASSUME NEW x \in Addrs, NEW i \in 1..Len(pool'[x])
        PROVE  /\ peer'[pool'[x][i]] = x
               /\ \A q \in Requests : held'[q] # pool'[x][i]
               /\ \A j \in 1..Len(pool'[x]) : pool'[x][i] = pool'[x][j] => i = j
    <3>1. CASE x = a
      <4>1. /\ i + 1 \in 1..Len(pool[a]) /\ pool'[a][i] = pool[a][i + 1] /\ i + 1 # 1
        BY SMTT(30), <2>1, <3>1
      <4>2. pool[a][i + 1] # c
        BY Zenon, <1>s, <2>1, <2>2, <4>1
      <4>3. peer'[pool'[x][i]] = x /\ \A q \in Requests : held'[q] # pool'[x][i]
        BY SMTT(30), <1>s, <1>t, <2>3, <3>1, <4>1, <4>2
      <4>4. ASSUME NEW j \in 1..Len(pool'[a]), pool'[a][i] = pool'[a][j]
            PROVE  i = j
        <5>1. j + 1 \in 1..Len(pool[a]) /\ pool'[a][j] = pool[a][j + 1]
          BY Zenon, <2>1
        <5>2. i + 1 = j + 1
          BY Zenon, <1>v, <4>1, <4>4, <5>1
        <5>. QED
          BY SMTT(30), <5>2, <3>1
      <4>. QED
        BY Zenon, <3>1, <4>3, <4>4
    <3>2. CASE x # a
      <4>1. pool'[x] = pool[x] /\ i \in 1..Len(pool[x])
        BY Zenon, <2>1, <3>2
      <4>2. pool[x][i] # c
        BY SMTT(30), <1>s, <2>1, <2>2, <3>2, <4>1
      <4>. QED
        BY SMTT(30), <1>s, <1>t, <2>3, <4>1, <4>2
    <3>. QED
      BY Zenon, <3>1, <3>2
  <2>. QED
    BY SMTT(30), <1>s, <2>3, <2>5, <2>6 DEF SenderOwned
<1>4. ASSUME NEW r \in Requests, NEW a \in Addrs, Take(r, a)
      PROVE  SenderOwned'
  <2>1. /\ Head(pool[a]) = pool[a][1] /\ Head(pool[a]) \in Conns /\ 1 \in 1..Len(pool[a])
        /\ \A i \in 1..Len(pool'[a]) : /\ i + 1 \in 1..Len(pool[a])
                                       /\ pool'[a][i] = pool[a][i + 1]
        /\ \A x \in Addrs : x # a => pool'[x] = pool[x]
    BY Zenon, <1>4, PoolTail DEF Take
  <2>2. PICK c \in Conns : c = pool[a][1]
    BY Zenon, <2>1
  <2>3. /\ held'[r] = c /\ \A q \in Requests : q # r => held'[q] = held[q]
        /\ AddrOf[be[r]] = a /\ be' = be /\ peer' = peer
    BY Zenon, <1>0, <1>4, <2>1, <2>2 DEF Take
  <2>4. peer[c] = a /\ \A q \in Requests : held[q] # c
    BY SMTT(30), <1>s, <2>1, <2>2
  <2>5. \A q, s \in Requests : held'[q] # None /\ held'[q] = held'[s] => q = s
    BY SMTT(30), <1>s, <2>3, <2>4
  <2>6. \A q \in Requests : held'[q] # None => peer'[held'[q]] = AddrOf[be'[q]]
    BY SMTT(30), <1>s, <2>3, <2>4
  <2>7. ASSUME NEW x \in Addrs, NEW i \in 1..Len(pool'[x])
        PROVE  /\ peer'[pool'[x][i]] = x
               /\ \A q \in Requests : held'[q] # pool'[x][i]
               /\ \A j \in 1..Len(pool'[x]) : pool'[x][i] = pool'[x][j] => i = j
    <3>1. CASE x = a
      <4>1. /\ i + 1 \in 1..Len(pool[a]) /\ pool'[a][i] = pool[a][i + 1] /\ i + 1 # 1
        BY SMTT(30), <2>1, <3>1
      <4>2. pool[a][i + 1] # c
        BY Zenon, <1>s, <2>1, <2>2, <4>1
      <4>3. peer'[pool'[x][i]] = x /\ \A q \in Requests : held'[q] # pool'[x][i]
        BY SMTT(30), <1>s, <2>3, <3>1, <4>1, <4>2
      <4>4. ASSUME NEW j \in 1..Len(pool'[a]), pool'[a][i] = pool'[a][j]
            PROVE  i = j
        <5>1. j + 1 \in 1..Len(pool[a]) /\ pool'[a][j] = pool[a][j + 1]
          BY Zenon, <2>1
        <5>2. i + 1 = j + 1
          BY Zenon, <1>v, <4>1, <4>4, <5>1
        <5>. QED
          BY SMTT(30), <5>2, <3>1
      <4>. QED
        BY Zenon, <3>1, <4>3, <4>4
    <3>2. CASE x # a
      <4>1. pool'[x] = pool[x] /\ i \in 1..Len(pool[x])
        BY Zenon, <2>1, <3>2
      <4>2. pool[x][i] # c
        BY SMTT(30), <1>s, <2>4, <3>2, <4>1
      <4>. QED
        BY SMTT(30), <1>s, <2>3, <4>1, <4>2
    <3>. QED
      BY Zenon, <3>1, <3>2
  <2>. QED
    BY Zenon, <2>5, <2>6, <2>7 DEF SenderOwned
<1>5. ASSUME NEW r \in Requests, NEW a \in Addrs, NEW c \in Conns, Make(r, a, c)
      PROVE  SenderOwned'
  <2>1. /\ held'[r] = c /\ \A q \in Requests : q # r => held'[q] = held[q]
        /\ peer'[c] = a /\ \A d \in Conns : d # c => peer'[d] = peer[d]
        /\ AddrOf[be[r]] = a /\ be' = be /\ pool' = pool /\ peer[c] = None
    BY Zenon, <1>0, <1>5 DEF Make
  <2>2. \A q \in Requests : held[q] # c
    BY SMTT(30), <1>0, <1>s, <1>u, <2>1
  <2>3. \A x \in Addrs : \A i \in 1..Len(pool[x]) : pool[x][i] # c
    BY SMTT(30), <1>0, <1>s, <2>1
  <2>4. \A q, s \in Requests : held'[q] # None /\ held'[q] = held'[s] => q = s
    BY SMTT(30), <1>s, <2>1, <2>2
  <2>5. \A q \in Requests : held'[q] # None => peer'[held'[q]] = AddrOf[be'[q]]
    BY SMTT(30), <1>0, <1>s, <2>1, <2>2
  <2>6. ASSUME NEW x \in Addrs, NEW i \in 1..Len(pool'[x])
        PROVE  /\ peer'[pool'[x][i]] = x
               /\ \A q \in Requests : held'[q] # pool'[x][i]
               /\ \A j \in 1..Len(pool'[x]) : pool'[x][i] = pool'[x][j] => i = j
    BY SMTT(30), <1>s, <1>t, <2>1, <2>3
  <2>. QED
    BY Zenon, <2>4, <2>5, <2>6 DEF SenderOwned
<1>6. ASSUME NEW r \in Requests, NEW a \in Addrs, Give(r, a)
      PROVE  SenderOwned'
  <2>1. PICK c \in Conns : c = held[r]
    BY Zenon, <1>6 DEF Give
  <2>2. /\ held'[r] = None /\ \A q \in Requests : q # r => held'[q] = held[q]
        /\ \A q \in Requests : q # r => be'[q] = be[q]
        /\ peer' = peer /\ c # None /\ peer[c] = a
    BY SMTT(30), <1>0, <1>s, <1>6, <2>1 DEF Give
  <2>3. PICK n \in Nat :
          /\ n = Len(pool[a]) /\ Len(pool'[a]) = n + 1
          /\ \A i \in 1..n : pool'[a][i] = pool[a][i]
          /\ pool'[a][n + 1] = c
          /\ \A x \in Addrs : x # a => pool'[x] = pool[x]
    <3>1. pool' = [pool EXCEPT ![a] = Append(@, c)]
      BY Zenon, <1>6, <2>1 DEF Give
    <3>2. /\ Len(pool[a]) \in Nat /\ Len(pool'[a]) = Len(pool[a]) + 1
          /\ \A i \in 1..Len(pool[a]) : pool'[a][i] = pool[a][i]
          /\ pool'[a][Len(pool[a]) + 1] = c
          /\ \A x \in Addrs : x # a => pool'[x] = pool[x]
      BY Zenon, <3>1, PoolAppend
    <3>. QED
      BY Zenon, <3>2
  <2>4. \A q \in Requests : held'[q] # c
    BY SMTT(30), <1>s, <2>1, <2>2
  <2>5. \A i \in 1..n : pool[a][i] # c
    BY SMTT(30), <1>s, <2>1, <2>3
  <2>6. \A q, s \in Requests : held'[q] # None /\ held'[q] = held'[s] => q = s
    BY SMTT(30), <1>s, <2>2
  <2>7. \A q \in Requests : held'[q] # None => peer'[held'[q]] = AddrOf[be'[q]]
    BY Zenon, <1>s, <2>2
  <2>8. \A q \in Requests : held'[q] = held[q] \/ held'[q] = None
    BY Zenon, <2>2
  <2>9. ASSUME NEW x \in Addrs, NEW i \in 1..Len(pool'[x])
        PROVE  /\ peer'[pool'[x][i]] = x
               /\ \A q \in Requests : held'[q] # pool'[x][i]
               /\ \A j \in 1..Len(pool'[x]) : pool'[x][i] = pool'[x][j] => i = j
    <3>1. CASE x # a
      <4>1. pool'[x] = pool[x] /\ i \in 1..Len(pool[x])
        BY Zenon, <2>3, <3>1
      <4>2. pool[x][i] # None
        BY Zenon, <1>0, <1>t, <4>1
      <4>. QED
        BY SMTT(30), <1>s, <2>2, <2>8, <4>1, <4>2
    <3>2. CASE x = a
      <4>1. i \in 1..n \/ i = n + 1
        BY SMTT(30), <2>3, <3>2
      <4>2. ASSUME NEW j \in 1..Len(pool'[a]), pool'[a][i] = pool'[a][j]
            PROVE  i = j
        <5>1. j \in 1..n \/ j = n + 1
          BY SMTT(30), <2>3
        <5>. QED
          BY SMTT(30), <1>s, <2>3, <2>5, <4>1, <4>2, <5>1
      <4>3. peer'[pool'[a][i]] = a /\ \A q \in Requests : held'[q] # pool'[a][i]
        <5>1. CASE i = n + 1
          BY Zenon, <2>2, <2>3, <2>4, <5>1
        <5>2. CASE i \in 1..n
          BY SMTT(30), <1>0, <1>s, <1>t, <2>2, <2>3, <2>8, <5>2
        <5>. QED
          BY Zenon, <4>1, <5>1, <5>2
      <4>. QED
        BY Zenon, <3>2, <4>2, <4>3
    <3>. QED
      BY Zenon, <3>1, <3>2
  <2>. QED
    BY Zenon, <2>6, <2>7, <2>9 DEF SenderOwned
<1>. QED
  BY Zenon, <1>1, <1>2, <1>3, <1>4, <1>5, <1>6, OwnerCases

\* A draining connection gets no sender again.
LEMMA DrainStep ==
  ASSUME TypeOK, CallShape, ConnShape, SenderOwned, NoSender, [Next]_vars
  PROVE  NoSender'
<1>0. /\ held \in [Requests -> Conns \cup {None}]
      /\ pool \in [Addrs -> Seq(Conns)]
      /\ None \notin Conns /\ DrainSet \subseteq Conns
  BY Zenon, PipelineAssumption DEF TypeOK, DrainSet
<1>s. \A c \in DrainSet : /\ \A q \in Requests : held[q] # c
                          /\ \A x \in Addrs : \A i \in 1..Len(pool[x]) : pool[x][i] # c
  BY Zenon DEF NoSender
<1>1. CASE Stay
  BY Zenon, <1>s, <1>1 DEF Stay, NoSender
<1>2. ASSUME NEW r \in Requests, Lose(r) \/ Leave(r)
      PROVE  NoSender'
  <2>1. /\ held'[r] = None /\ \A q \in Requests : q # r => held'[q] = held[q]
        /\ held[r] \in Conns /\ pool' = pool
        /\ DrainSet' \subseteq DrainSet \cup {held[r]}
    BY Zenon, <1>0, <1>2 DEF Lose, Leave
  <2>2. /\ \A q \in Requests : q # r => held[q] # held[r]
        /\ \A x \in Addrs : \A i \in 1..Len(pool[x]) : pool[x][i] # held[r]
    <3>1. held[r] # None
      BY Zenon, <1>0, <2>1
    <3>2. \A q \in Requests : q # r => held[q] # held[r]
      BY Zenon, <3>1 DEF SenderOwned
    <3>3. \A x \in Addrs : \A i \in 1..Len(pool[x]) : held[r] # pool[x][i]
      BY Zenon DEF SenderOwned
    <3>. QED
      BY Zenon, <3>2, <3>3
  <2>3. \A c \in DrainSet \cup {held[r]} :
            /\ \A q \in Requests : held'[q] # c
            /\ \A x \in Addrs : \A i \in 1..Len(pool[x]) : pool[x][i] # c
    BY Zenon, <1>0, <1>s, <2>1, <2>2
  <2>. QED
    BY Zenon, <2>1, <2>3 DEF NoSender
<1>3. ASSUME NEW a \in Addrs, Discard(a) \/ \E r \in Requests : Take(r, a)
      PROVE  NoSender'
  <2>1. pool[a] # <<>> /\ pool' = [pool EXCEPT ![a] = Tail(@)] /\ DrainSet' = DrainSet
    BY Zenon, <1>3 DEF Discard, Take
  <2>2. /\ Head(pool[a]) = pool[a][1] /\ 1 \in 1..Len(pool[a])
        /\ \A i \in 1..Len(pool'[a]) : /\ i + 1 \in 1..Len(pool[a])
                                       /\ pool'[a][i] = pool[a][i + 1]
        /\ \A x \in Addrs : x # a => pool'[x] = pool[x]
    BY Zenon, <2>1, PoolTail
  <2>3. \A q \in Requests : held'[q] = held[q] \/ held'[q] = pool[a][1]
    BY Zenon, <1>0, <1>3, <2>2 DEF Discard, Take
  <2>4. ASSUME NEW x \in Addrs, NEW i \in 1..Len(pool'[x])
        PROVE  \E j \in 1..Len(pool[x]) : pool'[x][i] = pool[x][j]
    BY Zenon, <2>2, <2>4
  <2>5. ASSUME NEW c \in DrainSet
        PROVE  \A q \in Requests : held'[q] # c
    <3>1. pool[a][1] # c
      BY Zenon, <1>s, <2>2
    <3>. QED
      BY Zenon, <1>s, <2>3, <3>1
  <2>6. ASSUME NEW c \in DrainSet, NEW x \in Addrs, NEW i \in 1..Len(pool'[x])
        PROVE  pool'[x][i] # c
    <3>1. PICK j \in 1..Len(pool[x]) : pool'[x][i] = pool[x][j]
      BY Zenon, <2>4
    <3>. QED
      BY Zenon, <1>s, <3>1
  <2>. QED
    BY Zenon, <2>1, <2>5, <2>6 DEF NoSender
<1>4. ASSUME NEW r \in Requests, NEW a \in Addrs, NEW c \in Conns, Make(r, a, c)
      PROVE  NoSender'
  <2>1. /\ \A q \in Requests : held'[q] = held[q] \/ held'[q] = c
        /\ c \notin DrainSet /\ DrainSet' = DrainSet /\ pool' = pool
    BY Zenon, <1>0, <1>4 DEF Make
  <2>. QED
    BY Zenon, <1>s, <2>1 DEF NoSender
<1>5. ASSUME NEW r \in Requests, NEW a \in Addrs, Give(r, a)
      PROVE  NoSender'
  <2>1. PICK c \in Conns : c = held[r]
    BY Zenon, <1>5 DEF Give
  <2>2. /\ \A q \in Requests : held'[q] = held[q] \/ held'[q] = None
        /\ DrainSet' = DrainSet /\ pool' = [pool EXCEPT ![a] = Append(@, c)]
    BY Zenon, <1>0, <1>5, <2>1 DEF Give
  <2>3. /\ Len(pool[a]) \in Nat /\ Len(pool'[a]) = Len(pool[a]) + 1
        /\ \A i \in 1..Len(pool[a]) : pool'[a][i] = pool[a][i]
        /\ pool'[a][Len(pool[a]) + 1] = c
        /\ \A x \in Addrs : x # a => pool'[x] = pool[x]
    BY Zenon, <2>2, PoolAppend
  <2>4. \A i \in 1..Len(pool'[a]) : i \in 1..Len(pool[a]) \/ i = Len(pool[a]) + 1
    BY SMTT(30), <2>3
  <2>5. ASSUME NEW x \in Addrs, NEW i \in 1..Len(pool'[x])
        PROVE  pool'[x][i] = c \/ \E j \in 1..Len(pool[x]) : pool'[x][i] = pool[x][j]
    BY Zenon, <2>3, <2>4, <2>5
  <2>6. c \notin DrainSet
    BY Zenon, <1>s, <2>1
  <2>7. ASSUME NEW d \in DrainSet
        PROVE  \A q \in Requests : held'[q] # d
    BY Zenon, <1>0, <1>s, <2>2, <2>7
  <2>8. ASSUME NEW d \in DrainSet, NEW x \in Addrs, NEW i \in 1..Len(pool'[x])
        PROVE  pool'[x][i] # d
    <3>1. CASE pool'[x][i] = c
      BY Zenon, <2>6, <3>1
    <3>2. ASSUME NEW j \in 1..Len(pool[x]), pool'[x][i] = pool[x][j]
          PROVE  pool'[x][i] # d
      BY Zenon, <1>s, <3>2
    <3>. QED
      BY Zenon, <2>5, <3>1, <3>2
  <2>. QED
    BY Zenon, <2>2, <2>7, <2>8 DEF NoSender
<1>. QED
  BY Zenon, <1>1, <1>2, <1>3, <1>4, <1>5, OwnerCases

\* No move leaks a connection.
LEMMA LeakStep ==
  ASSUME TypeOK, CallShape, ConnShape, SenderOwned, NoSender, NoLeak, [Next]_vars
  PROVE  NoLeak'
<1>0. /\ held \in [Requests -> Conns \cup {None}]
      /\ peer \in [Conns -> Addrs \cup {None}]
      /\ pool \in [Addrs -> Seq(Conns)]
      /\ None \notin Conns /\ None \notin Addrs
  BY Zenon, PipelineAssumption DEF TypeOK
<1>s. \A d \in Conns : peer[d] # None /\ d \notin DrainSet =>
          \/ peer[d] \in Addrs /\ \E i \in 1..Len(pool[peer[d]]) : pool[peer[d]][i] = d
          \/ \E q \in Requests : held[q] = d
  BY Zenon, <1>0 DEF NoLeak
<1>1. CASE Stay
  BY Zenon, <1>1, <1>s DEF Stay, NoLeak, DrainSet
<1>2. ASSUME NEW r \in Requests, Lose(r) \/ Leave(r)
      PROVE  NoLeak'
  <2>1. /\ pool' = pool /\ \A q \in Requests : q # r => held'[q] = held[q]
        /\ peer'[held[r]] = None \/ held[r] \in DrainSet'
        /\ DrainSet \subseteq DrainSet'
        /\ \A d \in Conns : d # held[r] => peer'[d] = peer[d]
    BY Zenon, <1>0, <1>2 DEF Lose, Leave
  <2>2. ASSUME NEW d \in Conns, peer'[d] # None, d \notin DrainSet'
        PROVE  \/ \E i \in 1..Len(pool'[peer'[d]]) : pool'[peer'[d]][i] = d
               \/ \E q \in Requests : held'[q] = d
    BY SMTT(30), <1>s, <2>1, <2>2
  <2>. QED
    BY Zenon, <2>2 DEF NoLeak
<1>3. ASSUME NEW a \in Addrs, Discard(a) \/ \E r \in Requests : Take(r, a)
      PROVE  NoLeak'
  <2>1. pool[a] # <<>> /\ pool' = [pool EXCEPT ![a] = Tail(@)]
    BY Zenon, <1>3 DEF Discard, Take
  <2>2. PICK c \in Conns :
          /\ c = Head(pool[a]) /\ c = pool[a][1]
          /\ Len(pool'[a]) = Len(pool[a]) - 1
          /\ \A i \in 1..Len(pool'[a]) : pool'[a][i] = pool[a][i + 1]
          /\ \A x \in Addrs : x # a => pool'[x] = pool[x]
    BY Zenon, <2>1, PoolTail
  <2>3. \/ peer'[c] = None
        \/ \E q \in Requests : held'[q] = c
    BY SMTT(30), <1>0, <1>3, <2>2 DEF Discard, Take
  <2>4. \A q \in Requests : held[q] # None => held'[q] = held[q]
    BY Zenon, <1>0, <1>3 DEF Discard, Take
  <2>5. \A d \in Conns : d # c => peer'[d] = peer[d]
    BY Zenon, <1>3, <2>2 DEF Discard, Take
  <2>6. ASSUME NEW d \in Conns, peer'[d] # None, d \notin DrainSet
        PROVE  \/ \E i \in 1..Len(pool'[peer'[d]]) : pool'[peer'[d]][i] = d
               \/ \E q \in Requests : held'[q] = d
    <3>1. CASE d = c
      BY Zenon, <2>3, <2>6, <3>1
    <3>2. CASE d # c
      <4>1. peer'[d] = peer[d]
        BY Zenon, <2>5, <3>2
      <4>2. ASSUME NEW q \in Requests, held[q] = d
            PROVE  held'[q] = d
        BY Zenon, <1>0, <2>4, <4>2
      <4>3. ASSUME peer[d] \in Addrs, NEW i \in 1..Len(pool[peer[d]]), pool[peer[d]][i] = d
            PROVE  \E j \in 1..Len(pool'[peer'[d]]) : pool'[peer'[d]][j] = d
        <5>1. CASE peer[d] # a
          BY Zenon, <2>2, <4>1, <4>3, <5>1
        <5>2. CASE peer[d] = a
          <6>1. Len(pool[a]) \in Nat /\ i \in 1..Len(pool[a]) /\ i # 1
            BY SMTT(30), <1>0, <2>2, <3>2, <4>3, <5>2
          <6>2. PICK j \in 1..Len(pool'[a]) : j + 1 = i
            BY SMTT(30), <2>2, <6>1
          <6>3. pool'[a][j] = d
            BY Zenon, <2>2, <4>3, <5>2, <6>2
          <6>. QED
            BY Zenon, <4>1, <5>2, <6>3
        <5>. QED
          BY Zenon, <5>1, <5>2
      <4>. QED
        BY Zenon, <1>s, <2>6, <4>1, <4>2, <4>3
    <3>. QED
      BY Zenon, <3>1, <3>2
  <2>. QED
    BY Zenon, <1>3, <2>6 DEF NoLeak, Discard, Take
<1>4. ASSUME NEW r \in Requests, NEW a \in Addrs, NEW c \in Conns, Make(r, a, c)
      PROVE  NoLeak'
  <2>1. /\ held'[r] = c /\ \A q \in Requests : q # r => held'[q] = held[q]
        /\ held[r] = None /\ pool' = pool
        /\ \A d \in Conns : d # c => peer'[d] = peer[d]
    BY Zenon, <1>0, <1>4 DEF Make
  <2>2. ASSUME NEW d \in Conns, peer'[d] # None, d \notin DrainSet
        PROVE  \/ \E i \in 1..Len(pool'[peer'[d]]) : pool'[peer'[d]][i] = d
               \/ \E q \in Requests : held'[q] = d
    <3>1. CASE d = c
      BY Zenon, <2>1, <3>1
    <3>2. CASE d # c
      <4>1. \A q \in Requests : held[q] = d => held'[q] = d
        BY Zenon, <1>0, <2>1
      <4>2. peer'[d] = peer[d] /\ pool' = pool
        BY Zenon, <2>1, <3>2
      <4>. QED
        BY Zenon, <1>s, <2>2, <4>1, <4>2
    <3>. QED
      BY Zenon, <3>1, <3>2
  <2>. QED
    BY Zenon, <1>4, <2>2 DEF NoLeak, Make
<1>5. ASSUME NEW r \in Requests, NEW a \in Addrs, Give(r, a)
      PROVE  NoLeak'
  <2>1. PICK c \in Conns : c = held[r]
    BY Zenon, <1>5 DEF Give
  <2>2. /\ \A q \in Requests : q # r => held'[q] = held[q]
        /\ peer' = peer /\ peer[c] = a
    BY Zenon, <1>0, <1>5, <2>1 DEF Give, SenderOwned
  <2>3. PICK n \in Nat :
          /\ n = Len(pool[a]) /\ Len(pool'[a]) = n + 1
          /\ \A i \in 1..n : pool'[a][i] = pool[a][i]
          /\ pool'[a][n + 1] = c
          /\ \A x \in Addrs : x # a => pool'[x] = pool[x]
    <3>1. pool' = [pool EXCEPT ![a] = Append(@, c)]
      BY Zenon, <1>5, <2>1 DEF Give
    <3>2. /\ Len(pool[a]) \in Nat /\ Len(pool'[a]) = Len(pool[a]) + 1
          /\ \A i \in 1..Len(pool[a]) : pool'[a][i] = pool[a][i]
          /\ pool'[a][Len(pool[a]) + 1] = c
          /\ \A x \in Addrs : x # a => pool'[x] = pool[x]
      BY Zenon, <3>1, PoolAppend
    <3>. QED
      BY Zenon, <3>2
  <2>4. ASSUME NEW d \in Conns, peer[d] # None, d \notin DrainSet
        PROVE  \/ \E i \in 1..Len(pool'[peer[d]]) : pool'[peer[d]][i] = d
               \/ \E q \in Requests : held'[q] = d
    <3>1. CASE d = c
      <4>1. n + 1 \in 1..Len(pool'[a]) /\ pool'[a][n + 1] = d
        BY SMTT(30), <2>3, <3>1
      <4>. QED
        BY Zenon, <2>2, <3>1, <4>1
    <3>2. CASE d # c
      <4>1. ASSUME peer[d] \in Addrs, NEW i \in 1..Len(pool[peer[d]]), pool[peer[d]][i] = d
            PROVE  i \in 1..Len(pool'[peer[d]]) /\ pool'[peer[d]][i] = d
        <5>1. CASE peer[d] # a
          BY Zenon, <2>3, <4>1, <5>1
        <5>2. CASE peer[d] = a
          BY SMTT(30), <2>3, <4>1, <5>2
        <5>. QED
          BY Zenon, <5>1, <5>2
      <4>2. ASSUME NEW q \in Requests, held[q] = d
            PROVE  held'[q] = d
        BY Zenon, <2>1, <2>2, <3>2, <4>2
      <4>. QED
        BY Zenon, <1>s, <2>4, <4>1, <4>2
    <3>. QED
      BY Zenon, <3>1, <3>2
  <2>. QED
    BY Zenon, <1>5, <2>2, <2>4 DEF NoLeak, Give
<1>. QED
  BY Zenon, <1>1, <1>2, <1>3, <1>4, <1>5, OwnerCases

=============================================================================
