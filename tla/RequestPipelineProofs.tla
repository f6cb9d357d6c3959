----------------------- MODULE RequestPipelineProofs ------------------------
(***************************************************************************)
(* Proofs about RequestPipeline, for any finite set of concurrent requests *)
(* and any backends, addresses, connections and failure threshold.  The    *)
(* lemmas on types, locals, connections and their senders are in           *)
(* RequestPipelineLemmas.                                                  *)
(***************************************************************************)
EXTENDS RequestPipelineLemmas, FiniteSetTheorems, TLAPS

\* A set of requests is finite.
LEMMA RequestSets ==
  ASSUME NEW S \in SUBSET Requests
  PROVE  /\ IsFiniteSet(S)
         /\ Cardinality(S) \in Nat
         /\ Cardinality(S) <= Cardinality(Requests)
         /\ Cardinality(Requests) \in Nat
<1>1. IsFiniteSet(S) /\ Cardinality(S) <= Cardinality(Requests)
  BY Zenon, PipelineAssumption, FS_Subset
<1>. QED
  BY Zenon, <1>1, PipelineAssumption, FS_CardinalityType

\* A larger set of requests has at least as many of them.
LEMMA FewerRequests ==
  ASSUME NEW S \in SUBSET Requests, NEW T \in SUBSET S
  PROVE  Cardinality(T) <= Cardinality(S)
BY Zenon, RequestSets, FS_Subset

\* Counting one request more.
LEMMA OneMore ==
  ASSUME NEW S \in SUBSET Requests, NEW r \in Requests, r \notin S
  PROVE  Cardinality(S \cup {r}) = Cardinality(S) + 1
BY Zenon, RequestSets, FS_AddElement

\* Whether it is new or not.
LEMMA AtMostOneMore ==
  ASSUME NEW S \in SUBSET Requests, NEW r \in Requests
  PROVE  Cardinality(S \cup {r}) <= Cardinality(S) + 1
<1>0. Cardinality(S) \in Nat
  BY Zenon, RequestSets
<1>1. CASE r \in S
  <2>1. S \cup {r} = S
    BY Zenon, <1>1
  <2>2. \A n \in Nat : n <= n + 1
    OBVIOUS
  <2>. QED
    BY Zenon, <1>0, <2>1, <2>2
<1>2. CASE r \notin S
  <2>1. Cardinality(S \cup {r}) = Cardinality(S) + 1
    BY Zenon, <1>2, OneMore
  <2>2. \A n \in Nat : n + 1 <= n + 1
    OBVIOUS
  <2>. QED
    BY Zenon, <1>0, <2>1, <2>2
<1>. QED
  BY Zenon, <1>1, <1>2

\* Counting one less.
LEMMA OneLess ==
  ASSUME NEW S \in SUBSET Requests, NEW r \in S
  PROVE  /\ Cardinality(S \ {r}) = Cardinality(S) - 1
         /\ Cardinality(S) - 1 \in Nat
<1>1. Cardinality(S \ {r}) = Cardinality(S) - 1
  BY Zenon, RequestSets, FS_RemoveElement
<1>2. Cardinality(S \ {r}) \in Nat
  BY Zenon, RequestSets
<1>. QED
  BY Zenon, <1>1, <1>2

-----------------------------------------------------------------------------
(***************************************************************************)
(* The active-request gauges.                                              *)
(***************************************************************************)
\* A step leaves the guards alone, takes one, or ends a call and drops its own.
LEMMA GuardCases ==
  ASSUME [Next]_vars
  PROVE  \/ UNCHANGED <<be, active>>
         \/ \E r \in Requests : SelectBackend(r)
         \/ \E r \in Requests : be' = [be EXCEPT ![r] = None] /\ ReleaseGuard(r)
<1>1. CASE UNCHANGED vars
  BY Zenon, <1>1 DEF vars, callVars, backendVars
<1>2. ASSUME NEW r \in Requests, Arrive(r) \/ CallStep(r) \/ Cancel(r)
      PROVE  \/ UNCHANGED <<be, active>>
             \/ SelectBackend(r)
             \/ be' = [be EXCEPT ![r] = None] /\ ReleaseGuard(r)
  BY Zenon, <1>2 DEF CallStep, Arrive, Cancel, RateAllowed, RateDenied, SkipBackend, SelectNone,
     PopDead, PopHit, PopMiss, PopReady, PopClosed, ConnectOk, ConnectErr, HandshakeOk,
     HandshakeErr, PrepareOk, PrepareErr, Send, HeadOk, HeadErr, Push, Return,
     callVars, backendVars
<1>3. ASSUME NEW c \in Conns, BodyDone(c) \/ ConnCloses(c)
      PROVE  UNCHANGED <<be, active>>
  BY Zenon, <1>3 DEF BodyDone, ConnCloses, callVars, backendVars
<1>4. ASSUME \/ \E a \in Addrs : UpstreamFlips(a)
             \/ \E b \in Backends : CoolDown(b)
             \/ \E b \in fresh : ReloadConfig(b)
             \/ \E bs \in SUBSET fresh : ApplyRoute(bs)
             \/ ProberStep
      PROVE  UNCHANGED <<be, active>>
  BY Zenon, <1>4 DEF UpstreamFlips, CoolDown, ReloadConfig, ApplyRoute, UpdateBackends, ProberStep,
     ProbeTick, ProbeApply, ProbeConnect, callVars, backendVars
<1>. QED
  BY Zenon, <1>1, <1>2, <1>3, <1>4 DEF Next

\* The gauges follow the guards.
LEMMA GuardStep ==
  ASSUME TypeOK, CallShape, GuardBalance, [Next]_vars
  PROVE  GuardBalance' /\ active' \in [Backends -> Nat] /\ be' \in [Requests -> Backends \cup {None}]
<1> DEFINE On(b) == {r \in Requests : be[r] = b}
<1>0. /\ active \in [Backends -> Nat] /\ be \in [Requests -> Backends \cup {None}]
      /\ seen \in [Requests -> SUBSET Backends]
      /\ \A b \in Backends : active[b] = Cardinality(On(b))
  BY Zenon DEF TypeOK, GuardBalance
<1>1. CASE UNCHANGED <<be, active>>
  BY Zenon, <1>0, <1>1 DEF GuardBalance
<1>2. ASSUME NEW r \in Requests, SelectBackend(r)
      PROVE  GuardBalance' /\ active' \in [Backends -> Nat]
             /\ be' \in [Requests -> Backends \cup {None}]
  <2>1. PICK b \in Backends : /\ be' = [be EXCEPT ![r] = b]
                              /\ active' = [active EXCEPT ![b] = @ + 1]
    BY Zenon, <1>0, <1>2 DEF SelectBackend
  <2>2. be[r] = None
    BY Zenon, <1>2 DEF SelectBackend, CallShape
  <2>3. active' \in [Backends -> Nat] /\ be' \in [Requests -> Backends \cup {None}]
    BY SMTT(30), <1>0, <2>1
  <2>4. ASSUME NEW q \in Backends
        PROVE  active'[q] = Cardinality(On(q)')
    <3>1. CASE q = b
      <4>1. r \notin On(q) /\ On(q)' = On(q) \cup {r}
        BY SMTT(30), <1>0, <2>1, <2>2, <3>1, PipelineAssumption
      <4>2. Cardinality(On(q) \cup {r}) = Cardinality(On(q)) + 1
        BY Zenon, <4>1, OneMore
      <4>3. active'[q] = active[q] + 1
        BY Zenon, <1>0, <2>1, <3>1
      <4>. HIDE DEF On
      <4>. QED
        BY Zenon, <1>0, <4>1, <4>2, <4>3
    <3>2. CASE q # b
      <4>1. On(q)' = On(q)
        BY Zenon, <1>0, <2>1, <2>2, <3>2, PipelineAssumption
      <4>2. active'[q] = active[q]
        BY Zenon, <1>0, <2>1, <3>2
      <4>. HIDE DEF On
      <4>. QED
        BY Zenon, <1>0, <4>1, <4>2
    <3>. QED
      BY Zenon, <3>1, <3>2
  <2>. QED
    BY Zenon, <2>3, <2>4 DEF GuardBalance
<1>3. ASSUME NEW r \in Requests, be' = [be EXCEPT ![r] = None], ReleaseGuard(r)
      PROVE  GuardBalance' /\ active' \in [Backends -> Nat]
             /\ be' \in [Requests -> Backends \cup {None}]
  <2>1. be' \in [Requests -> Backends \cup {None}]
    BY Zenon, <1>0, <1>3
  <2>2. CASE be[r] = None
    <3>1. UNCHANGED <<be, active>>
      BY Zenon, <1>0, <1>3, <2>2 DEF ReleaseGuard
    <3>. QED
      BY Zenon, <1>1, <3>1, <1>0 DEF GuardBalance
  <2>3. CASE be[r] # None
    <3>1. PICK b \in Backends : be[r] = b
      BY Zenon, <1>0, <2>3
    <3>2. active' = [active EXCEPT ![b] = @ - 1]
      BY Zenon, <1>3, <2>3, <3>1 DEF ReleaseGuard
    <3>3. r \in On(b) /\ On(b)' = On(b) \ {r}
      BY Zenon, <1>0, <1>3, <3>1, PipelineAssumption
    <3>4. Cardinality(On(b) \ {r}) = Cardinality(On(b)) - 1 /\ Cardinality(On(b)) - 1 \in Nat
      BY Zenon, <3>3, OneLess
    <3>5. active[b] - 1 \in Nat /\ active'[b] = Cardinality(On(b)')
      <4>1. active[b] = Cardinality(On(b)) /\ active'[b] = active[b] - 1
        BY Zenon, <1>0, <3>2
      <4>. HIDE DEF On
      <4>. QED
        BY Zenon, <3>3, <3>4, <4>1
    <3>6. active' \in [Backends -> Nat]
      BY Zenon, <1>0, <3>2, <3>5
    <3>7. ASSUME NEW q \in Backends, q # b
          PROVE  active'[q] = Cardinality(On(q)')
      <4>1. On(q)' = On(q)
        BY Zenon, <1>0, <1>3, <3>1, <3>7, PipelineAssumption
      <4>2. active'[q] = active[q]
        BY Zenon, <1>0, <3>2, <3>7
      <4>. HIDE DEF On
      <4>. QED
        BY Zenon, <1>0, <4>1, <4>2
    <3>. QED
      BY Zenon, <2>1, <3>5, <3>6, <3>7 DEF GuardBalance
  <2>. QED
    BY Zenon, <2>2, <2>3
<1>. QED
  BY Zenon, <1>1, <1>2, <1>3, GuardCases, <1>0

-----------------------------------------------------------------------------
(***************************************************************************)
(* The room a pool leaves.                                                 *)
(***************************************************************************)
\* Of the steps of a call, only three take a call past a pool or lengthen one.
LEMMA RoomCases ==
  ASSUME TypeOK, CallShape, NEW r \in Requests, Arrive(r) \/ CallStep(r) \/ Cancel(r)
  PROVE  \/ PopMiss(r)
         \/ PopHit(r)
         \/ Push(r) /\ conn[held[r]] # "closed"
         \/ /\ UNCHANGED pool \/ PopDead(r)
            /\ be'[r] = None \/ pc'[r] = "pop" \/ (be'[r] = be[r] /\ pc[r] # "pop")
<1>0. /\ pc \in [Requests -> Locations]
      /\ be \in [Requests -> Backends \cup {None}]
  BY Zenon DEF TypeOK
<1>1. CASE Arrive(r) \/ RateAllowed(r) \/ SkipBackend(r)
  <2>1. UNCHANGED <<pool, be>> /\ pc[r] # "pop"
    BY Zenon, <1>1 DEF Arrive, RateAllowed, SkipBackend, connVars
  <2>. QED
    BY Zenon, <2>1
<1>2. CASE \/ RateDenied(r) \/ SelectNone(r) \/ ConnectErr(r) \/ HandshakeErr(r)
           \/ PrepareErr(r) \/ HeadErr(r) \/ Cancel(r)
  <2>1. UNCHANGED pool /\ be' = [be EXCEPT ![r] = None]
    BY Zenon, <1>2 DEF RateDenied, SelectNone, ConnectErr, HandshakeErr, PrepareErr, HeadErr, Cancel,
       Return, connVars
  <2>. QED
    BY Zenon, <1>0, <2>1
<1>3. CASE SelectBackend(r)
  BY Zenon, <1>0, <1>3 DEF SelectBackend, Goto, connVars
<1>4. CASE PopDead(r)
  BY Zenon, <1>4 DEF PopDead, callVars
<1>5. CASE \/ PopReady(r) \/ PopClosed(r) \/ ConnectOk(r) \/ HandshakeOk(r) \/ PrepareOk(r)
           \/ Send(r) \/ HeadOk(r)
  <2>1. UNCHANGED <<pool, be>> /\ pc[r] # "pop"
    BY Zenon, <1>5 DEF PopReady, PopClosed, ConnectOk, HandshakeOk, PrepareOk, Send, HeadOk, connVars
  <2>. QED
    BY Zenon, <2>1
<1>6. CASE Push(r) /\ conn[held[r]] = "closed"
  BY Zenon, <1>0, <1>6 DEF Push, PoolPush, Return
<1>. QED
  BY Zenon, <1>1, <1>2, <1>3, <1>4, <1>5, <1>6 DEF CallStep

\* The request on a draining connection has been answered.
LEMMA NotDraining ==
  ASSUME ExchangeShape, NoSender, NEW r \in Requests, pc[r] # "idle", NEW x
  PROVE  r \notin Draining(x)
<1>1. ASSUME NEW c \in DrainSet, r \in exchanges[c]
      PROVE  FALSE
  <2>1. c \in Conns
    BY Zenon, <1>1 DEF DrainSet
  <2>2. held[r] = c
    BY Zenon, <1>1, <2>1 DEF ExchangeShape
  <2>. QED
    BY Zenon, <1>1, <2>2 DEF NoSender
<1>. QED
  BY Zenon, <1>1 DEF Draining

\* Only a call that is dropped while it waits for a connection busy with another
\* response leaves a draining one.
LEMMA DrainCases ==
  ASSUME TypeOK, CallShape, ConnShape, ExchangeShape, SenderOwned,
         NEW r \in Requests, Arrive(r) \/ CallStep(r) \/ Cancel(r)
  PROVE  \/ \A x \in Addrs : Draining(x)' \subseteq Draining(x)
         \/ /\ Cancel(r) /\ held[r] # None
            /\ \E q \in Requests : \A x \in Addrs :
                  /\ Draining(x)' \subseteq Draining(x) \cup {q}
                  /\ x # AddrOf[be[r]] => Draining(x)' \subseteq Draining(x)
<1>0. /\ conn \in [Conns -> ConnStates]
      /\ peer \in [Conns -> Addrs \cup {None}]
      /\ exchanges \in [Conns -> SUBSET Requests]
      /\ held \in [Requests -> Conns \cup {None}]
  BY Zenon DEF TypeOK
<1>1. ASSUME \A c \in Conns : conn'[c] = "draining" =>
                 /\ conn[c] = "draining" /\ peer'[c] = peer[c]
                 /\ exchanges'[c] = exchanges[c]
      PROVE  \A x \in Addrs : Draining(x)' \subseteq Draining(x)
  BY Zenon, <1>1 DEF Draining, DrainSet
<1>2. ASSUME NEW cs, Drop(cs), \A c \in cs : ~Carries(c)
      PROVE  \A x \in Addrs : Draining(x)' \subseteq Draining(x)
  <2>1. {c \in cs : ~Carries(c)} = cs
    BY Zenon, <1>2
  <2>2. \A c \in Conns : conn'[c] = "draining" =>
                 /\ conn[c] = "draining" /\ peer'[c] = peer[c]
                 /\ exchanges'[c] = exchanges[c]
    BY Zenon, <1>2, <2>1 DEF Drop
  <2>. QED
    BY Zenon, <1>1, <2>2
<1>3. CASE UNCHANGED <<conn, peer, exchanges>>
  BY Zenon, <1>1, <1>3
<1>4. CASE HandshakeOk(r)
  <2>1. PICK c \in Conns : /\ conn' = [conn EXCEPT ![c] = "idle"]
                           /\ peer' = [peer EXCEPT ![c] = AddrOf[be[r]]]
                           /\ exchanges' = exchanges
    BY Zenon, <1>4 DEF HandshakeOk
  <2>. QED
    BY Zenon, <1>0, <1>1, <2>1
<1>5. CASE Send(r)
  <2>1. PICK c \in Conns : c = held[r]
    BY Zenon, <1>5, HasSender DEF Send
  <2>2. /\ peer' = peer
        /\ \/ UNCHANGED <<conn, exchanges>>
           \/ /\ conn' = [conn EXCEPT ![c] = "busy"]
              /\ exchanges' = [exchanges EXCEPT ![c] = exchanges[c] \cup {r}]
    BY Zenon, <1>0, <1>5, <2>1 DEF Send
  <2>3. \A d \in Conns : conn'[d] = "draining" =>
                 /\ conn[d] = "draining" /\ peer'[d] = peer[d]
                 /\ exchanges'[d] = exchanges[d]
    BY Zenon, <1>0, <2>2
  <2>. QED
    BY Zenon, <1>1, <2>3
<1>6. CASE PopDead(r)
  <2>1. PICK a \in Addrs : a = AddrOf[be[r]]
    BY Zenon, <1>6, HasBackend DEF PopDead
  <2>2. PICK h : h = Head(pool[a])
    OBVIOUS
  <2>3. pool[a] # <<>> /\ conn[h] = "closed" /\ Drop({h})
    BY Zenon, <1>6, <2>1, <2>2 DEF PopDead, Queue, PoolKey
  <2>4. pool[a] \in Seq(Conns)
    BY Zenon DEF TypeOK
  <2>5. h \in Conns
    BY SMTT(30), <2>2, <2>3, <2>4
  <2>6. ~Carries(h)
    BY Zenon, <2>3, <2>5, Unused
  <2>. QED
    BY Zenon, <1>2, <2>3, <2>6
<1>7. CASE Drop(Holds(r)) /\ (held[r] = None \/ conn[held[r]] = "closed")
  <2>1. \A c \in Holds(r) : c \in Conns /\ conn[c] = "closed"
    BY Zenon, <1>0, <1>7 DEF Holds
  <2>2. \A c \in Holds(r) : ~Carries(c)
    BY Zenon, <2>1, Unused
  <2>. QED
    BY Zenon, <1>2, <1>7, <2>2
<1>8. CASE Cancel(r) /\ held[r] # None
  <2>0. PICK h \in Conns : h = held[r] /\ Holds(r) = {h}
    BY Zenon, <1>0, <1>8 DEF Holds
  <2>1. Drop({h})
    BY Zenon, <1>8, <2>0 DEF Cancel
  <2>2. CASE ~Carries(h)
    BY Zenon, <1>2, <2>1, <2>2
  <2>3. CASE Carries(h)
    <3>1. PICK q \in Requests : \A t \in exchanges[h] : t = q
      <4>1. PICK q \in exchanges[h] : TRUE
        BY Zenon, <2>3 DEF Carries
      <4>2. \A t \in exchanges[h] : t = q
        BY Zenon, <4>1 DEF ExchangeShape, OneExchange
      <4>3. q \in Requests
        BY Zenon, <1>0, <4>1
      <4>. QED
        BY Zenon, <4>2, <4>3
    <3>2. peer[h] = AddrOf[be[r]]
      BY Zenon, <1>8, <2>0 DEF SenderOwned
    <3>3. {c \in {h} : ~Carries(c)} = {}
      BY Zenon, <2>3
    <3>4. \A c \in Conns : /\ peer'[c] = peer[c] /\ exchanges'[c] = exchanges[c]
                           /\ c # h => conn'[c] = conn[c]
      BY Zenon, <2>1, <3>3 DEF Drop
    <3>5. ASSUME NEW x \in Addrs
          PROVE  /\ Draining(x)' \subseteq Draining(x) \cup {q}
                 /\ x # AddrOf[be[r]] => Draining(x)' \subseteq Draining(x)
      <4>1. ASSUME NEW t \in Requests, NEW c \in Conns, conn'[c] = "draining",
                   peer'[c] = x, t \in exchanges'[c]
            PROVE  t \in Draining(x) \/ (t = q /\ x = AddrOf[be[r]])
        <5>1. CASE c = h
          BY Zenon, <3>1, <3>2, <3>4, <4>1, <5>1
        <5>2. CASE c # h
          BY Zenon, <3>4, <4>1, <5>2 DEF Draining, DrainSet
        <5>. QED
          BY Zenon, <5>1, <5>2
      <4>2. ASSUME NEW t \in Draining(x)'
            PROVE  t \in Draining(x) \/ (t = q /\ x = AddrOf[be[r]])
        <5>1. PICK c \in Conns : /\ t \in Requests /\ conn'[c] = "draining"
                                 /\ peer'[c] = x /\ t \in exchanges'[c]
          BY Zenon, <4>2 DEF Draining, DrainSet
        <5>. QED
          BY Zenon, <4>1, <5>1
      <4>. QED
        BY Zenon, <4>2
    <3>. QED
      BY Zenon, <1>8, <3>1, <3>5
  <2>. QED
    BY Zenon, <2>2, <2>3
<1>9. CASE PopClosed(r) \/ PrepareErr(r) \/ HeadErr(r) \/ Push(r) \/ Cancel(r)
  <2>1. \/ UNCHANGED <<conn, peer, exchanges>>
        \/ Drop(Holds(r)) /\ conn[held[r]] = "closed"
        \/ Drop(Holds(r)) /\ Cancel(r)
    BY Zenon, <1>9 DEF PopClosed, PrepareErr, HeadErr, Push, Cancel, PoolPush
  <2>. QED
    BY Zenon, <1>3, <1>7, <1>8, <2>1
<1>10. CASE \/ Arrive(r) \/ RateAllowed(r) \/ RateDenied(r) \/ SkipBackend(r) \/ SelectBackend(r)
            \/ SelectNone(r) \/ PopHit(r) \/ PopMiss(r) \/ PopReady(r) \/ ConnectOk(r)
            \/ ConnectErr(r) \/ HandshakeErr(r) \/ PrepareOk(r) \/ HeadOk(r)
  <2>1. UNCHANGED <<conn, peer, exchanges>>
    BY Zenon, <1>10 DEF Arrive, RateAllowed, RateDenied, SkipBackend, SelectBackend, SelectNone,
       PopHit, PopMiss, PopReady, ConnectOk, ConnectErr, HandshakeErr, PrepareOk, HeadOk, connVars
  <2>. QED
    BY Zenon, <1>3, <2>1
<1>. QED
  BY Zenon, <1>4, <1>5, <1>6, <1>9, <1>10 DEF CallStep

\* Pooled senders, calls past the pool and responses on connections that left it
\* never outnumber the requests.
LEMMA RoomStep ==
  ASSUME TypeOK, CallShape, ConnShape, ExchangeShape, SenderOwned, NoSender, QueueRoom,
         [Next]_vars
  PROVE  QueueRoom'
<1>0. /\ pool \in [Addrs -> Seq(Conns)]
      /\ pc \in [Requests -> Locations]
      /\ be \in [Requests -> Backends \cup {None}]
      /\ \A x \in Addrs : Len(pool[x]) \in Nat
  BY SMTT(30) DEF TypeOK
<1>s. \A x \in Addrs : Len(pool[x]) + Cardinality(Taken(x)) <= Cardinality(Requests)
  BY Zenon DEF QueueRoom
<1>c. \A x \in Addrs : /\ Taken(x) \subseteq Requests /\ Taken(x)' \subseteq Requests
                       /\ Cardinality(Taken(x)) \in Nat /\ Cardinality(Taken(x)') \in Nat
                       /\ Cardinality(Requests) \in Nat
  <2>1. \A x \in Addrs : Taken(x) \subseteq Requests /\ Taken(x)' \subseteq Requests
    BY Zenon DEF Taken, Past, Draining
  <2>. QED
    BY Zenon, <2>1, RequestSets
<1>1. ASSUME NEW x \in Addrs, Taken(x)' \subseteq Taken(x),
             Len(pool'[x]) \in Nat, Len(pool'[x]) <= Len(pool[x])
      PROVE  Len(pool'[x]) + Cardinality(Taken(x)') <= Cardinality(Requests)
  <2>1. Cardinality(Taken(x)') <= Cardinality(Taken(x))
    BY Zenon, <1>1, <1>c, FewerRequests
  <2>. QED
    BY SMTT(30), <1>0, <1>1, <1>c, <1>s, <2>1
<1>2. ASSUME NEW r \in Requests, Arrive(r) \/ CallStep(r) \/ Cancel(r),
             NEW x \in Addrs, Draining(x)' \subseteq Draining(x)
      PROVE  Len(pool'[x]) + Cardinality(Taken(x)') <= Cardinality(Requests)
  <2>0. \A q \in Requests : q # r => pc'[q] = pc[q] /\ be'[q] = be[q]
    BY Zenon, <1>2, OthersKeep
  <2>d. pc[r] # "idle" => r \notin Draining(x)
    BY Zenon, NotDraining
  <2>1. CASE PopMiss(r)
    <3>1. be' = be /\ pool' = pool /\ pool[AddrOf[be[r]]] = <<>>
      BY Zenon, <2>1 DEF PopMiss, connVars, Queue, PoolKey
    <3>2. CASE AddrOf[be[r]] = x
      <4>1. Len(pool'[x]) = 0
        BY Zenon, <3>1, <3>2
      <4>2. Cardinality(Taken(x)') <= Cardinality(Requests)
        BY Zenon, <1>c, RequestSets
      <4>. QED
        BY SMTT(30), <1>c, <4>1, <4>2
    <3>3. CASE AddrOf[be[r]] # x
      <4>0. Past(x)' \subseteq Past(x)
        BY Zenon, <2>0, <3>1, <3>3 DEF Past
      <4>1. Taken(x)' \subseteq Taken(x)
        BY Zenon, <1>2, <4>0 DEF Taken
      <4>. QED
        BY SMTT(30), <1>0, <1>1, <3>1, <4>1
    <3>. QED
      BY Zenon, <3>2, <3>3
  <2>2. CASE PopHit(r)
    <3>1. be' = be /\ pc[r] = "pop"
      BY Zenon, <2>2 DEF PopHit
    <3>2. PICK a \in Addrs : a = AddrOf[be[r]]
      BY Zenon, <3>1, HasBackend
    <3>3. pool[a] # <<>> /\ pool' = [pool EXCEPT ![a] = Tail(@)]
      BY Zenon, <2>2, <3>2 DEF PopHit, Queue, PoolKey
    <3>4. Len(pool'[a]) = Len(pool[a]) - 1 /\ \A y \in Addrs : y # a => pool'[y] = pool[y]
      BY Zenon, <3>3, PoolTail
    <3>5. CASE x = a
      <4>0. Past(x)' \subseteq Past(x) \cup {r}
        BY Zenon, <2>0, <3>1 DEF Past
      <4>1. Taken(x)' \subseteq Taken(x) \cup {r}
        BY Zenon, <1>2, <4>0 DEF Taken
      <4>2. Cardinality(Taken(x) \cup {r}) <= Cardinality(Taken(x)) + 1
        BY Zenon, <1>c, AtMostOneMore
      <4>3. Taken(x) \cup {r} \in SUBSET Requests
        BY Zenon, <1>c
      <4>4. Cardinality(Taken(x)') <= Cardinality(Taken(x) \cup {r})
        BY Zenon, <4>1, <4>3, FewerRequests
      <4>5. Cardinality(Taken(x) \cup {r}) \in Nat
        BY Zenon, <4>3, RequestSets
      <4>. QED
        BY SMTT(30), <1>0, <1>c, <1>s, <3>4, <3>5, <4>2, <4>4, <4>5
    <3>6. CASE x # a
      <4>0. Past(x)' \subseteq Past(x)
        BY Zenon, <2>0, <3>1, <3>2, <3>6 DEF Past
      <4>1. Taken(x)' \subseteq Taken(x)
        BY Zenon, <1>2, <4>0 DEF Taken
      <4>. QED
        BY SMTT(30), <1>0, <1>1, <3>4, <3>6, <4>1
    <3>. QED
      BY Zenon, <3>5, <3>6
  <2>3. CASE Push(r) /\ conn[held[r]] # "closed"
    <3>1. be' = [be EXCEPT ![r] = None] /\ pc[r] = "push"
      BY Zenon, <2>3 DEF Push, Return
    <3>2. PICK a \in Addrs : a = AddrOf[be[r]] /\ be[r] # None
      BY Zenon, <3>1, HasBackend, PipelineAssumption
    <3>3. PICK c \in Conns : c = held[r]
      BY Zenon, <3>1, HasSender
    <3>4. pool' = [pool EXCEPT ![a] = Append(@, c)]
      BY Zenon, <2>3, <3>2, <3>3 DEF Push, PoolPush, PoolKey
    <3>5. Len(pool'[a]) = Len(pool[a]) + 1 /\ \A y \in Addrs : y # a => pool'[y] = pool[y]
      BY Zenon, <3>4, PoolAppend
    <3>6. be'[r] = None
      BY Zenon, <1>0, <3>1
    <3>7. CASE x = a
      <4>0. r \in Past(x) /\ Past(x)' \subseteq Past(x) \ {r}
        BY Zenon, <2>0, <3>1, <3>2, <3>6, <3>7 DEF Past
      <4>1. r \in Taken(x) /\ Taken(x)' \subseteq Taken(x) \ {r}
        BY Zenon, <1>2, <2>d, <3>1, <4>0 DEF Taken
      <4>2. Cardinality(Taken(x) \ {r}) = Cardinality(Taken(x)) - 1
        BY Zenon, <1>c, <4>1, OneLess
      <4>3. Taken(x) \ {r} \in SUBSET Requests
        BY Zenon, <1>c
      <4>4. Cardinality(Taken(x)') <= Cardinality(Taken(x) \ {r})
        BY Zenon, <4>1, <4>3, FewerRequests
      <4>. QED
        BY SMTT(30), <1>0, <1>c, <1>s, <3>5, <3>7, <4>2, <4>4
    <3>8. CASE x # a
      <4>0. Past(x)' \subseteq Past(x)
        BY Zenon, <2>0, <3>6 DEF Past
      <4>1. Taken(x)' \subseteq Taken(x)
        BY Zenon, <1>2, <4>0 DEF Taken
      <4>. QED
        BY SMTT(30), <1>0, <1>1, <3>5, <3>8, <4>1
    <3>. QED
      BY Zenon, <3>7, <3>8
  <2>4. ASSUME UNCHANGED pool \/ PopDead(r),
               be'[r] = None \/ pc'[r] = "pop" \/ (be'[r] = be[r] /\ pc[r] # "pop")
        PROVE  Len(pool'[x]) + Cardinality(Taken(x)') <= Cardinality(Requests)
    <3>0. Past(x)' \subseteq Past(x)
      BY Zenon, <2>0, <2>4 DEF Past
    <3>1. Taken(x)' \subseteq Taken(x)
      BY Zenon, <1>2, <3>0 DEF Taken
    <3>2. Len(pool'[x]) \in Nat /\ Len(pool'[x]) <= Len(pool[x])
      <4>1. CASE UNCHANGED pool
        BY SMTT(30), <1>0, <4>1
      <4>2. CASE PopDead(r)
        <5>1. PICK a \in Addrs : a = AddrOf[be[r]]
          BY Zenon, <4>2, HasBackend DEF PopDead
        <5>2. pool[a] # <<>> /\ pool' = [pool EXCEPT ![a] = Tail(@)]
          BY Zenon, <4>2, <5>1 DEF PopDead, Queue, PoolKey
        <5>3. /\ Len(pool'[a]) = Len(pool[a]) - 1 /\ 1 \in 1..Len(pool[a])
              /\ \A y \in Addrs : y # a => pool'[y] = pool[y]
          BY Zenon, <5>2, PoolTail
        <5>. QED
          BY SMTT(30), <1>0, <5>3
      <4>. QED
        BY Zenon, <2>4, <4>1, <4>2
    <3>. QED
      BY Zenon, <1>1, <3>1, <3>2
  <2>. QED
    BY Zenon, <1>2, <2>1, <2>2, <2>3, <2>4, RoomCases
<1>3. ASSUME NEW r \in Requests, Cancel(r), held[r] # None, NEW q \in Requests,
             NEW x \in Addrs, x = AddrOf[be[r]], Draining(x)' \subseteq Draining(x) \cup {q}
      PROVE  Len(pool'[x]) + Cardinality(Taken(x)') <= Cardinality(Requests)
  <2>0. \A t \in Requests : t # r => pc'[t] = pc[t] /\ be'[t] = be[t]
    BY Zenon, <1>3, OthersKeep
  <2>1. /\ pool' = pool /\ be' = [be EXCEPT ![r] = None]
        /\ be[r] # None /\ pc[r] # "pop" /\ pc[r] # "idle"
    BY Zenon, <1>3 DEF Cancel, Return, CallShape
  <2>2. be'[r] = None
    BY Zenon, <1>0, <2>1
  <2>3. r \in Past(x) /\ Past(x)' \subseteq Past(x) \ {r}
    BY Zenon, <1>3, <2>0, <2>1, <2>2 DEF Past
  <2>4. r \notin Draining(x)
    BY Zenon, <2>1, NotDraining
  <2> DEFINE S == Taken(x) \ {r}
  <2>5. r \in Taken(x) /\ Taken(x)' \subseteq S \cup {q}
    BY Zenon, <1>3, <2>3, <2>4 DEF Taken
  <2>6. S \in SUBSET Requests /\ S \cup {q} \in SUBSET Requests
    BY Zenon, <1>c
  <2>7. Cardinality(S) = Cardinality(Taken(x)) - 1
    BY Zenon, <1>c, <2>5, OneLess
  <2>. HIDE DEF S
  <2>8. Cardinality(S \cup {q}) <= Cardinality(S) + 1
    BY Zenon, <2>6, AtMostOneMore
  <2>9. Cardinality(Taken(x)') <= Cardinality(S \cup {q})
    BY Zenon, <2>5, <2>6, FewerRequests
  <2>10. Cardinality(S) \in Nat /\ Cardinality(S \cup {q}) \in Nat
    BY Zenon, <2>6, RequestSets
  <2>11. Cardinality(Taken(x)') <= Cardinality(Taken(x))
    BY SMTT(30), <1>c, <2>7, <2>8, <2>9, <2>10
  <2>. QED
    BY SMTT(30), <1>0, <1>c, <1>s, <2>1, <2>11
<1>4. ASSUME NEW r \in Requests, Arrive(r) \/ CallStep(r) \/ Cancel(r), NEW x \in Addrs
      PROVE  Len(pool'[x]) + Cardinality(Taken(x)') <= Cardinality(Requests)
  BY Zenon, <1>2, <1>3, <1>4, DrainCases
<1>5. ASSUME UNCHANGED <<callVars, active, pool>>, NEW x \in Addrs,
             \A c \in Conns : conn'[c] = "draining" =>
                 /\ conn[c] = "draining" /\ peer'[c] = peer[c]
                 /\ exchanges'[c] = exchanges[c]
      PROVE  Len(pool'[x]) + Cardinality(Taken(x)') <= Cardinality(Requests)
  <2>1. Past(x)' = Past(x) /\ pool' = pool
    BY Zenon, <1>5 DEF callVars, Past
  <2>2. Draining(x)' \subseteq Draining(x)
    BY Zenon, <1>5 DEF Draining, DrainSet
  <2>3. Taken(x)' \subseteq Taken(x)
    BY Zenon, <2>1, <2>2 DEF Taken
  <2>. QED
    BY SMTT(30), <1>0, <1>1, <2>1, <2>3
<1>6. ASSUME NEW c \in Conns, NEW state \in {"idle", "closed"}, Settle(c, state)
      PROVE  \A d \in Conns : conn'[d] = "draining" =>
                 /\ conn[d] = "draining" /\ peer'[d] = peer[d]
                 /\ exchanges'[d] = exchanges[d]
  <2>1. /\ conn \in [Conns -> ConnStates]
        /\ peer \in [Conns -> Addrs \cup {None}]
        /\ exchanges \in [Conns -> SUBSET Requests]
    BY Zenon DEF TypeOK
  <2>2. /\ conn'[c] # "draining"
        /\ \A d \in Conns : d # c => /\ conn'[d] = conn[d] /\ peer'[d] = peer[d]
                                     /\ exchanges'[d] = exchanges[d]
    BY Zenon, <1>6, <2>1 DEF Settle
  <2>. QED
    BY Zenon, <2>2
<1>7. ASSUME UNCHANGED <<callVars, active, pool>>, NEW x \in Addrs,
             \/ UNCHANGED <<conn, peer, exchanges>>
             \/ \E c \in Conns, state \in {"idle", "closed"} : Settle(c, state)
      PROVE  Len(pool'[x]) + Cardinality(Taken(x)') <= Cardinality(Requests)
  BY Zenon, <1>5, <1>6, <1>7
<1>. QED
  BY Zenon, <1>4, <1>7, OutsideSteps DEF QueueRoom

-----------------------------------------------------------------------------
(***************************************************************************)
(* The invariant and what it says.                                         *)
(***************************************************************************)
\* It holds initially.
LEMMA PipelineInitial ==
  ASSUME Init
  PROVE  TypeOK /\ PipelineInv
<1>1. TypeOK
  BY SMTT(30), PipelineAssumption DEF Init, TypeOK, Locations, Replies, ConnStates
<1>2. CallShape /\ EffectsMatchReply /\ ConnShape /\ SenderOwned /\ NoLeak
  BY SMTT(30), PipelineAssumption
  DEF Init, CallShape, EffectsMatchReply, EffectsOf, ConnShape, SenderOwned, NoLeak
<1>5. ExchangeShape /\ NoSender
  BY Zenon DEF Init, ExchangeShape, OneExchange, NoSender, DrainSet
<1>3. GuardBalance
  <2>1. \A b \in Backends : {r \in Requests : be[r] = b} = {} /\ active[b] = 0
    BY Zenon, PipelineAssumption DEF Init
  <2>. QED
    BY Zenon, <2>1, FS_EmptySet DEF GuardBalance
<1>4. QueueRoom
  <2>1. \A a \in Addrs : Taken(a) = {} /\ Len(pool[a]) = 0
    <3>1. \A a \in Addrs : Past(a) = {}
      BY Zenon DEF Init, Past
    <3>2. \A a \in Addrs : Draining(a) = {}
      BY Zenon DEF Init, Draining, DrainSet
    <3>3. \A a \in Addrs : Len(pool[a]) = 0
      BY Zenon DEF Init
    <3>. QED
      BY Zenon, <3>1, <3>2, <3>3 DEF Taken
  <2>2. Cardinality(Requests) \in Nat
    BY Zenon, RequestSets
  <2>3. \A a \in Addrs : Cardinality(Taken(a)) = 0
    BY Zenon, <2>1, FS_EmptySet
  <2>4. \A n \in Nat : 0 + 0 <= n
    OBVIOUS
  <2>. QED
    BY Zenon, <2>1, <2>2, <2>3, <2>4 DEF QueueRoom
<1>. QED
  BY Zenon, <1>1, <1>2, <1>3, <1>4, <1>5 DEF PipelineInv

\* Every step preserves it.
LEMMA PipelineStep ==
  ASSUME TypeOK, PipelineInv, [Next]_vars
  PROVE  TypeOK' /\ PipelineInv'
<1>. USE DEF PipelineInv
<1>1. TypeOK'
  BY Zenon, TypeStep, GuardStep
<1>2. CallShape' /\ EffectsMatchReply'
  BY Zenon, ShapeStep
<1>3. GuardBalance'
  BY Zenon, GuardStep
<1>4. ConnShape' /\ ExchangeShape' /\ SenderOwned' /\ NoSender' /\ NoLeak'
  BY Zenon, ConnStep, ExchangeStep, SenderStep, DrainStep, LeakStep
<1>5. QueueRoom'
  BY Zenon, RoomStep
<1>. QED
  BY Zenon, <1>1, <1>2, <1>3, <1>4, <1>5

\* So it holds throughout.
LEMMA PipelineInvariant == Spec => [](TypeOK /\ PipelineInv)
<1>1. Init => TypeOK /\ PipelineInv
  BY Zenon, PipelineInitial
<1>2. (TypeOK /\ PipelineInv) /\ [Next]_vars => (TypeOK /\ PipelineInv)'
  BY Zenon, PipelineStep
<1>. QED
  BY <1>1, <1>2, PTL DEF Spec

\* A set that a function covers is no larger than its domain.
LEMMA Covered ==
  ASSUME NEW S, IsFiniteSet(S), NEW T, NEW f \in [S -> T], \A t \in T : \E x \in S : f[x] = t
  PROVE  IsFiniteSet(T) /\ Cardinality(T) <= Cardinality(S)
<1>1. f \in Surjection(S, T)
  BY Zenon DEF Surjection
<1>. QED
  BY Zenon, <1>1, FS_Surjection

\* Every connection to an address stands for a pooled sender, for a call past the
\* pool or for a response it still delivers.
LEMMA Bounded ==
  ASSUME TypeOK, CallShape, ConnShape, ExchangeShape, SenderOwned, NoSender, NoLeak, QueueRoom
  PROVE  PoolBounded
<1>1. ASSUME NEW a \in Addrs
      PROVE  Cardinality({c \in Conns : peer[c] = a}) <= Cardinality(Requests)
  <2> DEFINE C == {c \in Conns : peer[c] = a}
             P == {pool[a][i] : i \in 1..Len(pool[a])}
             On(r) == IF r \in Past(a) THEN held[r] ELSE CHOOSE c \in Conns : r \in exchanges[c]
             H == {On(r) : r \in Taken(a)}
  <2>1. C \subseteq P \cup H
    <3>1. ASSUME NEW c \in C
          PROVE  c \in P \cup H
      <4>1. c \in Conns /\ peer[c] = a /\ a # None /\ c # None
        BY Zenon, PipelineAssumption
      <4>2. ASSUME NEW r \in Requests, held[r] = c
            PROVE  r \in Past(a)
        <5>1. AddrOf[be[r]] = a
          BY Zenon, <4>1, <4>2 DEF SenderOwned
        <5>2. be[r] # None /\ pc[r] # "pop"
          BY Zenon, <4>1, <4>2 DEF CallShape
        <5>. QED
          BY Zenon, <5>1, <5>2 DEF Past
      <4>3. ASSUME c \in DrainSet
            PROVE  c \in H
        <5>1. PICK q \in exchanges[c] : TRUE
          BY Zenon, <4>1, <4>3 DEF ConnShape, DrainSet
        <5>2. q \in Requests
          BY Zenon, <4>1, <5>1 DEF TypeOK
        <5>3. q \in Draining(a)
          BY Zenon, <4>1, <4>3, <5>1, <5>2 DEF Draining
        <5>4. pc[q] = "idle"
          BY Zenon, <5>2, <5>3, NotDraining
        <5>5. q \notin Past(a)
          BY Zenon, <5>2, <5>4 DEF CallShape, Past
        <5>6. \A d \in Conns : q \in exchanges[d] => d = c
          BY Zenon, <4>1, <5>1 DEF ExchangeShape
        <5>7. On(q) = c
          BY Zenon, <4>1, <5>1, <5>5, <5>6
        <5>8. q \in Taken(a)
          BY Zenon, <5>3 DEF Taken
        <5>. QED
          BY Zenon, <5>7, <5>8
      <4>4. ASSUME NEW r \in Requests, held[r] = c
            PROVE  c \in H
        <5>1. r \in Past(a) /\ r \in Taken(a)
          BY Zenon, <4>2, <4>4 DEF Taken
        <5>2. On(r) = c
          BY Zenon, <4>4, <5>1
        <5>. QED
          BY Zenon, <5>1, <5>2
      <4>. QED
        BY Zenon, <4>1, <4>3, <4>4 DEF NoLeak
    <3>. QED
      BY Zenon, <3>1
  <2>2. Len(pool[a]) \in Nat
    BY SMTT(30) DEF TypeOK
  <2>3. IsFiniteSet(P) /\ Cardinality(P) <= Len(pool[a])
    <3>1. IsFiniteSet(1..Len(pool[a])) /\ Cardinality(1..Len(pool[a])) = Len(pool[a])
      <4>1. PICK n \in Nat : n = Len(pool[a])
        BY Zenon, <2>2
      <4>2. IsFiniteSet(1..n) /\ Cardinality(1..n) = IF 1 > n THEN 0 ELSE n - 1 + 1
        BY SMTT(30), FS_Interval
      <4>3. Cardinality(1..n) = n
        BY SMTT(30), <4>2
      <4>. QED
        BY Zenon, <4>1, <4>2, <4>3
    <3>2. [i \in 1..Len(pool[a]) |-> pool[a][i]] \in [1..Len(pool[a]) -> P]
      OBVIOUS
    <3>3. \A t \in P : \E x \in 1..Len(pool[a]) : [i \in 1..Len(pool[a]) |-> pool[a][i]][x] = t
      OBVIOUS
    <3>4. IsFiniteSet(P) /\ Cardinality(P) <= Cardinality(1..Len(pool[a]))
      BY Zenon, <3>1, <3>2, <3>3, Covered
    <3>. QED
      BY Zenon, <3>1, <3>4
  <2>4. IsFiniteSet(H) /\ Cardinality(H) <= Cardinality(Taken(a))
    <3>1. Taken(a) \in SUBSET Requests
      BY Zenon DEF Taken, Past, Draining
    <3>2. IsFiniteSet(Taken(a))
      BY Zenon, <3>1, RequestSets
    <3>3. [r \in Taken(a) |-> On(r)] \in [Taken(a) -> H]
      OBVIOUS
    <3>4. \A t \in H : \E x \in Taken(a) : [r \in Taken(a) |-> On(r)][x] = t
      OBVIOUS
    <3>. QED
      BY Zenon, <3>2, <3>3, <3>4, Covered
  <2>5. /\ Cardinality(P) \in Nat /\ Cardinality(H) \in Nat
        /\ Cardinality(P \cap H) \in Nat
        /\ Cardinality(P \cup H) \in Nat /\ IsFiniteSet(P \cup H)
        /\ Cardinality(P \cup H) = Cardinality(P) + Cardinality(H) - Cardinality(P \cap H)
    <3>1. /\ IsFiniteSet(P \cup H)
          /\ Cardinality(P \cup H) = Cardinality(P) + Cardinality(H) - Cardinality(P \cap H)
      BY Zenon, <2>3, <2>4, FS_Union
    <3>2. IsFiniteSet(P \cap H)
      <4>1. P \cap H \in SUBSET P
        OBVIOUS
      <4>. QED
        BY Zenon, <2>3, <4>1, FS_Subset
    <3>. QED
      BY Zenon, <2>3, <2>4, <3>1, <3>2, FS_CardinalityType
  <2>6. Cardinality(C) <= Cardinality(P \cup H) /\ Cardinality(C) \in Nat
    <3>1. IsFiniteSet(C) /\ Cardinality(C) <= Cardinality(P \cup H)
      BY Zenon, <2>1, <2>5, FS_Subset
    <3>. QED
      BY Zenon, <3>1, FS_CardinalityType
  <2>7. Len(pool[a]) + Cardinality(Taken(a)) <= Cardinality(Requests)
    BY Zenon DEF QueueRoom
  <2>8. Cardinality(Taken(a)) \in Nat /\ Cardinality(Requests) \in Nat
    <3>1. Taken(a) \in SUBSET Requests
      BY Zenon DEF Taken, Past, Draining
    <3>. QED
      BY Zenon, <3>1, RequestSets
  <2>. HIDE DEF C, P, On, H
  <2>9. Cardinality(C) <= Cardinality(Requests)
    BY SMTT(30), <2>2, <2>3, <2>4, <2>5, <2>6, <2>7, <2>8
  <2>. QED
    BY Zenon, <2>9 DEF C
<1>. QED
  BY Zenon, <1>1 DEF PoolBounded

\* Type correctness: in particular no path out of forward_request lowers a gauge
\* below zero.
THEOREM PipelineTypeCorrect == Spec => []TypeOK
BY PipelineInvariant, PTL

\* The active-request gauge of every backend counts the calls that hold a guard
\* on it, whatever the interleaving of calls, reloads and cancellations.
THEOREM GuardsBalanced == Spec => []GuardBalance
<1>1. PipelineInv => GuardBalance
  BY Zenon DEF PipelineInv
<1>. QED
  BY <1>1, PipelineInvariant, PTL

\* What a call recorded with the breaker and the ban manager matches its answer.
THEOREM EffectsMatch == Spec => []EffectsMatchReply
<1>1. PipelineInv => EffectsMatchReply
  BY Zenon DEF PipelineInv
<1>. QED
  BY <1>1, PipelineInvariant, PTL

\* A pooled or held sender has one owner and leads to its owner's address.
THEOREM SendersOwned == Spec => []SenderOwned
<1>1. PipelineInv => SenderOwned
  BY Zenon DEF PipelineInv
<1>. QED
  BY <1>1, PipelineInvariant, PTL

\* No two responses share a connection.
THEOREM OneExchangeHolds == Spec => []OneExchange
<1>1. PipelineInv => OneExchange
  BY Zenon DEF PipelineInv, ExchangeShape
<1>. QED
  BY <1>1, PipelineInvariant, PTL

\* The pool has no limit, but the connections to an address, those that deliver a
\* response after their sender was dropped included, never outnumber the requests
\* in flight together (until the end of their bodies).
THEOREM PoolBoundedHolds == Spec => []PoolBounded
<1>1. TypeOK /\ PipelineInv => PoolBounded
  BY Zenon, Bounded DEF PipelineInv
<1>. QED
  BY <1>1, PipelineInvariant, PTL

=============================================================================
