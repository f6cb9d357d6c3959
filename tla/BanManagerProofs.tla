-------------------------- MODULE BanManagerProofs --------------------------
(***************************************************************************)
(* Proofs about the ban manager for any set of addresses, any number of    *)
(* request tasks and any capacity of the kernel map.                       *)
(***************************************************************************)
EXTENDS BanManager, TLAPS

\* The values of an octet.
Octet == 0..255

\* The number that four octets make up, most significant first.
Number(w, x, y, z) == w * 16777216 + x * 65536 + y * 256 + z

(***************************************************************************)
(* Distinct IPv4 addresses have distinct keys in the kernel map: blocking  *)
(* or unblocking one never touches another.                                *)
(***************************************************************************)
LEMMA KeysDistinct ==
  ASSUME NEW a \in V4, NEW b \in V4, IpBytes(a) = IpBytes(b)
  PROVE  a = b
<1>1. a \in [1..4 -> Octet] /\ b \in [1..4 -> Octet]
  BY AddressAssumption DEF Octet
<1>2. PICK a1 \in Octet : a1 = a[1]
  BY <1>1
<1>3. PICK a2 \in Octet : a2 = a[2]
  BY <1>1
<1>4. PICK a3 \in Octet : a3 = a[3]
  BY <1>1
<1>5. PICK a4 \in Octet : a4 = a[4]
  BY <1>1
<1>6. PICK b1 \in Octet : b1 = b[1]
  BY <1>1
<1>7. PICK b2 \in Octet : b2 = b[2]
  BY <1>1
<1>8. PICK b3 \in Octet : b3 = b[3]
  BY <1>1
<1>9. PICK b4 \in Octet : b4 = b[4]
  BY <1>1
<1>10. Number(a[1], a[2], a[3], a[4]) = Number(b[1], b[2], b[3], b[4])
  BY SMT DEF IpBytes, from_be_bytes, Number
<1>11. Number(a1, a2, a3, a4) = Number(b1, b2, b3, b4)
  BY <1>2, <1>3, <1>4, <1>5, <1>6, <1>7, <1>8, <1>9, <1>10, Zenon
<1>12. /\ a1 \in Nat /\ a2 \in Nat /\ a3 \in Nat /\ a4 \in Nat
       /\ b1 \in Nat /\ b2 \in Nat /\ b3 \in Nat /\ b4 \in Nat
       /\ a2 <= 255 /\ a3 <= 255 /\ a4 <= 255
       /\ b2 <= 255 /\ b3 <= 255 /\ b4 <= 255
  BY SMT DEF Octet
<1>13. a1 = b1
  BY <1>11, <1>12, SMTT(30) DEF Number
<1>14. a2 = b2
  BY <1>11, <1>12, <1>13, SMTT(30) DEF Number
<1>15. a3 = b3
  BY <1>11, <1>12, <1>13, <1>14, SMTT(30) DEF Number
<1>16. a4 = b4
  BY <1>11, <1>12, <1>13, <1>14, <1>15, SMTT(30) DEF Number
<1>17. a[1] = b[1] /\ a[2] = b[2] /\ a[3] = b[3] /\ a[4] = b[4]
  BY <1>2, <1>3, <1>4, <1>5, <1>6, <1>7, <1>8, <1>9,
     <1>13, <1>14, <1>15, <1>16, Zenon
<1>18. \A i \in 1..4 : i = 1 \/ i = 2 \/ i = 3 \/ i = 4
  BY SMT
<1>19. \A i \in 1..4 : a[i] = b[i]
  BY <1>17, <1>18, Zenon
<1>. QED
  BY SMTT(30), <1>1, <1>19

LEMMA KeyType == \A ip \in V4 : IpBytes(ip) \in Nat
<1>. SUFFICES ASSUME NEW ip \in V4 PROVE IpBytes(ip) \in Nat
  OBVIOUS
<1>1. ip[1] \in Nat /\ ip[2] \in Nat /\ ip[3] \in Nat /\ ip[4] \in Nat
  BY SMTT(30), AddressAssumption
<1>. QED
  BY <1>1, SMT DEF IpBytes, from_be_bytes

(***************************************************************************)
(* Type correctness of the kernel map, banned_ips and every task.          *)
(***************************************************************************)
THEOREM TypeCorrect == Spec => []TypeOK
<1>1. Init => TypeOK
  BY DEF Init, TypeOK
<1>2. TypeOK /\ [Next]_vars => TypeOK'
  <2>. SUFFICES ASSUME TypeOK, [Next]_vars PROVE TypeOK'
    OBVIOUS
  <2>. USE AddressAssumption, BanAssumption DEF TypeOK
  <2>1. CASE Tick
    BY <2>1 DEF Tick
  <2>2. ASSUME NEW k \in Tasks, NEW ip \in Ips, BanIp(k, ip) PROVE TypeOK'
    <3>1. (BLOCKED_IPS \subseteq Nat)'
      <4>1. \/ BLOCKED_IPS' = BLOCKED_IPS
            \/ ip \in V4 /\ BLOCKED_IPS' = BLOCKED_IPS \cup {IpBytes(ip)}
        BY <2>2, Zenon DEF BanIp, BlockIp
      <4>2. ip \in V4 => IpBytes(ip) \in Nat
        BY KeyType
      <4>. QED
        BY Zenon, <4>1, <4>2
    <3>2. (pc \in [Tasks -> {"idle", "stamp", "insert"}] /\ target \in [Tasks -> Ips \cup {None}])'
      BY <2>2 DEF BanIp
    <3>3. (raced \in [Ips -> BOOLEAN] /\ calls \in Nat)'
      BY <2>2 DEF BanIp
    <3>4. UNCHANGED <<banned_ips, now, expiry, sweeper, sweepNow, unvisited, victim>>
      BY <2>2 DEF BanIp
    <3>. QED
      BY <3>1, <3>2, <3>3, <3>4
  <2>3. ASSUME NEW k \in Tasks, Stamp(k) PROVE TypeOK'
    BY <2>3 DEF Stamp
  <2>4. ASSUME NEW k \in Tasks, Insert(k) PROVE TypeOK'
    <3>1. expiry[k] \in Nat \cup {None} /\ 0 \in Nat
      BY SMT
    <3>2. (banned_ips \in [Ips -> Nat \cup {None}])'
      BY Zenon, <2>4, <3>1 DEF Insert
    <3>3. (pc \in [Tasks -> {"idle", "stamp", "insert"}] /\ target \in [Tasks -> Ips \cup {None}])'
      BY Zenon, <2>4 DEF Insert
    <3>4. (expiry \in [Tasks -> Nat])'
      BY Zenon, <2>4, <3>1 DEF Insert
    <3>5. UNCHANGED <<BLOCKED_IPS, now, sweeper, sweepNow, unvisited, victim, calls, raced>>
      BY Zenon, <2>4 DEF Insert
    <3>. QED
      BY Zenon, <3>2, <3>3, <3>4, <3>5
  <2>5. CASE Sweep
    BY <2>5 DEF Sweep
  <2>6. ASSUME NEW ip \in Ips, SweepKeep(ip) PROVE TypeOK'
    BY <2>6 DEF SweepKeep
  <2>7. ASSUME NEW ip \in Ips, SweepUnblock(ip) PROVE TypeOK'
    BY Zenon, <2>7 DEF SweepUnblock, UnblockIp
  <2>8. CASE SweepRemove
    BY Zenon, <2>8 DEF SweepRemove
  <2>9. CASE SweepEnd
    BY <2>9 DEF SweepEnd
  <2>10. CASE UNCHANGED vars
    BY <2>10 DEF vars
  <2>. QED
    BY <2>1, <2>2, <2>3, <2>4, <2>5, <2>6, <2>7, <2>8, <2>9, <2>10
       DEF Next, TaskStep, SweeperStep
<1>. QED
  BY <1>1, <1>2, PTL DEF Spec

(***************************************************************************)
(* The inductive invariant: the kernel map and banned_ips agree on every   *)
(* address except inside a ban_ip call or the sweeper's removal, or after  *)
(* a sweep overtook a ban_ip call.                                         *)
(***************************************************************************)
LEMMA BanInvariant == Spec => []BanInv
<1>. USE DEF BanInv, NoOrphanBlock, UnbackedOnlyByRace, VictimUnblocked, BanningBacked,
             TargetKnown, IsIpBlocked, Banning
<1>1. Init => BanInv
  BY Zenon, AddressAssumption DEF Init, Ips
<1>2. TypeOK /\ BanInv /\ [Next]_vars => BanInv'
  <2>. SUFFICES ASSUME TypeOK, BanInv, [Next]_vars PROVE BanInv'
    OBVIOUS
  <2>. USE AddressAssumption, BanAssumption DEF TypeOK, Ips
  <2>1. CASE Tick
    BY Zenon, <2>1 DEF Tick
  <2>2. ASSUME NEW k \in Tasks, NEW ip \in Ips, BanIp(k, ip) PROVE BanInv'
    <3>1. \A a \in V4 : a # ip => (IpBytes(a) \in BLOCKED_IPS' <=> IpBytes(a) \in BLOCKED_IPS)
      BY SMTT(30), <2>2, KeysDistinct DEF BanIp, BlockIp
    <3>2. ip \in V4 => IpBytes(ip) \in BLOCKED_IPS'
      BY SMTT(30), <2>2 DEF BanIp, BlockIp
    <3>3. pc'[k] = "stamp" /\ target'[k] = ip /\ pc[k] = "idle"
      BY SMTT(30), <2>2 DEF BanIp
    <3>4. \A l \in Tasks : l # k => pc'[l] = pc[l] /\ target'[l] = target[l]
      BY SMTT(30), <2>2 DEF BanIp
    <3>5. \A a \in Ips : a # ip => raced'[a] = raced[a]
      BY Zenon, <2>2 DEF BanIp
    <3>6. UNCHANGED <<banned_ips, sweeper, victim>>
      BY Zenon, <2>2 DEF BanIp
    <3>7. NoOrphanBlock'
      BY SMTT(30), <3>1, <3>3, <3>4, <3>6
    <3>8. UnbackedOnlyByRace'
      BY SMTT(30), <3>1, <3>2, <3>5, <3>6
    <3>9. VictimUnblocked'
      BY Zenon, <3>1, <3>3, <3>4, <3>6
    <3>10. BanningBacked'
      BY SMTT(30), <3>1, <3>2, <3>3, <3>4, <3>5
    <3>11. TargetKnown'
      BY Zenon, <3>3, <3>4
    <3>. QED
      BY Zenon, <3>7, <3>8, <3>9, <3>10, <3>11
  <2>3. ASSUME NEW k \in Tasks, Stamp(k) PROVE BanInv'
    BY SMTT(30), <2>3 DEF Stamp
  <2>4. ASSUME NEW k \in Tasks, Insert(k) PROVE BanInv'
    BY SMTT(30), <2>4 DEF Insert
  <2>5. CASE Sweep
    BY Zenon, <2>5 DEF Sweep
  <2>6. ASSUME NEW ip \in Ips, SweepKeep(ip) PROVE BanInv'
    BY Zenon, <2>6 DEF SweepKeep
  <2>7. ASSUME NEW ip \in Ips, SweepUnblock(ip) PROVE BanInv'
    <3>1. \A a \in V4 : a # ip => (IpBytes(a) \in BLOCKED_IPS' <=> IpBytes(a) \in BLOCKED_IPS)
      BY Zenon, <2>7, KeysDistinct DEF SweepUnblock, UnblockIp
    <3>2. ip \in V4 => IpBytes(ip) \notin BLOCKED_IPS'
      BY Zenon, <2>7 DEF SweepUnblock, UnblockIp
    <3>3. UNCHANGED <<banned_ips, pc, target>> /\ sweeper' = "removing" /\ victim' = ip
      BY Zenon, <2>7 DEF SweepUnblock
    <3>4. /\ \A a \in Ips : a # ip => raced'[a] = raced[a]
          /\ (\E k \in Tasks : Banning(k, ip)) => raced'[ip]
      BY Zenon, <2>7 DEF SweepUnblock
    <3>5. sweeper # "removing"
      BY Zenon, <2>7 DEF SweepUnblock
    <3>. QED
      BY SMTT(30), <3>1, <3>2, <3>3, <3>4, <3>5
  <2>8. CASE SweepRemove
    BY Zenon, <2>8 DEF SweepRemove
  <2>9. CASE SweepEnd
    BY Zenon, <2>9 DEF SweepEnd
  <2>10. CASE UNCHANGED vars
    BY <2>10 DEF vars
  <2>. QED
    BY <2>1, <2>2, <2>3, <2>4, <2>5, <2>6, <2>7, <2>8, <2>9, <2>10
       DEF Next, TaskStep, SweeperStep
<1>. QED
  BY <1>1, <1>2, TypeCorrect, PTL DEF Spec

(***************************************************************************)
(* No interleaving of ban_ip calls and sweeps leaves a kernel block that   *)
(* the sweeper cannot find.                                                *)
(***************************************************************************)
THEOREM NoOrphanBlockHolds == Spec => []NoOrphanBlock
<1>1. BanInv => NoOrphanBlock
  BY DEF BanInv
<1>. QED
  BY <1>1, BanInvariant, PTL

(***************************************************************************)
(* The only way to an entry of banned_ips without its kernel block is a    *)
(* sweep of the same address between a ban_ip call's block and its insert. *)
(***************************************************************************)
THEOREM UnbackedOnlyByRaceHolds == Spec => []UnbackedOnlyByRace
<1>1. BanInv => UnbackedOnlyByRace
  BY DEF BanInv
<1>. QED
  BY <1>1, BanInvariant, PTL

=============================================================================
