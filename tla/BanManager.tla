----------------------------- MODULE BanManager -----------------------------
(***************************************************************************)
(* Kernel-level IP bans: BanManager (vortex-proxy/src/ban_manager.rs) over *)
(* the XDP limiter (vortex-ebpf/src/linux.rs) and the eBPF program that    *)
(* filters packets (vortex-ebpf/bpf/xdp_drop.c).                           *)
(*                                                                         *)
(* Request tasks call ban_ip concurrently with each other and with the     *)
(* sweeper task.  The kernel map is changed under the limiter's mutex and  *)
(* banned_ips under the lock of a DashMap shard, but nothing makes a call  *)
(* that changes both atomic.  The module models the manager with a loaded  *)
(* limiter; with `limiter: None` ban_ip and the sweeper return at once.    *)
(***************************************************************************)
EXTENDS Naturals, FiniteSets

CONSTANTS
    V4, V6,        \* client addresses; an IPv4 address is its four octets
    Tasks,         \* request tasks that may ban their client
    BanDuration,   \* the 300 s of forward_request
    MaxEntries,    \* capacity of the kernel map (100000 in xdp_drop.c)
    LittleEndian,  \* byte order of the host
    None,          \* no entry, or no address
    MaxBans,       \* bound: number of ban_ip calls
    LastBan,       \* bound: no ban_ip call starts after this time
    MaxTime        \* bound: the clock stops here

Ips == V4 \cup V6

ASSUME AddressAssumption ==
    /\ V4 \subseteq [1..4 -> 0..255]
    /\ V4 \cap V6 = {}
    /\ None \notin Ips
ASSUME BanAssumption ==
    /\ BanDuration \in Nat
    /\ None \notin Nat

VARIABLES
    BLOCKED_IPS,   \* keys of the kernel map
    banned_ips,    \* DashMap<IpAddr, Instant>
    now,           \* Instant::now()
    pc,            \* where each task's ban_ip call is
    target,        \* its argument `ip`
    expiry,        \* its Instant::now() + duration
    sweeper,       \* where the sweeper task is
    sweepNow,      \* the sweeper's local `now`
    unvisited,     \* addresses whose entry retain() has not passed yet
    victim,        \* the entry whose shard retain() holds
    calls,         \* ban_ip calls that blocked their address so far
    raced          \* history: a sweep undid a block that a ban_ip call relied on

vars == <<BLOCKED_IPS, banned_ips, now, pc, target, expiry,
          sweeper, sweepNow, unvisited, victim, calls, raced>>

-----------------------------------------------------------------------------
(***************************************************************************)
(* Keys of the kernel map.                                                 *)
(***************************************************************************)
from_be_bytes(o) == o[1] * 16777216 + o[2] * 65536 + o[3] * 256 + o[4]
from_le_bytes(o) == o[4] * 16777216 + o[3] * 65536 + o[2] * 256 + o[1]

\* The key under which the limiter files an address.
IpBytes(ip) == from_be_bytes(ip)

\* ip->saddr as the eBPF program reads it: wire bytes taken as a native u32.
Saddr(ip) == IF LittleEndian THEN from_le_bytes(ip) ELSE from_be_bytes(ip)

xdp_prog(ip) ==
    IF ip \in V4 /\ Saddr(ip) \in BLOCKED_IPS THEN "XDP_DROP" ELSE "XDP_PASS"

IsIpBlocked(ip) == ip \in V4 /\ IpBytes(ip) \in BLOCKED_IPS

\* matched_ips.insert fails when the map is full and the key is new.
BlockIp(ip) ==
    IF ip \in V4
      THEN /\ IpBytes(ip) \in BLOCKED_IPS \/ Cardinality(BLOCKED_IPS) < MaxEntries
           /\ BLOCKED_IPS' = BLOCKED_IPS \cup {IpBytes(ip)}
      ELSE UNCHANGED BLOCKED_IPS

\* matched_ips.remove fails when the key is absent; IPv6 is a successful no-op.
UnblockFails(ip) == ip \in V4 /\ IpBytes(ip) \notin BLOCKED_IPS

UnblockIp_NoRemove(ip) == ~UnblockFails(ip) /\ UNCHANGED BLOCKED_IPS

UnblockIp(ip) ==
    /\ ~UnblockFails(ip)
    /\ BLOCKED_IPS' = IF ip \in V4 THEN BLOCKED_IPS \ {IpBytes(ip)} ELSE BLOCKED_IPS

-----------------------------------------------------------------------------
Init ==
    /\ BLOCKED_IPS = {}
    /\ banned_ips = [ip \in Ips |-> None]
    /\ now = 0
    /\ pc = [k \in Tasks |-> "idle"]
    /\ target = [k \in Tasks |-> None]
    /\ expiry = [k \in Tasks |-> 0]
    /\ sweeper = "asleep"
    /\ sweepNow = 0
    /\ unvisited = {}
    /\ victim = None
    /\ calls = 0
    /\ raced = [ip \in Ips |-> FALSE]

(***************************************************************************)
(* ban_ip: block in the kernel; on success compute the expiry, then insert *)
(* it.  On failure the call only logs.                                     *)
(***************************************************************************)
Banning(k, ip) == pc[k] \in {"stamp", "insert"} /\ target[k] = ip

BanIp(k, ip) ==
    /\ pc[k] = "idle"
    /\ now <= LastBan /\ calls < MaxBans
    /\ BlockIp(ip)
    /\ pc' = [pc EXCEPT ![k] = "stamp"]
    /\ target' = [target EXCEPT ![k] = ip]
    /\ raced' = [raced EXCEPT ![ip] = FALSE]
    /\ calls' = calls + 1
    /\ UNCHANGED <<banned_ips, now, expiry, sweeper, sweepNow, unvisited, victim>>

Stamp(k) ==
    /\ pc[k] = "stamp"
    /\ pc' = [pc EXCEPT ![k] = "insert"]
    /\ expiry' = [expiry EXCEPT ![k] = now + BanDuration]
    /\ UNCHANGED <<BLOCKED_IPS, banned_ips, now, target, sweeper, sweepNow,
                   unvisited, victim, calls, raced>>

\* The insert waits while retain() holds the shard of this address.
Insert(k) ==
    /\ pc[k] = "insert"
    /\ ~(sweeper = "removing" /\ victim = target[k])
    /\ banned_ips' = [banned_ips EXCEPT ![target[k]] = expiry[k]]
    /\ pc' = [pc EXCEPT ![k] = "idle"]
    /\ target' = [target EXCEPT ![k] = None]
    /\ expiry' = [expiry EXCEPT ![k] = 0]
    /\ UNCHANGED <<BLOCKED_IPS, now, sweeper, sweepNow, unvisited, victim, calls, raced>>

-----------------------------------------------------------------------------
(***************************************************************************)
(* The sweeper: one clock reading per tick, then retain() over the         *)
(* entries, in any order, each under the lock of its shard.                *)
(***************************************************************************)
Sweep ==
    /\ sweeper = "asleep"
    /\ sweeper' = "sweeping"
    /\ sweepNow' = now
    /\ unvisited' = Ips
    /\ UNCHANGED <<BLOCKED_IPS, banned_ips, now, pc, target, expiry, victim, calls, raced>>

Expired_Reversed(ip) == banned_ips[ip] # None /\ banned_ips[ip] >= sweepNow

Expired(ip) == banned_ips[ip] # None /\ banned_ips[ip] <= sweepNow

\* The closure answers true: not expired, or the unblock failed ("Retry on
\* next tick").
SweepKeep(ip) ==
    /\ sweeper = "sweeping"
    /\ ip \in unvisited
    /\ Expired(ip) => UnblockFails(ip)
    /\ unvisited' = unvisited \ {ip}
    /\ UNCHANGED <<BLOCKED_IPS, banned_ips, now, pc, target, expiry,
                   sweeper, sweepNow, victim, calls, raced>>

SweepUnblock(ip) ==
    /\ sweeper = "sweeping"
    /\ ip \in unvisited
    /\ Expired(ip)
    /\ UnblockIp(ip)
    /\ sweeper' = "removing"
    /\ victim' = ip
    /\ raced' = [raced EXCEPT ![ip] = @ \/ \E k \in Tasks : Banning(k, ip)]
    /\ UNCHANGED <<banned_ips, now, pc, target, expiry, sweepNow, unvisited, calls>>

\* The closure answers false: retain() drops the entry.
SweepRemove_NoUnlist ==
    /\ sweeper = "removing"
    /\ sweeper' = "sweeping"
    /\ unvisited' = unvisited \ {victim}
    /\ victim' = None
    /\ UNCHANGED <<BLOCKED_IPS, banned_ips, now, pc, target, expiry, sweepNow, calls, raced>>

SweepRemove ==
    /\ sweeper = "removing"
    /\ sweeper' = "sweeping"
    /\ banned_ips' = [banned_ips EXCEPT ![victim] = None]
    /\ unvisited' = unvisited \ {victim}
    /\ victim' = None
    /\ UNCHANGED <<BLOCKED_IPS, now, pc, target, expiry, sweepNow, calls, raced>>

SweepEnd ==
    /\ sweeper = "sweeping"
    /\ unvisited = {}
    /\ sweeper' = "asleep"
    /\ UNCHANGED <<BLOCKED_IPS, banned_ips, now, pc, target, expiry,
                   sweepNow, unvisited, victim, calls, raced>>

-----------------------------------------------------------------------------
\* The clock passes LastBan only when the calls begun by then have returned, so
\* that every ban expires before the clock stops.
Tick ==
    /\ now < MaxTime
    /\ now < LastBan \/ \A k \in Tasks : pc[k] = "idle"
    /\ now' = now + 1
    /\ UNCHANGED <<BLOCKED_IPS, banned_ips, pc, target, expiry,
                   sweeper, sweepNow, unvisited, victim, calls, raced>>

TaskStep(k) == Stamp(k) \/ Insert(k)

SweeperStep ==
    \/ Sweep \/ SweepRemove \/ SweepEnd
    \/ \E ip \in Ips : SweepKeep(ip) \/ SweepUnblock(ip)

Next ==
    \/ Tick
    \/ SweeperStep
    \/ \E k \in Tasks : TaskStep(k) \/ \E ip \in Ips : BanIp(k, ip)

Spec == Init /\ [][Next]_vars

\* The clock runs; ban_ip has no await and tokio runs the sweeper's timer.
Fairness ==
    /\ WF_vars(Tick)
    /\ WF_vars(SweeperStep)
    /\ \A k \in Tasks : WF_vars(TaskStep(k))

FairSpec == Spec /\ Fairness

-----------------------------------------------------------------------------
\* Types of the variables.
TypeOK ==
    /\ BLOCKED_IPS \subseteq Nat
    /\ banned_ips \in [Ips -> Nat \cup {None}]
    /\ now \in Nat
    /\ pc \in [Tasks -> {"idle", "stamp", "insert"}]
    /\ target \in [Tasks -> Ips \cup {None}]
    /\ expiry \in [Tasks -> Nat]
    /\ sweeper \in {"asleep", "sweeping", "removing"}
    /\ sweepNow \in Nat
    /\ unvisited \subseteq Ips
    /\ victim \in Ips \cup {None}
    /\ calls \in Nat
    /\ raced \in [Ips -> BOOLEAN]

\* An address blocked in the kernel has an entry in banned_ips, or a ban_ip
\* call is about to insert one: no interleaving of bans and sweeps leaves a
\* kernel block that the sweeper will never find.
NoOrphanBlock ==
    \A ip \in V4 : IsIpBlocked(ip) =>
        \/ banned_ips[ip] # None
        \/ \E k \in Tasks : Banning(k, ip)

\* An entry of banned_ips without its kernel block, outside the sweeper's own
\* removal of the entry, exists only if a sweep of the address's previous ban
\* ran between the block and the insert of a ban_ip call.
UnbackedOnlyByRace ==
    \A ip \in V4 :
        /\ banned_ips[ip] # None
        /\ ~IsIpBlocked(ip)
        /\ ~(sweeper = "removing" /\ victim = ip)
        => raced[ip]

\* Every kernel block is lifted again.
BlocksLifted == \A ip \in V4 : IsIpBlocked(ip) ~> ~IsIpBlocked(ip)

\* "Bans the given IP address at the kernel level for the specified duration":
\* an unexpired ban whose ban_ip call has returned is a block in the kernel.
BanHolds ==
    \A ip \in V4 :
        /\ banned_ips[ip] # None
        /\ banned_ips[ip] > now
        /\ \A k \in Tasks : ~Banning(k, ip)
        => IsIpBlocked(ip)

\* The kernel drops the packets of an address the limiter reports as blocked.
BlockedIsDropped == \A ip \in V4 : IsIpBlocked(ip) => xdp_prog(ip) = "XDP_DROP"

(***************************************************************************)
(* The inductive strengthening of NoOrphanBlock and UnbackedOnlyByRace.    *)
(***************************************************************************)
\* While retain() holds the victim's shard, only a ban_ip call that has not
\* inserted yet can have blocked the victim again.
VictimUnblocked ==
    sweeper = "removing" =>
        /\ victim \in Ips
        /\ IsIpBlocked(victim) => \E k \in Tasks : Banning(k, victim)

\* A ban_ip call about to insert has its block in the kernel, or lost it to a sweep.
BanningBacked ==
    \A k \in Tasks : \A ip \in V4 : Banning(k, ip) /\ ~IsIpBlocked(ip) => raced[ip]

\* A call past its block_ip has an address.
TargetKnown == \A k \in Tasks : pc[k] # "idle" => target[k] \in Ips

BanInv ==
    NoOrphanBlock /\ UnbackedOnlyByRace /\ VictimUnblocked /\ BanningBacked /\ TargetKnown

=============================================================================
