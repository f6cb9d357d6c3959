----------------------------- MODULE TokenBucket ----------------------------
(***************************************************************************)
(* What a rate limit of `Capacity` units promises: a bucket that starts    *)
(* full, gains one unit per unit of time, and pays for each request or     *)
(* refuses it.  `Tolerance` units may be missing from what it pays or be   *)
(* asked for in excess; with a tolerance of zero the bucket is exact.  A   *)
(* request may get an error instead of an answer; it is then paid like a   *)
(* granted one or not at all.                                              *)
(***************************************************************************)
EXTENDS Naturals

CONSTANTS
    Tasks,
    Costs,
    Price,       \* units of the bucket per token of cost
    Capacity,
    Tolerance,
    None

VARIABLES
    level,
    asked,       \* the cost of each task's request under way
    verdict      \* what its latest request was told

vars == <<level, asked, verdict>>

Init ==
    /\ level = Capacity
    /\ asked = [k \in Tasks |-> None]
    /\ verdict = [k \in Tasks |-> "none"]

Ask(k, c) ==
    /\ asked[k] = None
    /\ asked' = [asked EXCEPT ![k] = c]
    /\ verdict' = [verdict EXCEPT ![k] = "none"]
    /\ UNCHANGED level

Answer(k, v) ==
    /\ asked' = [asked EXCEPT ![k] = None]
    /\ verdict' = [verdict EXCEPT ![k] = v]

Pay(k) ==
    /\ Price * asked[k] <= level
    /\ \E paid \in 0..(Price * asked[k]) :
        /\ Price * asked[k] <= paid + Tolerance
        /\ level' = level - paid

Grant(k) ==
    /\ asked[k] # None
    /\ Pay(k)
    /\ Answer(k, "allowed")

Fail(k) ==
    /\ asked[k] # None
    /\ Pay(k) \/ UNCHANGED level
    /\ Answer(k, "error")

Refuse(k) ==
    /\ asked[k] # None
    /\ level < Price * asked[k] + Tolerance
    /\ Answer(k, "denied")
    /\ UNCHANGED level

Refill ==
    /\ level < Capacity
    /\ level' = level + 1
    /\ UNCHANGED <<asked, verdict>>

Next ==
    \/ Refill
    \/ \E k \in Tasks : Grant(k) \/ Refuse(k) \/ Fail(k) \/ \E c \in Costs : Ask(k, c)

Spec == Init /\ [][Next]_vars

=============================================================================
