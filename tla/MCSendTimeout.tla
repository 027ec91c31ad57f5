--------------------------- MODULE MCSendTimeout ---------------------------
(***************************************************************************)
(* A sweep over message sizes, every Stride bytes and on both sides of     *)
(* each sample, checking send_timeout against a reference definition.     *)
(***************************************************************************)
EXTENDS SendTimeout

CONSTANTS Stride, MaxSize

\* The sweep steps past the size after each sample, so that the previous
\* sample's neighbour lies below this one's.
ASSUME SweepAssumption == Stride \in Nat /\ Stride >= 2 /\ MaxSize \in Nat

VARIABLES size, prev   \* the sample, and send_timeout of the previous one

vars == <<size, prev>>

Init == size = 1 /\ prev = send_timeout(0)

Next ==
    /\ size + Stride <= MaxSize
    /\ size' = size + Stride
    /\ prev' = send_timeout(size + 1)

Spec == Init /\ [][Next]_vars

Around == {size - 1, size, size + 1}

\* The least and the greatest element of a set of integers.
Least(S)    == CHOOSE x \in S : \A y \in S : x <= y
Greatest(S) == CHOOSE x \in S : \A y \in S : y <= x

(* The reference: the spec's 4.2 rule, base latency plus size over the    *)
(* minimum rate, clamped into [min_send_timeout, max_send_timeout].       *)
RefTimeout(s) ==
    Least({MAX_SEND_TIMEOUT, Greatest({MIN_SEND_TIMEOUT, SEND_LATENCY + s \div MIN_SEND_RATE})})

(* send_timeout agrees with the reference at and around every sample.     *)
MatchesReference == \A s \in Around : send_timeout(s) = RefTimeout(s)

(* send_timeout never decreases as the message grows: across the previous *)
(* sample and the three sizes around this one.                            *)
Monotone ==
    /\ prev <= send_timeout(size - 1)
    /\ send_timeout(size - 1) <= send_timeout(size)
    /\ send_timeout(size) <= send_timeout(size + 1)
=============================================================================
