---------------------------- MODULE SendTimeout ----------------------------
(***************************************************************************)
(* send_timeout of src/iroh-bitswap/src/network.rs: the time allowed to    *)
(* send a message of a given encoded length.  Durations are whole seconds *)
(* (Duration::from_secs of an integer quotient).                           *)
(***************************************************************************)
EXTENDS Integers, TLAPS

CONSTANTS
    SEND_LATENCY,      \* 1s
    MIN_SEND_TIMEOUT,  \* 2s
    MAX_SEND_TIMEOUT,  \* 60s
    MIN_SEND_RATE      \* (100 * 1000) / 8 bytes per second

ASSUME SendTimeoutAssumption ==
    /\ SEND_LATENCY \in Nat
    /\ MIN_SEND_TIMEOUT \in Nat
    /\ MAX_SEND_TIMEOUT \in Nat
    /\ MIN_SEND_TIMEOUT <= MAX_SEND_TIMEOUT
    /\ MIN_SEND_RATE \in Nat \ {0}

\* Mutant: the MAX_SEND_TIMEOUT ceiling left out.
send_timeout_no_ceiling(size) ==
    LET timeout == SEND_LATENCY + size \div MIN_SEND_RATE
    IN  IF timeout < MIN_SEND_TIMEOUT THEN MIN_SEND_TIMEOUT ELSE timeout

\* Mutant: the two bounds swapped in the floor branch.
send_timeout_swapped(size) ==
    LET timeout == SEND_LATENCY + size \div MIN_SEND_RATE
    IN  IF timeout > MAX_SEND_TIMEOUT THEN MAX_SEND_TIMEOUT
        ELSE IF timeout < MIN_SEND_TIMEOUT THEN MAX_SEND_TIMEOUT
        ELSE timeout

send_timeout(size) ==
    LET timeout == SEND_LATENCY + size \div MIN_SEND_RATE
    IN  IF timeout > MAX_SEND_TIMEOUT THEN MAX_SEND_TIMEOUT
        ELSE IF timeout < MIN_SEND_TIMEOUT THEN MIN_SEND_TIMEOUT
        ELSE timeout
-----------------------------------------------------------------------------
(* Spec 4.2 and 8: whatever the message size, send_timeout lies between    *)
(* MIN_SEND_TIMEOUT and MAX_SEND_TIMEOUT, so a tiny message still gets the *)
(* floor and a huge one no more than the ceiling.                          *)
THEOREM SendTimeoutClamped ==
    \A size \in Nat : send_timeout(size) \in MIN_SEND_TIMEOUT..MAX_SEND_TIMEOUT
BY SendTimeoutAssumption DEF send_timeout

(* Spec 8: send_timeout never decreases as the message grows.             *)
THEOREM SendTimeoutMonotone ==
    \A s, t \in Nat : s <= t => send_timeout(s) <= send_timeout(t)
<1> SUFFICES ASSUME NEW s \in Nat, NEW t \in Nat, s <= t
             PROVE  send_timeout(s) <= send_timeout(t)
  OBVIOUS
<1>1. s \div MIN_SEND_RATE <= t \div MIN_SEND_RATE
  BY SendTimeoutAssumption
<1>2. QED
  BY <1>1, SendTimeoutAssumption DEF send_timeout
=============================================================================
