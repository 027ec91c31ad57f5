-------------------------- MODULE SendTimeoutProofs --------------------------
(***************************************************************************)
(* Proofs that the sweep's two invariants hold for every choice of the    *)
(* constants, not only the sizes TLC samples: send_timeout is the clamp   *)
(* the reference describes at every size, and it never decreases.          *)
(***************************************************************************)
EXTENDS MCSendTimeout

USE SendTimeoutAssumption, SweepAssumption

\* The least of two integers.
LEMMA LeastPair ==
    ASSUME NEW a \in Int, NEW b \in Int
    PROVE  Least({a, b}) = IF a <= b THEN a ELSE b
<1>1. \E x \in {a, b} : \A y \in {a, b} : x <= y
  OBVIOUS
<1>2. LET m == Least({a, b}) IN m \in {a, b} /\ \A y \in {a, b} : m <= y
  BY <1>1 DEF Least
<1>3. QED
  BY <1>2

\* The greatest of two integers.
LEMMA GreatestPair ==
    ASSUME NEW a \in Int, NEW b \in Int
    PROVE  Greatest({a, b}) = IF b <= a THEN a ELSE b
<1>1. \E x \in {a, b} : \A y \in {a, b} : y <= x
  OBVIOUS
<1>2. LET m == Greatest({a, b}) IN m \in {a, b} /\ \A y \in {a, b} : y <= m
  BY <1>1 DEF Greatest
<1>3. QED
  BY <1>2

(* send_timeout's two tests in a row, ceiling first, are the clamp of the *)
(* raw timeout into [MIN_SEND_TIMEOUT, MAX_SEND_TIMEOUT] for every size.  *)
LEMMA SendTimeoutIsClamp ==
    ASSUME NEW s \in Nat
    PROVE  send_timeout(s) = RefTimeout(s)
<1> DEFINE raw == SEND_LATENCY + s \div MIN_SEND_RATE
<1>1. raw \in Int
  OBVIOUS
<1>2. Greatest({MIN_SEND_TIMEOUT, raw}) = IF raw <= MIN_SEND_TIMEOUT THEN MIN_SEND_TIMEOUT ELSE raw
  BY <1>1, GreatestPair
<1> DEFINE g == IF raw <= MIN_SEND_TIMEOUT THEN MIN_SEND_TIMEOUT ELSE raw
<1>3. g \in Int
  BY <1>1
<1>4. Least({MAX_SEND_TIMEOUT, g}) = IF MAX_SEND_TIMEOUT <= g THEN MAX_SEND_TIMEOUT ELSE g
  BY <1>3, LeastPair
<1>5. QED
  BY <1>2, <1>4 DEF RefTimeout, send_timeout

(* The sweep's inductive invariant: the sample is a positive size and the *)
(* remembered value is send_timeout of a size below it.                    *)
SweepInv ==
    /\ size \in Nat \ {0}
    /\ \E k \in Nat : k <= size - 1 /\ prev = send_timeout(k)

LEMMA SweepInvHolds == Spec => []SweepInv
<1>1. Init => SweepInv
  BY DEF Init, SweepInv
<1>2. SweepInv /\ [Next]_vars => SweepInv'
  <2> SUFFICES ASSUME SweepInv, [Next]_vars PROVE SweepInv'
    OBVIOUS
  <2>1. CASE Next
    <3>1. size' = size + Stride /\ size + 1 \in Nat /\ size + 1 <= size' - 1
      BY <2>1 DEF Next, SweepInv
    <3>2. prev' = send_timeout(size + 1)
      BY <2>1 DEF Next
    <3>3. QED
      BY <3>1, <3>2 DEF SweepInv
  <2>2. CASE UNCHANGED vars
    BY <2>2 DEF vars, SweepInv
  <2>3. QED
    BY <2>1, <2>2
<1>3. QED
  BY <1>1, <1>2, PTL DEF Spec

(* At and around every sample of the sweep, whatever the constants and   *)
(* the stride, send_timeout (network.rs) agrees with the reference clamp. *)
THEOREM MatchesReferenceHolds == Spec => []MatchesReference
<1>1. SweepInv => MatchesReference
  <2> SUFFICES ASSUME SweepInv, NEW s \in Around PROVE send_timeout(s) = RefTimeout(s)
    BY DEF MatchesReference
  <2>1. s \in Nat
    BY DEF SweepInv, Around
  <2>2. QED
    BY <2>1, SendTimeoutIsClamp
<1>2. QED
  BY <1>1, SweepInvHolds, PTL

(* Over the whole sweep send_timeout never decreases from the previous     *)
(* sample through the three sizes around this one, for every stride of at *)
(* least two bytes: it rests on SendTimeoutMonotone.                        *)
THEOREM MonotoneHolds == Spec => []Monotone
<1>1. SweepInv => Monotone
  <2> SUFFICES ASSUME SweepInv PROVE Monotone
    OBVIOUS
  <2>1. PICK k \in Nat : k <= size - 1 /\ prev = send_timeout(k)
    BY DEF SweepInv
  <2>2. size - 1 \in Nat /\ size \in Nat /\ size + 1 \in Nat
    BY DEF SweepInv
  <2>3. /\ send_timeout(k) <= send_timeout(size - 1)
        /\ send_timeout(size - 1) <= send_timeout(size)
        /\ send_timeout(size) <= send_timeout(size + 1)
    BY <2>1, <2>2, SendTimeoutMonotone
  <2>4. QED
    BY <2>1, <2>3 DEF Monotone
<1>2. QED
  BY <1>1, SweepInvHolds, PTL
=============================================================================
