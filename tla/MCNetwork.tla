----------------------------- MODULE MCNetwork -----------------------------
(* Small instances of Network for TLC. *)
EXTENDS Network, TLC

CONSTANTS c1, c2

MCCallers == {c1, c2}

\* One caller that makes several calls in a row.
MCOneCaller == {c1}

\* One MessageSenderConfig that retries twice with a backoff of one tick.
MCConfigs == {[max_retries |-> 2, send_timeout |-> 4, send_error_backoff |-> 1]}

MCSymmetry == Permutations(MCCallers)
=============================================================================
