\* The constants of network.rs; samples every 125 bytes up to 62 * 12500,
\* past the 60s ceiling.
CONSTANTS
    SEND_LATENCY = 1
    MIN_SEND_TIMEOUT = 2
    MAX_SEND_TIMEOUT = 60
    MIN_SEND_RATE = 12500
    Stride = 125
    MaxSize = 775000
SPECIFICATION Spec
INVARIANT MatchesReference
INVARIANT Monotone
CHECK_DEADLOCK FALSE
