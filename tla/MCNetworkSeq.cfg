\* One caller making three calls in a row: stale replies to abandoned
\* requests of earlier calls, every operation, MessageSender reuse.
CONSTANTS
    c1 = c1
    c2 = c2
    Callers <- MCOneCaller
    Configs <- MCConfigs
    QueueCap = 1
    CONNECT_TIMEOUT = 2
    PING_TIMEOUT = 2
    SendTimeout = 2
    MaxCalls = 3
    MaxRetries = 2
SPECIFICATION Spec
INVARIANT TypeOK
INVARIANT RetryAccounting
PROPERTY CallEnds
