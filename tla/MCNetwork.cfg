\* Two callers, one call each, sharing a channel of capacity 1: blocked
\* senders, interleaved requests and replies in any order.
CONSTANTS
    c1 = c1
    c2 = c2
    Callers <- MCCallers
    Configs <- MCConfigs
    QueueCap = 1
    CONNECT_TIMEOUT = 2
    PING_TIMEOUT = 2
    SendTimeout = 2
    MaxCalls = 1
    MaxRetries = 2
SPECIFICATION Spec
PROPERTY CallEnds
