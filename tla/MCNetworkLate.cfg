\* One caller and a channel that never fills: does the retry loop enqueue
\* an attempt after its overall deadline has elapsed?
CONSTANTS
    c1 = c1
    c2 = c2
    Callers <- MCOneCaller
    Configs <- MCConfigs
    QueueCap = 4
    CONNECT_TIMEOUT = 2
    PING_TIMEOUT = 2
    SendTimeout = 2
    MaxCalls = 2
    MaxRetries = 2
SPECIFICATION Spec
INVARIANT NoAttemptAfterDeadline
