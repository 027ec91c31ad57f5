\* Two callers and a channel of capacity 1: is a call's deadline kept
\* while its thread is blocked in network_out_sender.send?
CONSTANTS
    c1 = c1
    c2 = c2
    Callers <- MCCallers
    Configs <- MCConfigs
    QueueCap = 1
    CONNECT_TIMEOUT = 2
    PING_TIMEOUT = 2
    SendTimeout = 2
    MaxCalls = 1
    MaxRetries = 2
SPECIFICATION Spec
INVARIANT DeadlineRespected
