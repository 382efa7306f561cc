SPECIFICATION Spec
CONSTANTS
    SendInterval = 2
    CheckInterval = 5
    Timeout = 5
    ConnectTimeout = 3
    BuilderTimeout = 5
    Nodes = 2
    MaxOutages = 1
    MaxReplies = 1
    Stamps = {0, 6}
    Latency = 1
    Resubscribe = 3
    Settle = 10
    Found = 23
INVARIANT SilentFoundInTime
PROPERTY LivingKept
