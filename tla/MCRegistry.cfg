\* Three phones register and unsubscribe concurrently; calls fail and phones hang up.
SPECIFICATION FairSpec
CONSTANTS
    p1 = p1
    p2 = p2
    p3 = p3
    n1 = n1
    n2 = n2
    None = None
    PSK = "key"
    MIN_TICKET_LEN = 2
    MAX_TICKET_LEN = 3
    MAX_TOKEN_LEN = 2
    NS_HEX_LEN = 64
    Phones = {p1, p2, p3}
    Namespaces = {n1, n2}
    Requests <- MCRequests
    Device <- MCDevice
    PushEnv <- MCPushEnv
    Faults = TRUE
INVARIANTS TypeOK OneWatcher GrantedIsJoined SubscribedAsTold WakesAsTold
PROPERTY RequestAnswered
