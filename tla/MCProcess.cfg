\* One process after another; sockets, signal handlers and the collector may fail.
SPECIFICATION FairSpec
CONSTANTS
    None = None
    Junk = Junk
    U16_MAX = 9
    U64_MAX = 60
    DEFAULT_PORT = 7
    DEFAULT_RETENTION_HOURS = 3
    MIN_RETENTION_HOURS = 1
    MAX_RETENTION_HOURS = 5
    DEFAULT_PRUNE_INTERVAL_MIN = 2
    MIN_PRUNE_INTERVAL_MIN = 1
    MAX_PRUNE_INTERVAL_MIN = 4
    MS_PER_HOUR = 10
    SECRET_HEX_LEN = 4
    Digits = {"1"}
    HexLetters = {"a"}
    OtherAlnum = {"g"}
    NetworkMarks = {".", ":"}
    OpaqueMarks = {"-"}
    Addresses <- MCAddresses
    MIN_OPAQUE = 3
    Lines <- MCLines
    Envs <- MCEnvs
    BadUrls = {"bad"}
    Messages <- MCMessages
    Spans <- MCSpans
    Headers <- MCHeaders
    Faults = TRUE
INVARIANTS ScrubbedExactly KnobsSane GateAsDeployed ExportMirrorsConsole CollectorSawConsole
PROPERTIES ServesOrStops SignalStops
