\* Every record but the tombstone has its own ciphertext: an author retires its latest fix while sweeps act on older readings.
SPECIFICATION Spec
CONSTANTS
    n1 = n1
    n2 = n2
    h1 = h1
    h2 = h2
    h0 = h0
    Empty = h0
    None = None
    Namespaces = {n1}
    Hashes = {h0, h1, h2}
    HexDecode <- Hex
    SEQ_WIDTH = 2
    MaxU64 = 9
    RetentionMs = 0
    Entries <- RetiredFix
    EngineFetchable = {}
    Uploads = {}
    Faults = {"replica"}
    WAKE_FALLBACK_MS = 1
    BASE_MS = 1
    CEILING_MS = 1
    MaxShift = 0
    Horizon = 1
    WakeCap = 2
INVARIANTS WantedIsChased WakeOnce ParkedIsAnnounced KeptIsReferenced
