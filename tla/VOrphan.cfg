\* A control slot is overwritten in place.
SPECIFICATION FairSpec
CONSTANTS
    n1 = n1
    n2 = n2
    h1 = h1
    h2 = h2
    h0 = h0
    Empty = h0
    None = None
    Namespaces = {n1}
    Hashes = {h1, h2}
    HexDecode <- Hex
    SEQ_WIDTH = 2
    MaxU64 = 9
    RetentionMs = 1
    Entries <- ControlSlot
    EngineFetchable = {}
    Uploads = {}
    Faults = {}
    WAKE_FALLBACK_MS = 1
    BASE_MS = 1
    CEILING_MS = 2
    MaxShift = 0
    Horizon = 3
    WakeCap = 0
PROPERTY ReferenceExpires
