\* A fetch of a sleeping peer lasts as long as a tick of the loop; the clock stops at its horizon.
SPECIFICATION Spec
CONSTANTS
    h1 = h1
    h2 = h2
    author = author
    friend = friend
    None = None
    Hashes = {h1, h2}
    Peers = {author, friend}
    Author <- MCAuthor
    DeliveredBy <- MCDeliveredBy
    SETTLE_INTERVAL = 1
    FETCH_TIMEOUT = 1
    WAKE_FALLBACK = 3
    BASE = 1
    CEILING = 6
    MaxShift = 3
    LastArrival = 0
    Horizon = 13
INVARIANTS WokenInTime ArrivalUsed PeerUsedInTime BackoffKept
CHECK_DEADLOCK FALSE
