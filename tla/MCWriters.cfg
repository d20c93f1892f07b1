\* Two writers, one restart.
SPECIFICATION FairSpec
CONSTANTS
    n1 = n1
    n2 = n2
    h1 = h1
    h2 = h2
    Namespaces = {n1, n2}
    Hashes = {h1, h2}
    Batch <- MCBatch
    Reconcilable <- MCReconcilable
    Corrupt <- MCCorrupt
    Reads <- MCReads
    MaxRestarts = 1
INVARIANTS TypeOK ReceiptHonoured NoCrossRead
PROPERTY BatchDelivered
