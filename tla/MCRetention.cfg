\* Seven records of every key class arriving in any order.
SPECIFICATION Spec
CONSTANTS
    HexDecode <- Hex
    SEQ_WIDTH = 2
    MaxU64 = 50
    RetentionMs = 2
    Records <- MCRecords
    LastMs = 6
INVARIANTS StreamOrderIrrelevant OneSeqPerAuthor LatestSurvives
PROPERTY DecisionStable
CHECK_DEADLOCK FALSE
