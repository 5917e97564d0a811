CONSTANTS
    Kinds = {"User", "Lettering", "CallForwarding", "RejectCall"}
    Names = {"a", "b", "c"}
    Values = {"b", "c"}
    Asked <- MCAsked
    NoName = "none"
    Cut = "cut"
    TooLong <- MCTooLong
    SamePrefix <- MCSamePrefix
    Buckets = {1, 2}
    BucketOf <- MCBucketOf
    TableSize = 3
    ChainSize = 2
    ValueSize = 2
SPECIFICATION Spec
INVARIANTS TypeOK FoundIsStored ChainsCountRows OverrunsNeedFull LoadNeverOverruns AnswersWereAsked
PROPERTY ImplementsStoredNames
CHECK_DEADLOCK FALSE
