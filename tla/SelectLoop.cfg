CONSTANTS
    Fds = {f1, f2}
    Limit = 1
    MaxUnread = 1
    MaxTyped = 1
SPECIFICATION FairSpec
INVARIANTS TypeOK SomebodyLeft SpinsOnlyWhenUpset
PROPERTIES QuietPassServesAll ComesBack IdleScansRecur SignalStops
CHECK_DEADLOCK FALSE
