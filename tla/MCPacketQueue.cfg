\* A pool of four nodes that two kinds of packet go through.
SPECIFICATION Spec
CONSTANTS
    x = x
    y = y
    Size = 4
    Items = {x, y}
    NoItem = NoItem
    FreshHeaders <- MCHeaders
INVARIANTS TypeOK NodesPartitioned
PROPERTIES ImplementsPool
\* After a wild access the program has ended.
CHECK_DEADLOCK FALSE
