SPECIFICATION ReplSpec
SYMMETRY Symmetry
CONSTANTS
    Slaves = {s1}
    Links = {l1, l2}
    Dbs = {0, 1}
    BacklogSizes = {1, 2}
    MaxWrites = 2
    MaxOffset = 4
    NoLink = NoLink
INVARIANTS
    SlaveFollowsMaster 
CHECK_DEADLOCK FALSE
