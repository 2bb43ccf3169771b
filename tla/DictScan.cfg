SPECIFICATION Spec
SYMMETRY Symmetry
CONSTANTS
    DictKeys = {0, 1, 2}
    NoKey = NoKey
    DICT_HT_INITIAL_SIZE = 1
    ForceRatio = 1
    MinFill = 50
    WordBits = 4
    MaxSlots = 4
    Elements = {1, 2, 3}
    LongElements = {3}
    Scores = {1, 2}
    ZSKIPLIST_MAXLEVEL = 2
    MaxEntries = 1
    Header = Header
    Null = Null
    Blockers = {b1, b2}
    Writers = {w}
    ka = ka
    kb = kb
    Keys = {ka, kb}
    Values = {1, 2}
    MaxLen = 1
    Transactions <- SmallTransactions
    String = String
    AofDbs = {0, 1}
    AofWrites = 2
    MaxJobs = 2
    MaxStarts = 2
CHECK_DEADLOCK FALSE
INVARIANT ScanGuarantee
